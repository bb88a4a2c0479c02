----------------------------- MODULE LexerProofs -----------------------------
(***************************************************************************)
(* Proofs about Lexer, for texts of any length over any classes of         *)
(* characters and any keywords.                                            *)
(***************************************************************************)
EXTENDS Lexer, SequenceTheorems, FiniteSetTheorems, WellFoundedInduction, TLAPS

-----------------------------------------------------------------------------
(* The smallest and the largest element of a set of numbers.               *)

Smaller == {p \in Nat \X Nat : p[1] < p[2]}

LEMMA SmallerWellFounded == IsWellFoundedOn(Smaller, Nat)
<1>1. Smaller = OpToRel(<, Nat)
    BY Zenon DEF OpToRel, Smaller
<1> QED
    BY <1>1, NatLessThanWellFounded, Zenon

LEMMA SmallestOf ==
    ASSUME NEW S \in SUBSET Nat, S # {}
    PROVE  \E m \in S : \A k \in S : m <= k
<1>1. PICK m \in S : \A k \in S : <<k, m>> \notin Smaller
    BY SmallerWellFounded, WFMin, Zenon
<1>2. ASSUME NEW k \in S
      PROVE  m <= k
    <2> DEFINE p == <<k, m>>
    <2>1. p \in Nat \X Nat /\ p[1] = k /\ p[2] = m
        OBVIOUS
    <2>2. p \notin Smaller
        BY <1>1
    <2> HIDE DEF p
    <2>3. ~(p[1] < p[2])
        BY <2>1, <2>2 DEF Smaller
    <2> QED
        BY <2>1, <2>3
<1> QED
    BY <1>2

LEMMA MinIs ==
    ASSUME NEW S \in SUBSET Nat, S # {}
    PROVE  Min(S) \in S /\ \A k \in S : Min(S) <= k
BY SmallestOf DEF Min

\* An element that is not above any other is the minimum.
LEMMA MinIsThis ==
    ASSUME NEW S \in SUBSET Nat, NEW m \in S, \A k \in S : m <= k
    PROVE  Min(S) = m
<1>1. PICK x : x = Min(S)
    OBVIOUS
<1>2. x \in S /\ x <= m
    BY <1>1, MinIs
<1>3. m <= x /\ x \in Nat /\ m \in Nat
    BY <1>2
<1> QED
    BY <1>1, <1>2, <1>3

LEMMA MaxIs ==
    ASSUME NEW S \in SUBSET Nat, NEW m \in S, \A k \in S : k <= m
    PROVE  Max(S) = m
<1>1. \E x \in S : \A k \in S : x >= k
    OBVIOUS
<1>2. PICK x : x = Max(S)
    OBVIOUS
<1>3. x \in S /\ x >= m
    BY <1>1, <1>2, Zenon DEF Max
<1>4. x <= m /\ x \in Nat /\ m \in Nat
    BY <1>3
<1> QED
    BY <1>2, <1>3, <1>4

\* A set of numbers with a bound has a largest element.
LEMMA LargestOf ==
    ASSUME NEW S \in SUBSET Nat, S # {}, NEW b \in Nat, \A k \in S : k <= b
    PROVE  Max(S) \in S /\ \A k \in S : k <= Max(S)
<1>1. PICK T : T = {n \in Nat : \A k \in S : k <= n}
    OBVIOUS
<1>2. T \in SUBSET Nat /\ b \in T
    BY <1>1
<1>3. PICK m \in T : \A n \in T : m <= n
    BY <1>2, SmallestOf
<1>4. m \in S
    <2> SUFFICES ASSUME m \notin S
                 PROVE  FALSE
        OBVIOUS
    <2>1. m \in Nat /\ \A k \in S : k \in Nat /\ k <= m /\ k # m
        BY <1>1, <1>3
    <2>2. \A k \in S : k <= m - 1 /\ m - 1 \in Nat
        BY <2>1
    <2>3. m - 1 \in Nat
        BY <2>2
    <2>4. m - 1 \in T
        BY <2>2, <2>3, <1>1
    <2> QED
        BY <2>1, <2>3, <2>4, <1>3
<1>5. \A k \in S : k <= m
    BY <1>1, <1>3
<1> QED
    BY <1>4, <1>5, MaxIs

-----------------------------------------------------------------------------
(* The tokens of a text from a character on.                               *)

End == Len(text) + 1

\* Where the next word starts, how long it may be, and what follows.
Skipped(p) == Min({k \in p..End : At(k) \notin Blank})
Sizes(q) == {n \in 1..(End - q) : Lexeme(SubSeq(text, q, q + n - 1))}
Goes(q, f) ==
    IF Sizes(q) = {} THEN << >>
    ELSE <<TypeOf(SubSeq(text, q, q + Max(Sizes(q)) - 1))>> \o f[q + Max(Sizes(q))]

Rests(f) == f = [p \in 1..End |-> Goes(Skipped(p), f)]
Rest == CHOOSE f : Rests(f)

LEMMA TokensAreRest == TokensOfText = Rest[1]
BY Zenon DEF TokensOfText, Rest, Rests, Goes, Sizes, Skipped, End

TextOK == text \in Seq(Char)

\* Beyond the last character is the end, which is in no class.
LEMMA CharAt ==
    ASSUME TextOK
    PROVE  /\ End \in Nat \ {0} /\ DOMAIN text = 1..(End - 1) /\ At(End) = "NUL"
           /\ \A p \in 1..(End - 1) : At(p) = text[p] /\ text[p] \in Char
           /\ "NUL" \notin Blank \cup Alnum \cup Mark \cup {"_", "other"}
<1>1. Len(text) \in Nat /\ DOMAIN text = 1..Len(text)
    BY DEF TextOK
<1>2. End \in Nat \ {0} /\ End - 1 = Len(text) /\ End \notin DOMAIN text
    BY <1>1 DEF End
<1>3. At(End) = "NUL"
    BY <1>2 DEF At
<1>4. \A p \in 1..(End - 1) : At(p) = text[p] /\ text[p] \in Char
    BY <1>1, <1>2 DEF At, TextOK
<1>5. "NUL" \notin Blank \cup {"_", "other"}
    BY DEF Blank
<1>6. "NUL" \notin Alnum \cup Mark
    BY TextAssumption
<1> QED
    BY <1>1, <1>2, <1>3, <1>4, <1>5, <1>6

LEMMA SkipTo ==
    ASSUME TextOK, NEW p \in 1..End
    PROVE  /\ Skipped(p) \in p..End /\ At(Skipped(p)) \notin Blank
           /\ At(p) \notin Blank => Skipped(p) = p
           /\ At(p) \in Blank => p \in 1..(End - 1) /\ Skipped(p) = Skipped(p + 1)
<1>1. End \in Nat \ {0} /\ At(End) \notin Blank /\ End \in p..End /\ p \in Nat \ {0}
    BY CharAt
<1>2. PICK S : S = {k \in p..End : At(k) \notin Blank}
    OBVIOUS
<1>3. S \in SUBSET Nat /\ End \in S /\ Skipped(p) = Min(S) /\ S \subseteq p..End
    BY <1>1, <1>2 DEF Skipped
<1>4. Skipped(p) \in S
    BY <1>3, MinIs
<1>5. ASSUME At(p) \notin Blank
      PROVE  Skipped(p) = p
    <2>1. p \in S /\ \A k \in S : p <= k
        BY <1>1, <1>2, <1>5
    <2> QED
        BY <2>1, <1>3, MinIsThis
<1>6. ASSUME At(p) \in Blank
      PROVE  p \in 1..(End - 1) /\ Skipped(p) = Skipped(p + 1)
    <2>1. p # End /\ p \in 1..(End - 1)
        BY <1>1, <1>6
    <2>2. \A k : k \in (p + 1)..End <=> k \in p..End /\ k # p
        BY <1>1, <2>1
    <2>3. S = {k \in (p + 1)..End : At(k) \notin Blank}
        BY <2>2, <1>2, <1>6
    <2> QED
        BY <2>1, <2>3, <1>3 DEF Skipped
<1> QED
    BY <1>2, <1>4, <1>5, <1>6

LEMMA LongestSize ==
    ASSUME TextOK, NEW q \in 1..End, Sizes(q) # {}
    PROVE  Max(Sizes(q)) \in Sizes(q) /\ Max(Sizes(q)) \in 1..(End - q)
           /\ q + Max(Sizes(q)) \in (q + 1)..End
<1>1. PICK S : S = Sizes(q)
    OBVIOUS
<1>2. End - q \in Nat /\ S \subseteq 1..(End - q) /\ S \in SUBSET Nat /\ \A k \in S : k <= End - q
    BY <1>1, CharAt DEF Sizes
<1>3. Max(S) \in S
    BY <1>1, <1>2, LargestOf
<1> QED
    BY <1>1, <1>2, <1>3, CharAt

\* What follows from a character depends on what is beyond it only.
LEMMA GoesBeyond ==
    ASSUME TextOK, NEW f, NEW g, NEW p \in 1..End, \A k \in (p + 1)..End : f[k] = g[k]
    PROVE  Goes(Skipped(p), f) = Goes(Skipped(p), g)
<1>1. PICK q : q = Skipped(p)
    OBVIOUS
<1>2. q \in p..End /\ q \in 1..End /\ End \in Nat
    BY <1>1, SkipTo, CharAt
<1>3. CASE Sizes(q) = {}
    BY <1>1, <1>3 DEF Goes
<1>4. CASE Sizes(q) # {}
    <2>1. q + Max(Sizes(q)) \in (p + 1)..End
        BY <1>2, <1>4, LongestSize
    <2>2. f[q + Max(Sizes(q))] = g[q + Max(Sizes(q))]
        BY <2>1
    <2> QED
        BY <1>1, <2>2 DEF Goes
<1> QED
    BY <1>3, <1>4

\* From the end backwards, what follows each character can be said.
RestsFrom(f, n) ==
    f = [p \in 1..End |-> f[p]] /\ \A p \in n..End : f[p] = Goes(Skipped(p), f)

LEMMA RestsFromStep ==
    ASSUME TextOK, NEW n \in 1..End, NEW g, RestsFrom(g, n + 1)
    PROVE  \E f : RestsFrom(f, n)
<1>1. PICK f : f = [p \in 1..End |-> IF p = n THEN Goes(Skipped(n), g) ELSE g[p]]
    OBVIOUS
<1>2. End \in Nat /\ n \in Nat
    BY CharAt
<1>3. \A k \in (n + 1)..End : f[k] = g[k]
    BY <1>1, <1>2
<1>4. ASSUME NEW p \in n..End
      PROVE  f[p] = Goes(Skipped(p), f)
    <2>1. p \in 1..End /\ \A k \in (p + 1)..End : f[k] = g[k]
        BY <1>2, <1>3
    <2>2. Goes(Skipped(p), f) = Goes(Skipped(p), g)
        BY <2>1, GoesBeyond
    <2>3. CASE p = n
        BY <2>1, <2>2, <2>3, <1>1
    <2>4. CASE p # n
        <3>1. p \in (n + 1)..End
            BY <2>4, <1>2
        <3>2. g[p] = Goes(Skipped(p), g)
            BY <3>1 DEF RestsFrom
        <3> QED
            BY <3>1, <3>2, <2>2, <1>3
    <2> QED
        BY <2>3, <2>4
<1>5. f = [p \in 1..End |-> f[p]]
    BY <1>1
<1> QED
    BY <1>4, <1>5 DEF RestsFrom

LEMMA RestsExist ==
    ASSUME TextOK
    PROVE  \E f : Rests(f)
<1> DEFINE Bad == {k \in 0..End : ~ \E f : RestsFrom(f, (End + 1) - k)}
<1>1. End \in Nat \ {0} /\ Bad \in SUBSET Nat
    BY CharAt
<1>2. Bad = {}
    <2> SUFFICES ASSUME Bad # {}
                 PROVE  FALSE
        OBVIOUS
    <2>1. PICK m \in Bad : \A k \in Bad : m <= k
        BY <1>1, SmallestOf
    <2>2. m \in 0..End /\ ~ \E f : RestsFrom(f, (End + 1) - m)
        BY <2>1
    <2>3. CASE m = 0
        <3>1. PICK f : f = [p \in 1..End |-> << >>]
            OBVIOUS
        <3>2. (End + 1) - m = End + 1 /\ (End + 1)..End = {} /\ f = [p \in 1..End |-> f[p]]
            BY <3>1, <2>3, <1>1
        <3>3. RestsFrom(f, (End + 1) - m)
            BY <3>2 DEF RestsFrom
        <3> QED
            BY <3>3, <2>2
    <2>4. CASE m # 0
        <3>1. m - 1 \in 0..End /\ ~(m <= m - 1)
            BY <2>2, <2>4, <1>1
        <3>2. m - 1 \notin Bad
            BY <3>1, <2>1
        <3>3. PICK g : RestsFrom(g, (End + 1) - (m - 1))
            BY <3>1, <3>2
        <3>4. (End + 1) - m \in 1..End /\ (End + 1) - (m - 1) = ((End + 1) - m) + 1
            BY <2>2, <2>4, <1>1
        <3> HIDE DEF Bad
        <3>5. RestsFrom(g, ((End + 1) - m) + 1)
            BY <3>3, <3>4
        <3> QED
            BY <3>4, <3>5, <2>2, RestsFromStep
    <2> QED
        BY <2>3, <2>4
<1>3. End \in 0..End /\ (End + 1) - End = 1
    BY <1>1
<1>4. PICK f : RestsFrom(f, 1)
    BY <1>2, <1>3
<1>5. f = [p \in 1..End |-> f[p]] /\ \A p \in 1..End : f[p] = Goes(Skipped(p), f)
    BY <1>4 DEF RestsFrom
<1>6. PICK h : h = [p \in 1..End |-> Goes(Skipped(p), f)]
    OBVIOUS
<1>7. f = h
    BY <1>5, <1>6
<1> QED
    BY <1>6, <1>7 DEF Rests

LEMMA RestIs ==
    ASSUME TextOK, NEW p \in 1..End
    PROVE  Rest[p] = Goes(Skipped(p), Rest)
<1>1. Rests(Rest)
    BY RestsExist, Zenon DEF Rest
<1>2. PICK f : f = Rest
    OBVIOUS
<1>3. f = [k \in 1..End |-> Goes(Skipped(k), f)]
    BY <1>1, <1>2 DEF Rests
<1>4. f[p] = Goes(Skipped(p), f)
    BY <1>3, Zenon
<1> QED
    BY <1>2, <1>4

-----------------------------------------------------------------------------
(* What the loops of the lexer count is the longest word.                  *)

LEMMA Classes ==
    /\ \A c \in Mark : c \notin Alnum \cup Letter \cup Digit \cup Blank \cup {"_", "other", "NUL"}
    /\ \A c \in Digit : c \notin Letter \cup Mark \cup Blank \cup {"_", "other", "NUL"} /\ c \in Alnum
    /\ \A c \in Letter : c \notin Digit \cup Mark \cup Blank \cup {"_", "other", "NUL"} /\ c \in Alnum
    /\ \A c \in Alnum : c \in Letter \/ c \in Digit
    /\ \A c \in Blank : c \notin {"_", "other", "NUL"}
<1>1. Alnum = Letter \cup Digit /\ Blank = {" ", "newline"}
    BY DEF Alnum, Blank
<1>2. Letter \cap Digit = {} /\ Alnum \cap Mark = {}
      /\ (Alnum \cup Mark) \cap (Blank \cup {"_", "other", "NUL"}) = {}
    BY TextAssumption
<1> QED
    BY <1>1, <1>2

LEMMA WordIs ==
    ASSUME TextOK, NEW q \in 1..End, NEW n \in 1..(End - q), NEW w, w = SubSeq(text, q, q + n - 1)
    PROVE  /\ w \in Seq(Char) /\ Len(w) = n /\ DOMAIN w = 1..n
           /\ \A j \in 1..n : w[j] = At(q + j - 1)
<1>1. End \in Nat \ {0} /\ q \in Nat /\ n \in Nat /\ q + n - 1 \in q..(End - 1)
    BY CharAt
<1>2. \A i \in q..(q + n - 1) : text[i] \in Char /\ At(i) = text[i]
    BY <1>1, CharAt
<1>3. /\ w \in Seq(Char) /\ Len(w) = (q + n - 1) - q + 1
      /\ \A j \in 1..((q + n - 1) - q + 1) : w[j] = text[q + j - 1]
    BY <1>1, <1>2, SubSeqProperties
<1>4. (q + n - 1) - q + 1 = n /\ \A j \in 1..n : q + j - 1 \in q..(q + n - 1)
    BY <1>1
<1> QED
    BY <1>2, <1>3, <1>4

LEMMA RunIs ==
    ASSUME TextOK, NEW p \in 1..End, NEW class, "NUL" \notin class
    PROVE  /\ Run(p, class) \in 0..(End - p) /\ At(p + Run(p, class)) \notin class
           /\ \A j \in 0..(Run(p, class) - 1) : At(p + j) \in class
<1>1. End \in Nat \ {0} /\ At(End) = "NUL" /\ p \in Nat \ {0} /\ Len(text) = End - 1
    BY CharAt DEF End
<1>2. PICK S : S = {n \in 0..Len(text) : At(p + n) \notin class}
    OBVIOUS
<1>3. End - p \in 0..Len(text) /\ p + (End - p) = End
    BY <1>1
<1>4. S \in SUBSET Nat /\ End - p \in S
    BY <1>1, <1>2, <1>3
<1>5. PICK m : m = Min(S)
    OBVIOUS
<1>6. m \in S /\ \A k \in S : m <= k
    BY <1>4, <1>5, MinIs
<1>7. m \in Nat /\ m <= End - p /\ m \in 0..(End - p) /\ At(p + m) \notin class
    BY <1>1, <1>2, <1>4, <1>6
<1>8. ASSUME NEW j \in 0..(m - 1)
      PROVE  At(p + j) \in class
    <2>1. j \in 0..Len(text) /\ ~(m <= j)
        BY <1>1, <1>7
    <2> QED
        BY <2>1, <1>2, <1>6
<1>9. Run(p, class) = m
    BY <1>2, <1>5 DEF Run
<1> QED
    BY <1>7, <1>8, <1>9

LEMMA Place ==
    ASSUME TextOK, NEW q \in 1..End
    PROVE  End \in Nat \ {0} /\ q \in Nat \ {0} /\ End - q \in Nat
<1>1. End \in Nat \ {0}
    BY CharAt
<1> QED
    BY <1>1

LEMMA SizeIn ==
    ASSUME TextOK, NEW q \in 1..End, NEW m \in Sizes(q)
    PROVE  m \in 1..(End - q) /\ m \in Nat \ {0} /\ 0 \in 0..(m - 1) /\ q + 0 = q
<1>1. m \in 1..(End - q)
    BY DEF Sizes
<1> QED
    BY <1>1, Place

\* The words from q on, character by character.
LEMMA SizesAre ==
    ASSUME TextOK, NEW q \in 1..End, NEW n \in 1..(End - q)
    PROVE  n \in Sizes(q) <=>
              \/ n = 1 /\ At(q) \in Mark
              \/ At(q) \in Digit /\ \A j \in 0..(n - 1) : At(q + j) \in Digit
              \/ At(q) \in Letter /\ \A j \in 0..(n - 1) : At(q + j) \in Alnum
              \/ n >= 2 /\ At(q) = "_" /\ At(q + 1) = "_" /\ \A j \in 2..(n - 1) : At(q + j) \in Alnum
<1>1. PICK w : w = SubSeq(text, q, q + n - 1)
    OBVIOUS
<1>2. w \in Seq(Char) /\ Len(w) = n /\ DOMAIN w = 1..n /\ \A j \in 1..n : w[j] = At(q + j - 1)
    BY <1>1, WordIs
<1>3. End \in Nat /\ q \in Nat \ {0} /\ n \in Nat \ {0}
    BY Place
<1>4. w[1] = At(q) /\ (n >= 2 => w[2] = At(q + 1))
    BY <1>2, <1>3
<1>5. ASSUME NEW class
      PROVE  All(w, class) <=> \A j \in 0..(n - 1) : At(q + j) \in class
    <2>1. ASSUME All(w, class), NEW j \in 0..(n - 1)
          PROVE  At(q + j) \in class
        <3>1. j + 1 \in 1..n /\ q + (j + 1) - 1 = q + j
            BY <1>3
        <3> QED
            BY <3>1, <2>1, <1>2 DEF All
    <2>2. ASSUME \A j \in 0..(n - 1) : At(q + j) \in class, NEW i \in 1..n
          PROVE  w[i] \in class
        <3>1. i - 1 \in 0..(n - 1) /\ q + (i - 1) = q + i - 1
            BY <1>3
        <3> QED
            BY <3>1, <2>2, <1>2
    <2> QED
        BY <2>1, <2>2, <1>2 DEF All
<1>6. ASSUME n >= 2
      PROVE  All(SubSeq(w, 3, Len(w)), Alnum) <=> \A j \in 2..(n - 1) : At(q + j) \in Alnum
    <2>1. PICK v : v = SubSeq(w, 3, n)
        OBVIOUS
    <2>2. \A i \in 3..n : w[i] \in Char
        BY <1>2, <1>3
    <2>3. /\ v \in Seq(Char) /\ Len(v) = (IF 3 <= n THEN n - 3 + 1 ELSE 0)
          /\ \A i \in 1..(n - 3 + 1) : v[i] = w[3 + i - 1]
        BY <2>1, <2>2, <1>3, SubSeqProperties
    <2>4. Len(v) = n - 2 /\ DOMAIN v = 1..(n - 2)
        BY <2>3, <1>3, <1>6
    <2>5. \A i \in 1..(n - 2) : v[i] = At(q + (i + 1))
        <3> SUFFICES ASSUME NEW i \in 1..(n - 2)
                     PROVE  v[i] = At(q + (i + 1))
            OBVIOUS
        <3>1. i \in 1..(n - 3 + 1) /\ 3 + i - 1 = i + 2 /\ i + 2 \in 1..n /\ q + (i + 2) - 1 = q + (i + 1)
            BY <1>3
        <3> QED
            BY <3>1, <2>3, <1>2
    <2>6. ASSUME All(v, Alnum), NEW j \in 2..(n - 1)
          PROVE  At(q + j) \in Alnum
        <3>1. j - 1 \in 1..(n - 2) /\ (j - 1) + 1 = j
            BY <1>3
        <3> QED
            BY <3>1, <2>4, <2>5, <2>6 DEF All
    <2>7. ASSUME \A j \in 2..(n - 1) : At(q + j) \in Alnum
          PROVE  All(v, Alnum)
        <3>1. \A i \in 1..(n - 2) : i + 1 \in 2..(n - 1)
            BY <1>3
        <3> QED
            BY <3>1, <2>4, <2>5, <2>7 DEF All
    <2> QED
        BY <2>1, <2>6, <2>7, <1>2
<1>7. All(w, Digit) => At(q) \in Digit
    <2>1. 1 \in DOMAIN w
        BY <1>2, <1>3
    <2> QED
        BY <2>1, <1>4 DEF All
<1>8. Lexeme(w) <=>
        \/ n = 1 /\ At(q) \in Mark
        \/ At(q) \in Digit /\ All(w, Digit)
        \/ At(q) \in Letter /\ All(w, Alnum)
        \/ n >= 2 /\ At(q) = "_" /\ At(q + 1) = "_" /\ All(SubSeq(w, 3, Len(w)), Alnum)
    BY <1>2, <1>4, <1>7 DEF Lexeme
<1>9. n \in Sizes(q) <=> Lexeme(w)
    BY <1>1 DEF Sizes
<1> QED
    BY <1>5, <1>6, <1>8, <1>9

\* The longest word is the one that no longer one continues.
LEMMA LongestIs ==
    ASSUME TextOK, NEW q \in 1..End, NEW n \in 1..(End - q),
           n \in Sizes(q), \A m \in Sizes(q) : m <= n
    PROVE  Sizes(q) # {} /\ Max(Sizes(q)) = n
<1>1. Sizes(q) \in SUBSET Nat
    BY SizeIn
<1> QED
    BY <1>1, MaxIs

LEMMA MarkIsLongest ==
    ASSUME TextOK, NEW q \in 1..End, At(q) \in Mark
    PROVE  1 \in 1..(End - q) /\ Sizes(q) # {} /\ Max(Sizes(q)) = 1
<1>1. End \in Nat /\ q # End /\ q \in Nat \ {0}
    BY Place, CharAt, Classes
<1>2. 1 \in 1..(End - q)
    BY <1>1
<1>3. 1 \in Sizes(q)
    BY <1>2, SizesAre
<1>4. ASSUME NEW m \in Sizes(q)
      PROVE  m <= 1
    <2>1. m \in 1..(End - q) /\ m \in Nat
        BY SizeIn
    <2>2. At(q) \notin Digit \cup Letter \cup {"_"}
        BY Classes
    <2>3. m = 1
        BY <2>1, <2>2, SizesAre
    <2> QED
        BY <2>3
<1> QED
    BY <1>2, <1>3, <1>4, LongestIs

LEMMA IdIsLongest ==
    ASSUME TextOK, NEW q \in 1..End, At(q) \in Letter
    PROVE  Run(q, Alnum) \in 1..(End - q) /\ Sizes(q) # {} /\ Max(Sizes(q)) = Run(q, Alnum)
<1>1. End \in Nat /\ q \in Nat \ {0} /\ "NUL" \notin Alnum
    BY Place, CharAt
<1>2. PICK n : n = Run(q, Alnum)
    OBVIOUS
<1>3. n \in 0..(End - q) /\ At(q + n) \notin Alnum /\ \A j \in 0..(n - 1) : At(q + j) \in Alnum
    BY <1>1, <1>2, RunIs
<1>4. At(q) \in Alnum /\ At(q) \notin Digit \cup Mark \cup {"_"}
    BY Classes
<1>5. n \in 1..(End - q) /\ n \in Nat
    <2>1. q + 0 = q
        BY <1>1
    <2>2. n # 0
        BY <2>1, <1>3, <1>4
    <2> QED
        BY ONLY <2>2, <1>1, <1>3
<1>6. n \in Sizes(q)
    BY <1>3, <1>5, SizesAre
<1>7. ASSUME NEW m \in Sizes(q)
      PROVE  m <= n
    <2>1. m \in 1..(End - q) /\ m \in Nat /\ 0 \in 0..(m - 1) /\ q + 0 = q
        BY SizeIn
    <2>2. \A j \in 0..(m - 1) : At(q + j) \in Alnum
        BY <2>1, <1>4, SizesAre
    <2>3. n \notin 0..(m - 1)
        BY <2>2, <1>3
    <2> QED
        BY <2>1, <2>3, <1>5
<1> QED
    BY <1>2, <1>5, <1>6, <1>7, LongestIs

LEMMA IntIsLongest ==
    ASSUME TextOK, NEW q \in 1..End, At(q) \in Digit
    PROVE  Run(q, Digit) \in 1..(End - q) /\ Sizes(q) # {} /\ Max(Sizes(q)) = Run(q, Digit)
<1>1. End \in Nat /\ q \in Nat \ {0} /\ "NUL" \notin Digit
    BY Place, CharAt, Classes
<1>2. PICK n : n = Run(q, Digit)
    OBVIOUS
<1>3. n \in 0..(End - q) /\ At(q + n) \notin Digit /\ \A j \in 0..(n - 1) : At(q + j) \in Digit
    BY <1>1, <1>2, RunIs
<1>4. At(q) \in Digit /\ At(q) \notin Letter \cup Mark \cup {"_"}
    BY Classes
<1>5. n \in 1..(End - q) /\ n \in Nat
    <2>1. q + 0 = q
        BY <1>1
    <2>2. n # 0
        BY <2>1, <1>3, <1>4
    <2> QED
        BY ONLY <2>2, <1>1, <1>3
<1>6. n \in Sizes(q)
    BY <1>3, <1>5, SizesAre
<1>7. ASSUME NEW m \in Sizes(q)
      PROVE  m <= n
    <2>1. m \in 1..(End - q) /\ m \in Nat
        BY SizeIn
    <2>2. \A j \in 0..(m - 1) : At(q + j) \in Digit
        BY <2>1, <1>4, SizesAre
    <2>3. n \notin 0..(m - 1)
        BY <2>2, <1>3
    <2> QED
        BY <2>1, <2>3, <1>5
<1> QED
    BY <1>2, <1>5, <1>6, <1>7, LongestIs

LEMMA PrimopIsLongest ==
    ASSUME TextOK, NEW q \in 1..End, At(q) = "_", At(q + 1) = "_"
    PROVE  /\ q + 2 \in 1..End /\ Run(q + 2, Alnum) + 2 \in 1..(End - q)
           /\ Sizes(q) # {} /\ Max(Sizes(q)) = Run(q + 2, Alnum) + 2
<1>1. End \in Nat /\ q \in Nat \ {0} /\ "NUL" \notin Alnum
    BY Place, CharAt
<1>2. q # End /\ q + 1 # End
    BY CharAt
<1>3. q + 2 \in 1..End
    BY ONLY <1>1, <1>2, q \in 1..End
<1>4. PICK r : r = Run(q + 2, Alnum)
    OBVIOUS
<1>5. r \in 0..(End - (q + 2)) /\ At((q + 2) + r) \notin Alnum /\ \A j \in 0..(r - 1) : At((q + 2) + j) \in Alnum
    BY <1>1, <1>3, <1>4, RunIs
<1>6. PICK n : n = r + 2
    OBVIOUS
<1>7. n \in 1..(End - q) /\ n \in Nat /\ n >= 2 /\ (q + 2) + r = q + n
    BY ONLY <1>1, <1>3, <1>5, <1>6
<1>8. \A j \in 2..(n - 1) : At(q + j) \in Alnum
    <2> SUFFICES ASSUME NEW j \in 2..(n - 1)
                 PROVE  At(q + j) \in Alnum
        OBVIOUS
    <2>1. j - 2 \in 0..(r - 1) /\ (q + 2) + (j - 2) = q + j
        BY ONLY <1>1, <1>5, <1>6, j \in 2..(n - 1)
    <2> QED
        BY <2>1, <1>5
<1>9. n \in Sizes(q)
    BY <1>7, <1>8, SizesAre
<1>10. At(q) \notin Letter \cup Digit \cup Mark
    BY Classes
<1>11. ASSUME NEW m \in Sizes(q)
       PROVE  m <= n
    <2>1. m \in 1..(End - q) /\ m \in Nat /\ 0 \in 0..(m - 1) /\ q + 0 = q
        BY SizeIn
    <2>2. \A j \in 2..(m - 1) : At(q + j) \in Alnum
        BY <2>1, <1>10, SizesAre
    <2>3. n \notin 2..(m - 1)
        BY <2>2, <1>5, <1>7
    <2> QED
        BY ONLY <2>1, <2>3, <1>7
<1>12. Sizes(q) # {} /\ Max(Sizes(q)) = n
    BY <1>7, <1>9, <1>11, LongestIs
<1> QED
    BY <1>3, <1>4, <1>6, <1>7, <1>12

\* Other characters start no word.
LEMMA NoWord ==
    ASSUME TextOK, NEW q \in 1..End,
           At(q) \in {"NUL", "other"} \/ (At(q) = "_" /\ At(q + 1) # "_")
    PROVE  Sizes(q) = {}
<1>1. End \in Nat /\ q \in Nat \ {0}
    BY Place, CharAt
<1>2. At(q) \notin Letter \cup Digit \cup Mark
    BY Classes
<1>3. ASSUME NEW m \in Sizes(q)
      PROVE  FALSE
    <2>1. m \in 1..(End - q) /\ m \in Nat /\ 0 \in 0..(m - 1) /\ q + 0 = q
        BY SizeIn
    <2> QED
        BY <2>1, <1>2, SizesAre
<1> QED
    BY <1>3

-----------------------------------------------------------------------------
(* The type of a word.                                                     *)

LEMMA KeywordsAre ==
    /\ Len(Keywords) \in Nat /\ DOMAIN Keywords = 1..Len(Keywords)
    /\ \A k \in DOMAIN Keywords : Keywords[k].word \in Seq(Alnum) /\ Keywords[k].type \in KeywordType
<1>1. PICK R : R = [word : Seq(Alnum), type : KeywordType]
    OBVIOUS
<1>2. Keywords \in Seq(R)
    BY <1>1, TextAssumption
<1>3. Len(Keywords) \in Nat /\ DOMAIN Keywords = 1..Len(Keywords)
    BY <1>2, LenProperties
<1>4. \A k \in 1..Len(Keywords) : Keywords[k] \in R
    BY <1>2, ElementOfSeq
<1> QED
    BY <1>1, <1>3, <1>4

LEMMA PrefixIs ==
    ASSUME NEW S, NEW T, NEW s \in Seq(S), NEW t \in Seq(T)
    PROVE  IsPrefix(s, t) <=> Len(s) <= Len(t) /\ \A j \in 1..Len(s) : s[j] = t[j]
<1>1. Len(s) \in Nat /\ Len(t) \in Nat /\ SubSeq(s, 1, Len(s)) = s
    BY SubSeqFull
<1>2. ASSUME Len(s) <= Len(t)
      PROVE  SubSeq(t, 1, Len(s)) = s <=> \A j \in 1..Len(s) : s[j] = t[j]
    <2>1. PICK u : u = SubSeq(t, 1, Len(s))
        OBVIOUS
    <2>2. \A j \in 1..Len(s) : t[j] \in T
        BY <1>1, <1>2
    <2>3. /\ u \in Seq(T) /\ Len(u) = (IF 1 <= Len(s) THEN Len(s) - 1 + 1 ELSE 0)
          /\ \A j \in 1..(Len(s) - 1 + 1) : u[j] = t[1 + j - 1]
        BY <2>1, <2>2, <1>1, SubSeqProperties
    <2>4. u \in Seq(T) /\ Len(u) = Len(s) /\ \A j \in 1..Len(s) : u[j] = t[j]
        BY ONLY <2>3, <1>1
    <2>5. (\A j \in 1..Len(s) : s[j] = u[j]) => s = u
        BY <2>4, SeqEqual
    <2> QED
        BY <2>1, <2>4, <2>5
<1> QED
    BY <1>1, <1>2 DEF IsPrefix

LEMMA KeywordTypes ==
    ASSUME NEW same \in SUBSET DOMAIN Keywords
    PROVE  (IF same = {} THEN "ID" ELSE Keywords[Min(same)].type) \in Type
<1>1. "ID" \in Type /\ KeywordType \subseteq Type
    BY DEF Type
<1>2. ASSUME same # {}
      PROVE  Keywords[Min(same)].type \in Type
    <2>1. same \in SUBSET Nat
        BY KeywordsAre
    <2>2. Min(same) \in DOMAIN Keywords
        BY <2>1, <1>2, MinIs
    <2> QED
        BY <2>2, <1>1, KeywordsAre
<1> QED
    BY <1>1, <1>2

\* Comparing up to the length of the word finds the keywords it is the beginning of.
LEMMA WordTypeIs ==
    ASSUME TextOK, chars \in 1..End, NEW n \in 1..(End - chars), At(chars) \in Letter
    PROVE  TypeOf(SubSeq(text, chars, chars + n - 1)) = WordType(n)
<1>1. PICK q : q = chars
    OBVIOUS
<1>2. PICK w : w = SubSeq(text, q, q + n - 1)
    OBVIOUS
<1>3. w \in Seq(Char) /\ Len(w) = n /\ DOMAIN w = 1..n /\ \A j \in 1..n : w[j] = At(q + j - 1)
    BY <1>1, <1>2, WordIs
<1>4. w[1] = At(q)
    <2>1. 1 \in 1..n /\ q + 1 - 1 = q
        BY <1>1, Place
    <2> QED
        BY <2>1, <1>3
<1>5. w[1] \notin Mark \cup Digit \cup {"_"}
    BY <1>1, <1>4, Classes
<1>6. {k \in DOMAIN Keywords : IsPrefix(w, Keywords[k].word)}
        = {k \in DOMAIN Keywords : Compares(n, Keywords[k].word)}
    <2>1. ASSUME NEW k \in DOMAIN Keywords
          PROVE  IsPrefix(w, Keywords[k].word) <=> Compares(n, Keywords[k].word)
        <3>1. PICK v : v = Keywords[k].word
            OBVIOUS
        <3>2. v \in Seq(Alnum)
            BY <3>1, KeywordsAre
        <3>3. IsPrefix(w, v) <=> n <= Len(v) /\ \A j \in 1..n : w[j] = v[j]
            BY <1>3, <3>2, PrefixIs
        <3> QED
            BY <3>1, <3>3, <1>1, <1>3 DEF Compares
    <2> QED
        BY <2>1
<1>7. TypeOf(w) = LET prefixed == {k \in DOMAIN Keywords : IsPrefix(w, Keywords[k].word)} IN
                  IF prefixed = {} THEN "ID" ELSE Keywords[Min(prefixed)].type
    BY <1>5, Zenon DEF TypeOf
<1> QED
    BY <1>1, <1>2, <1>6, <1>7, Zenon DEF WordType

LEMMA TypeOfFirst ==
    ASSUME NEW w
    PROVE  /\ w[1] \in Mark => TypeOf(w) = w[1]
           /\ w[1] \in Digit => TypeOf(w) = "INT"
           /\ w[1] = "_" => TypeOf(w) = "PRIMOP"
           /\ TypeOf(w) \in Type
<1>1. Mark \subseteq Type /\ "INT" \in Type /\ "PRIMOP" \in Type
    BY DEF Type
<1>2. PICK prefixed : prefixed = {k \in DOMAIN Keywords : IsPrefix(w, Keywords[k].word)}
    OBVIOUS
<1>3. (IF prefixed = {} THEN "ID" ELSE Keywords[Min(prefixed)].type) \in Type
    <2>1. prefixed \in SUBSET DOMAIN Keywords
        BY <1>2
    <2> QED
        BY <2>1, KeywordTypes
<1>4. CASE w[1] \in Mark
    <2>1. TypeOf(w) = w[1]
        BY <1>4, Classes, Zenon DEF TypeOf
    <2> QED
        BY <2>1, <1>1, <1>4, Classes
<1>5. CASE w[1] \in Digit
    <2>1. TypeOf(w) = "INT"
        BY <1>5, Classes, Zenon DEF TypeOf
    <2> QED
        BY <2>1, <1>1, <1>5, Classes
<1>6. CASE w[1] = "_"
    <2>1. "_" \notin Mark \cup Digit
        BY Classes
    <2>2. TypeOf(w) = "PRIMOP"
        BY <2>1, <1>6, Zenon DEF TypeOf
    <2> QED
        BY <2>1, <2>2, <1>1, <1>6
<1>7. CASE w[1] \notin Mark \cup Digit \cup {"_"}
    <2>1. TypeOf(w) = IF prefixed = {} THEN "ID" ELSE Keywords[Min(prefixed)].type
        BY <1>2, <1>7, Zenon DEF TypeOf
    <2> QED
        BY <2>1, <1>3, <1>7
<1> QED
    BY <1>4, <1>5, <1>6, <1>7

-----------------------------------------------------------------------------
(* What each method reads.                                                 *)

LEMMA Prepended ==
    ASSUME NEW T, NEW t \in T, NEW s \in Seq(T)
    PROVE  /\ <<t>> \o s \in Seq(T) /\ <<t>> \o s # << >>
           /\ Head(<<t>> \o s) = t /\ Tail(<<t>> \o s) = s
<1>1. PICK r : r = <<t>> \o s
    OBVIOUS
<1>2. PICK one : one = <<t>>
    OBVIOUS
<1>3. one \in Seq(T) /\ Len(one) = 1 /\ one[1] = t /\ Len(s) \in Nat
    BY <1>2
<1>4. /\ r \in Seq(T) /\ Len(r) = 1 + Len(s)
      /\ \A i \in 1..(1 + Len(s)) : r[i] = IF i <= 1 THEN one[i] ELSE s[i - 1]
    BY <1>1, <1>2, <1>3, ConcatProperties
<1>5. r # << >> /\ r[1] = t
    BY <1>3, <1>4
<1>6. Head(r) = t
    BY <1>4, <1>5
<1>7. /\ Tail(r) \in Seq(T) /\ Len(Tail(r)) = Len(r) - 1
      /\ \A i \in 1..Len(Tail(r)) : Tail(r)[i] = r[i + 1]
    BY <1>4, <1>5, HeadTailProperties
<1>8. Len(Tail(r)) = Len(s) /\ \A i \in 1..Len(s) : Tail(r)[i] = s[i]
    <2>1. Len(Tail(r)) = Len(s)
        BY <1>3, <1>4, <1>7
    <2>2. ASSUME NEW i \in 1..Len(s)
          PROVE  Tail(r)[i] = s[i]
        <3>1. i + 1 \in 1..(1 + Len(s)) /\ ~(i + 1 <= 1) /\ (i + 1) - 1 = i
            BY <1>3
        <3> QED
            BY <3>1, <2>1, <1>4, <1>7
    <2> QED
        BY <2>1, <2>2
<1>9. Tail(r) = s
    BY <1>7, <1>8, SeqEqual
<1> QED
    BY <1>1, <1>4, <1>5, <1>6, <1>9

\* From the last character backwards, all that follows are tokens.
LEMMA RestTypes ==
    ASSUME TextOK
    PROVE  \A p \in 1..End : Rest[p] \in Seq(Type)
<1> DEFINE Bad == {k \in 0..(End - 1) : Rest[End - k] \notin Seq(Type)}
<1>1. End \in Nat \ {0} /\ Bad \in SUBSET Nat
    BY CharAt
<1>2. Bad = {}
    <2> SUFFICES ASSUME Bad # {}
                 PROVE  FALSE
        OBVIOUS
    <2>1. PICK m \in Bad : \A k \in Bad : m <= k
        BY <1>1, SmallestOf
    <2>2. PICK p : p = End - m
        OBVIOUS
    <2>3. p \in 1..End /\ Rest[p] \notin Seq(Type) /\ m \in 0..(End - 1)
        BY <1>1, <2>1, <2>2
    <2>4. ASSUME NEW i \in (p + 1)..End
          PROVE  Rest[i] \in Seq(Type)
        <3>1. End - i \in 0..(End - 1) /\ ~(m <= End - i) /\ End - (End - i) = i
            BY <1>1, <2>2, <2>3
        <3>2. End - i \notin Bad
            BY <3>1, <2>1
        <3> QED
            BY <3>1, <3>2
    <2> HIDE DEF Bad
    <2>5. PICK q : q = Skipped(p)
        OBVIOUS
    <2>6. q \in p..End /\ q \in 1..End /\ Rest[p] = Goes(q, Rest)
        BY <1>1, <2>3, <2>5, SkipTo, RestIs
    <2>7. CASE Sizes(q) = {}
        BY <2>3, <2>6, <2>7 DEF Goes
    <2>8. CASE Sizes(q) # {}
        <3>1. PICK n : n = Max(Sizes(q))
            OBVIOUS
        <3>2. q + n \in (p + 1)..End
            BY <1>1, <2>3, <2>6, <2>8, <3>1, LongestSize
        <3>3. Rest[q + n] \in Seq(Type)
            BY <2>4, <3>2
        <3>4. PICK t : t = TypeOf(SubSeq(text, q, q + n - 1))
            OBVIOUS
        <3>5. t \in Type
            BY <3>4, TypeOfFirst
        <3>6. <<t>> \o Rest[q + n] \in Seq(Type)
            BY <3>3, <3>5, Prepended
        <3> QED
            BY <3>1, <3>4, <3>6, <2>3, <2>6, <2>8 DEF Goes
    <2> QED
        BY <2>7, <2>8
<1>3. ASSUME NEW p \in 1..End
      PROVE  Rest[p] \in Seq(Type)
    <2>1. End - p \in 0..(End - 1) /\ End - (End - p) = p
        BY <1>1
    <2>2. End - p \notin Bad
        BY <1>2
    <2> QED
        BY <2>1, <2>2
<1> QED
    BY <1>3

\* The next token, and what follows it.
LEMMA RestAtWord ==
    ASSUME TextOK, NEW q \in 1..End, At(q) \notin Blank,
           NEW n \in 1..(End - q), Sizes(q) # {}, Max(Sizes(q)) = n,
           NEW t, t = TypeOf(SubSeq(text, q, q + n - 1))
    PROVE  /\ t \in Type /\ q + n \in 1..End
           /\ Rest[q] # << >> /\ Head(Rest[q]) = t /\ Tail(Rest[q]) = Rest[q + n]
<1>1. q + n \in 1..End
    BY Place
<1>2. Rest[q] = <<t>> \o Rest[q + n]
    BY SkipTo, RestIs, Zenon DEF Goes
<1>3. t \in Type /\ Rest[q + n] \in Seq(Type)
    BY <1>1, TypeOfFirst, RestTypes
<1> QED
    BY <1>1, <1>2, <1>3, Prepended

LEMMA RestAtNone ==
    ASSUME TextOK, NEW q \in 1..End, At(q) \notin Blank, Sizes(q) = {}
    PROVE  Rest[q] = << >>
BY SkipTo, RestIs, Zenon DEF Goes

LEMMA RestAtBlank ==
    ASSUME TextOK, NEW q \in 1..End, At(q) \in Blank
    PROVE  q \in 1..(End - 1) /\ q + 1 \in 1..End /\ Rest[q] = Rest[q + 1]
<1>1. q \in 1..(End - 1) /\ Skipped(q) = Skipped(q + 1)
    BY SkipTo
<1>2. q + 1 \in 1..End
    BY <1>1, Place
<1> QED
    BY <1>1, <1>2, RestIs

-----------------------------------------------------------------------------
(* The methods as steps in the rest of the text.                           *)

Methods == {"peek", "peek_some", "next"}

LexInv ==
    /\ TextOK /\ chars \in 1..End /\ call \in {"idle"} \cup Methods \cup Type
    /\ to_come = Rest[chars]

LEMMA SameText ==
    ASSUME text' = text
    PROVE  Rest' = Rest /\ End' = End /\ (TextOK <=> TextOK')
<1>1. End' = End /\ (TextOK <=> TextOK')
    BY DEF End, TextOK
<1>2. \A k : At(k)' = At(k)
    BY DEF At
<1>3. \A p : Skipped(p)' = Skipped(p)
    BY <1>1, <1>2 DEF Skipped
<1>4. \A q : Sizes(q)' = Sizes(q)
    BY <1>1 DEF Sizes
<1>5. \A q, f : Goes(q, f)' = Goes(q, f)
    BY <1>4 DEF Goes
<1>6. \A f : Rests(f)' <=> Rests(f)
    BY <1>1, <1>3, <1>5 DEF Rests
<1>7. Rest' = Rest
    BY <1>6 DEF Rest
<1> QED
    BY <1>1, <1>7

\* The token of type t that goes up to character c, width of its characters counted.
ReadsWord(t, n, width) ==
    /\ call # "idle" /\ Return(Token(t, n), width)
    /\ t \in Type /\ n \in Nat \ {0} /\ chars + n \in 1..End
    /\ Rest[chars] # << >> /\ Head(Rest[chars]) = t /\ Tail(Rest[chars]) = Rest[chars + n]
    /\ \A p \in chars..(chars + n - 1) : text[p] # "newline"
    /\ width = Cardinality({p \in chars..(chars + n - 1) : text[p] # "_"})

LEMMA CountedAll ==
    ASSUME NEW q \in Nat, NEW n \in Nat, \A p \in q..(q + n - 1) : text[p] # "_"
    PROVE  Cardinality({p \in q..(q + n - 1) : text[p] # "_"}) = n
<1>1. {p \in q..(q + n - 1) : text[p] # "_"} = q..(q + n - 1)
    OBVIOUS
<1>2. q \in Int /\ q + n - 1 \in Int
    BY ONLY q \in Nat, n \in Nat
<1>3. Cardinality(q..(q + n - 1)) = IF q > q + n - 1 THEN 0 ELSE (q + n - 1) - q + 1
    BY <1>2, FS_Interval
<1>4. (IF q > q + n - 1 THEN 0 ELSE (q + n - 1) - q + 1) = n
    BY ONLY q \in Nat, n \in Nat
<1> QED
    BY <1>1, <1>3, <1>4

\* Of a word in a class of letters and digits every character is counted.
LEMMA PlainWord ==
    ASSUME TextOK, NEW q \in 1..End, NEW n \in 1..(End - q), NEW class, class \subseteq Alnum \cup Mark,
           \A j \in 0..(n - 1) : At(q + j) \in class
    PROVE  /\ \A p \in q..(q + n - 1) : text[p] # "newline"
           /\ Cardinality({p \in q..(q + n - 1) : text[p] # "_"}) = n
<1>1. q \in Nat /\ n \in Nat /\ End \in Nat /\ q + n - 1 <= End - 1
    BY Place
<1>2. ASSUME NEW p \in q..(q + n - 1)
      PROVE  text[p] # "newline" /\ text[p] # "_"
    <2>1. p - q \in 0..(n - 1) /\ q + (p - q) = p /\ p \in 1..(End - 1)
        BY <1>1
    <2>2. At(p) \in Alnum \cup Mark /\ At(p) = text[p]
        BY <2>1, CharAt
    <2>3. "newline" \in Blank
        BY DEF Blank
    <2> QED
        BY <2>2, <2>3, Classes
<1>3. Cardinality({p \in q..(q + n - 1) : text[p] # "_"}) = n
    BY <1>1, <1>2, CountedAll
<1> QED
    BY <1>2, <1>3

LEMMA MarkRead ==
    ASSUME LexInv, LexMark
    PROVE  \E t, n : ReadsWord(t, n, n)
<1>1. TextOK /\ chars \in 1..End /\ call # "idle" /\ At(chars) \in Mark
    BY DEF LexInv, LexMark
<1>2. PICK q : q = chars
    OBVIOUS
<1>3. PICK n : n = 1
    OBVIOUS
<1>4. n \in 1..(End - q) /\ Sizes(q) # {} /\ Max(Sizes(q)) = n /\ n \in Nat \ {0}
    BY <1>1, <1>2, <1>3, MarkIsLongest
<1>5. PICK w : w = SubSeq(text, q, q + n - 1)
    OBVIOUS
<1>6. w[1] = At(q)
    <2>1. 1 \in 1..n /\ q + 1 - 1 = q
        BY <1>1, <1>2, <1>4, Place
    <2>2. \A j \in 1..n : w[j] = At(q + j - 1)
        BY <1>1, <1>2, <1>4, <1>5, WordIs
    <2>3. w[1] = At(q + 1 - 1)
        BY <2>1, <2>2
    <2> QED
        BY <2>1, <2>3
<1>7. TypeOf(w) = At(q)
    BY <1>1, <1>2, <1>6, TypeOfFirst
<1>8. At(q) \notin Blank
    BY <1>1, <1>2, Classes
<1>9. /\ At(q) \in Type /\ q + n \in 1..End
      /\ Rest[q] # << >> /\ Head(Rest[q]) = At(q) /\ Tail(Rest[q]) = Rest[q + n]
    BY <1>1, <1>2, <1>4, <1>5, <1>7, <1>8, RestAtWord
<1>10. \A j \in 0..(n - 1) : At(q + j) \in Mark
    <2>1. \A j \in 0..(n - 1) : q + j = q
        BY <1>1, <1>2, <1>3, Place
    <2> QED
        BY <2>1, <1>1, <1>2
<1>11. /\ \A p \in q..(q + n - 1) : text[p] # "newline"
       /\ Cardinality({p \in q..(q + n - 1) : text[p] # "_"}) = n
    BY <1>1, <1>2, <1>4, <1>10, PlainWord
<1>12. Return(Token(At(q), n), n)
    BY <1>2, <1>3 DEF LexMark
<1> QED
    BY <1>1, <1>2, <1>4, <1>9, <1>11, <1>12 DEF ReadsWord

LEMMA IdRead ==
    ASSUME LexInv, LexId
    PROVE  \E t, n : ReadsWord(t, n, n)
<1>1. TextOK /\ chars \in 1..End /\ call # "idle" /\ At(chars) \in Letter
    BY DEF LexInv, LexId
<1>2. PICK q : q = chars
    OBVIOUS
<1>3. PICK n : n = Run(q, Alnum)
    OBVIOUS
<1>4. n \in 1..(End - q) /\ Sizes(q) # {} /\ Max(Sizes(q)) = n
    BY <1>1, <1>2, <1>3, IdIsLongest
<1>5. PICK t : t = WordType(n)
    OBVIOUS
<1>6. t = TypeOf(SubSeq(text, q, q + n - 1))
    BY <1>1, <1>2, <1>4, <1>5, WordTypeIs
<1>7. At(q) \notin Blank /\ "NUL" \notin Alnum
    BY <1>1, <1>2, Classes, CharAt
<1>8. /\ t \in Type /\ q + n \in 1..End
      /\ Rest[q] # << >> /\ Head(Rest[q]) = t /\ Tail(Rest[q]) = Rest[q + n]
    BY <1>1, <1>2, <1>4, <1>6, <1>7, RestAtWord
<1>9. \A j \in 0..(n - 1) : At(q + j) \in Alnum
    BY <1>1, <1>2, <1>3, <1>7, RunIs
<1>10. /\ \A p \in q..(q + n - 1) : text[p] # "newline"
       /\ Cardinality({p \in q..(q + n - 1) : text[p] # "_"}) = n
    BY <1>1, <1>2, <1>4, <1>9, PlainWord
<1>11. n \in Nat \ {0}
    BY <1>1, <1>2, <1>4, Place
<1>12. Return(Token(t, n), n)
    BY <1>2, <1>3, <1>5 DEF LexId
<1> QED
    BY <1>1, <1>2, <1>8, <1>10, <1>11, <1>12 DEF ReadsWord

LEMMA IntRead ==
    ASSUME LexInv, LexInt
    PROVE  \E t, n : ReadsWord(t, n, n)
<1>1. TextOK /\ chars \in 1..End /\ call # "idle" /\ At(chars) \in Digit
    BY DEF LexInv, LexInt
<1>2. PICK q : q = chars
    OBVIOUS
<1>3. PICK n : n = Run(q, Digit)
    OBVIOUS
<1>4. n \in 1..(End - q) /\ Sizes(q) # {} /\ Max(Sizes(q)) = n /\ n \in Nat \ {0}
    BY <1>1, <1>2, <1>3, IntIsLongest, Place
<1>5. PICK w : w = SubSeq(text, q, q + n - 1)
    OBVIOUS
<1>6. w[1] = At(q)
    <2>1. 1 \in 1..n /\ q + 1 - 1 = q
        BY <1>1, <1>2, <1>4, Place
    <2>2. \A j \in 1..n : w[j] = At(q + j - 1)
        BY <1>1, <1>2, <1>4, <1>5, WordIs
    <2>3. w[1] = At(q + 1 - 1)
        BY <2>1, <2>2
    <2> QED
        BY <2>1, <2>3
<1>7. TypeOf(w) = "INT"
    BY <1>1, <1>2, <1>6, TypeOfFirst
<1>8. At(q) \notin Blank /\ "NUL" \notin Digit
    BY <1>1, <1>2, Classes
<1>9. /\ "INT" \in Type /\ q + n \in 1..End
      /\ Rest[q] # << >> /\ Head(Rest[q]) = "INT" /\ Tail(Rest[q]) = Rest[q + n]
    BY <1>1, <1>2, <1>4, <1>5, <1>7, <1>8, RestAtWord
<1>10. \A j \in 0..(n - 1) : At(q + j) \in Digit
    BY <1>1, <1>2, <1>3, <1>8, RunIs
<1>11. /\ \A p \in q..(q + n - 1) : text[p] # "newline"
       /\ Cardinality({p \in q..(q + n - 1) : text[p] # "_"}) = n
    <2>1. Digit \subseteq Alnum \cup Mark
        BY DEF Alnum
    <2> QED
        BY <2>1, <1>1, <1>2, <1>4, <1>10, PlainWord
<1>12. Return(Token("INT", n), n)
    BY <1>2, <1>3 DEF LexInt
<1> QED
    BY <1>1, <1>2, <1>4, <1>9, <1>11, <1>12 DEF ReadsWord

\* The underscores of a primitive operator are not counted.
LEMMA PrimopRead ==
    ASSUME LexInv, LexPrimop
    PROVE  \E n : ReadsWord("PRIMOP", n + 2, n)
<1>1. TextOK /\ chars \in 1..End /\ call # "idle" /\ At(chars) = "_" /\ At(chars + 1) = "_"
    BY DEF LexInv, LexPrimop
<1>2. PICK q : q = chars
    OBVIOUS
<1>3. PICK n : n = Run(q + 2, Alnum)
    OBVIOUS
<1>4. PICK s : s = n + 2
    OBVIOUS
<1>5. q + 2 \in 1..End /\ s \in 1..(End - q) /\ Sizes(q) # {} /\ Max(Sizes(q)) = s
    BY <1>1, <1>2, <1>3, <1>4, PrimopIsLongest
<1>6. "NUL" \notin Alnum /\ "_" \notin Blank
    BY CharAt, Classes, <1>1
<1>7. n \in 0..(End - (q + 2)) /\ \A j \in 0..(n - 1) : At((q + 2) + j) \in Alnum
    BY <1>1, <1>3, <1>5, <1>6, RunIs
<1>8. End \in Nat /\ q \in Nat \ {0} /\ n \in Nat /\ s \in Nat \ {0}
    <2>1. End \in Nat /\ q \in Nat \ {0}
        BY <1>1, <1>2, Place
    <2> QED
        BY ONLY <2>1, <1>4, <1>7
<1>9. PICK w : w = SubSeq(text, q, q + s - 1)
    OBVIOUS
<1>10. w[1] = "_"
    <2>1. 1 \in 1..s /\ q + 1 - 1 = q
        BY ONLY <1>8
    <2>2. w[1] = At(q + 1 - 1)
        BY <2>1, <1>1, <1>2, <1>5, <1>9, WordIs
    <2> QED
        BY <2>1, <2>2, <1>1, <1>2
<1>11. TypeOf(w) = "PRIMOP"
    BY <1>10, TypeOfFirst
<1>12. /\ "PRIMOP" \in Type /\ q + s \in 1..End
       /\ Rest[q] # << >> /\ Head(Rest[q]) = "PRIMOP" /\ Tail(Rest[q]) = Rest[q + s]
    BY <1>1, <1>2, <1>5, <1>6, <1>9, <1>11, RestAtWord
<1>13. text[q] = "_" /\ text[q + 1] = "_"
    <2>1. q \in 1..(End - 1) /\ q + 1 \in 1..(End - 1)
        BY ONLY <1>5, <1>8
    <2> QED
        BY <2>1, <1>1, <1>2, CharAt
<1>14. ASSUME NEW p \in (q + 2)..(q + s - 1)
       PROVE  text[p] # "newline" /\ text[p] # "_"
    <2>1. /\ p - (q + 2) \in 0..(n - 1) /\ (q + 2) + (p - (q + 2)) = p
          /\ p \in 1..(End - 1)
        BY ONLY <1>4, <1>5, <1>7, <1>8, p \in (q + 2)..(q + s - 1)
    <2>2. At(p) \in Alnum /\ At(p) = text[p]
        BY <2>1, <1>1, <1>7, CharAt
    <2>3. "newline" \in Blank
        BY DEF Blank
    <2> QED
        BY <2>2, <2>3, Classes
<1>15. \A p \in q..(q + s - 1) : p = q \/ p = q + 1 \/ p \in (q + 2)..(q + s - 1)
    BY ONLY <1>8
<1>16. \A p \in q..(q + s - 1) : text[p] # "newline"
    BY <1>13, <1>14, <1>15
<1>17. {p \in q..(q + s - 1) : text[p] # "_"} = (q + 2)..((q + 2) + n - 1)
    <2>1. (q + 2) + n - 1 = q + s - 1 /\ (q + 2)..(q + s - 1) \subseteq q..(q + s - 1)
        BY ONLY <1>4, <1>8
    <2>2. q \notin (q + 2)..(q + s - 1) /\ q + 1 \notin (q + 2)..(q + s - 1)
        BY ONLY <1>8
    <2> QED
        BY <2>1, <2>2, <1>13, <1>14, <1>15
<1>18. Cardinality({p \in q..(q + s - 1) : text[p] # "_"}) = n
    <2>1. q + 2 \in Int /\ (q + 2) + n - 1 \in Int
        BY ONLY <1>8
    <2>2. Cardinality((q + 2)..((q + 2) + n - 1))
            = IF q + 2 > (q + 2) + n - 1 THEN 0 ELSE ((q + 2) + n - 1) - (q + 2) + 1
        BY <2>1, FS_Interval
    <2>3. Cardinality((q + 2)..((q + 2) + n - 1)) = n
        BY ONLY <2>2, <1>8
    <2> QED
        BY <2>3, <1>17
<1>19. Return(Token("PRIMOP", s), n)
    BY <1>2, <1>3, <1>4 DEF LexPrimop
<1>20. ReadsWord("PRIMOP", s, n)
    BY <1>1, <1>2, <1>8, <1>12, <1>16, <1>18, <1>19 DEF ReadsWord
<1> QED
    BY <1>4, <1>20

LexWord == LexMark \/ LexPrimop \/ LexId \/ LexInt

LEMMA WordRead ==
    ASSUME LexInv, LexWord
    PROVE  \E t, n, width : ReadsWord(t, n, width)
BY MarkRead, IdRead, IntRead, PrimopRead DEF LexWord

LEMMA NoneRead ==
    ASSUME LexInv, NoToken
    PROVE  Rest[chars] = << >>
<1>1. TextOK /\ chars \in 1..End
    BY DEF LexInv
<1>2. At(chars) \in {"NUL", "other"} \/ (At(chars) = "_" /\ At(chars + 1) # "_")
    BY DEF NoToken
<1>3. At(chars) \notin Blank
    BY <1>2, Classes
<1> QED
    BY <1>1, <1>2, <1>3, NoWord, RestAtNone

LEMMA BlankRead ==
    ASSUME LexInv, SkipBlank
    PROVE  chars + 1 \in 1..End /\ Rest[chars] = Rest[chars + 1]
BY RestAtBlank DEF LexInv, SkipBlank

-----------------------------------------------------------------------------
(* The rest of the text is what the abstract lexer has to come.            *)

LEMMA InitText == Init => TextOK
<1> SUFFICES ASSUME Init
             PROVE  text \in Seq(Char)
    BY DEF TextOK
<1>1. PICK n \in 0..MaxText : text \in [1..n -> Char]
    BY DEF Init
<1>2. MaxText \in Nat
    BY TextAssumption
<1>3. n \in Nat
    BY ONLY <1>2, n \in 0..MaxText
<1> QED
    BY <1>1, <1>3

LEMMA LexStarts == Init => LexInv
<1> SUFFICES ASSUME Init
             PROVE  LexInv
    OBVIOUS
<1>1. TextOK
    BY InitText
<1>2. chars = 1 /\ call = "idle" /\ to_come = TokensOfText
    BY DEF Init
<1>3. End \in Nat \ {0}
    BY <1>1, CharAt
<1>4. chars \in 1..End
    BY <1>2, <1>3
<1> QED
    BY <1>1, <1>2, <1>4, TokensAreRest DEF LexInv

LEMMA NextSplits ==
    ASSUME [Next]_vars
    PROVE  Call \/ SkipBlank \/ NoToken \/ LexWord \/ UNCHANGED vars
BY DEF Next, Lex, LexWord

LEMMA TypesAndMethods ==
    /\ Type \cap ({"idle"} \cup Methods) = {} /\ "idle" \notin Methods
BY TextAssumption DEF Methods

LEMMA LexInvKept == LexInv /\ [Next]_vars => LexInv'
<1> SUFFICES ASSUME LexInv, [Next]_vars
             PROVE  LexInv'
    OBVIOUS
<1>1. TextOK /\ chars \in 1..End /\ call \in {"idle"} \cup Methods \cup Type /\ to_come = Rest[chars]
    BY DEF LexInv
<1>2. text' = text
    BY NextSplits DEF Call, SkipBlank, NoToken, LexWord, LexMark, LexPrimop, LexId, LexInt, Return, vars
<1>3. Rest' = Rest /\ End' = End /\ TextOK'
    BY <1>1, <1>2, SameText
<1>4. CASE Call
    <2>1. call' \in Methods \cup Type
        BY <1>4 DEF Call, Methods
    <2>2. chars' = chars /\ to_come' = to_come
        BY <1>4 DEF Call
    <2> QED
        BY <2>1, <2>2, <1>1, <1>3 DEF LexInv
<1>5. CASE SkipBlank
    <2>1. chars' = chars + 1 /\ to_come' = to_come /\ call' = call
        BY <1>5 DEF SkipBlank
    <2>2. chars + 1 \in 1..End /\ Rest[chars] = Rest[chars + 1]
        BY <1>5, BlankRead
    <2> QED
        BY <2>1, <2>2, <1>1, <1>3 DEF LexInv
<1>6. CASE NoToken
    <2>1. call' = "idle" /\ chars' = chars /\ to_come' = to_come
        BY <1>6 DEF NoToken
    <2> QED
        BY <2>1, <1>1, <1>3 DEF LexInv
<1>7. CASE LexWord
    <2>1. PICK t, n, width : ReadsWord(t, n, width)
        BY <1>7, WordRead
    <2>2. /\ Return(Token(t, n), width) /\ chars + n \in 1..End
          /\ Rest[chars] # << >> /\ Tail(Rest[chars]) = Rest[chars + n]
        BY <2>1 DEF ReadsWord
    <2>3. call' = "idle"
        BY <2>2 DEF Return
    <2>4. \/ chars' = chars /\ to_come' = to_come
          \/ chars' = chars + n /\ to_come' = Tail(to_come)
        BY <2>2, <1>1 DEF Return, Token
    <2> QED
        BY <2>2, <2>3, <2>4, <1>1, <1>3 DEF LexInv
<1>8. CASE UNCHANGED vars
    BY <1>8, <1>1, <1>3 DEF LexInv, vars
<1> QED
    BY <1>4, <1>5, <1>6, <1>7, <1>8, NextSplits

CursorNext == Cursor!Call \/ Cursor!Peek \/ Cursor!Next \/ Cursor!Match
cursorVars == <<to_come, call, tok.type>>

LEMMA CursorStep == LexInv /\ [Next]_vars => [CursorNext]_cursorVars
<1> SUFFICES ASSUME LexInv, [Next]_vars
             PROVE  CursorNext \/ UNCHANGED cursorVars
    BY DEF CursorNext
<1>1. TextOK /\ chars \in 1..End /\ call \in {"idle"} \cup Methods \cup Type /\ to_come = Rest[chars]
    BY DEF LexInv
<1>2. CASE Call
    <2>1. Cursor!Call
        BY <1>2 DEF Call, Cursor!Call, Cursor!Methods
    <2> QED
        BY <2>1 DEF CursorNext
<1>3. CASE SkipBlank
    <2>1. UNCHANGED <<call, tok, to_come>>
        BY <1>3 DEF SkipBlank
    <2> QED
        BY <2>1 DEF cursorVars
<1>4. CASE NoToken
    <2>1. to_come = << >>
        BY <1>1, <1>4, NoneRead
    <2>2. call # "idle" /\ call' = "idle" /\ to_come' = to_come
          /\ tok' = CASE call = "peek" -> Token(None, 0)
                      [] call = "peek_some" -> Token("LexError", 0)
                      [] OTHER -> tok
        BY <1>4 DEF NoToken
    <2>3. CASE call = "peek"
        <3>1. tok'.type = None
            BY <2>2, <2>3 DEF Token
        <3>2. Cursor!Peek
            BY <3>1, <2>1, <2>2, <2>3 DEF Cursor!Peek
        <3> QED
            BY <3>2 DEF CursorNext
    <2>4. CASE call = "peek_some"
        <3>1. tok'.type = "LexError"
            BY <2>2, <2>4 DEF Token
        <3>2. Cursor!Peek
            BY <3>1, <2>1, <2>2, <2>4 DEF Cursor!Peek
        <3> QED
            BY <3>2 DEF CursorNext
    <2>5. CASE call = "next"
        <3>1. tok' = tok
            BY <2>2, <2>5
        <3>2. Cursor!Next
            BY <3>1, <2>1, <2>2, <2>5 DEF Cursor!Next
        <3> QED
            BY <3>2 DEF CursorNext
    <2>6. CASE call \in Type
        <3>1. call # "peek" /\ call # "peek_some"
            BY <2>6, TypesAndMethods DEF Methods
        <3>2. tok' = tok
            BY <2>2, <3>1
        <3>3. Cursor!Match
            BY <3>2, <2>1, <2>2, <2>6 DEF Cursor!Match
        <3> QED
            BY <3>3 DEF CursorNext
    <2> QED
        BY <2>2, <2>3, <2>4, <2>5, <2>6, <1>1 DEF Methods
<1>5. CASE LexWord
    <2>1. PICK t, n, width : ReadsWord(t, n, width)
        BY <1>5, WordRead
    <2>2. /\ call # "idle" /\ Return(Token(t, n), width) /\ t \in Type
          /\ to_come # << >> /\ Head(to_come) = t
        BY <2>1, <1>1 DEF ReadsWord
    <2>3. PICK k : k = Token(t, n)
        OBVIOUS
    <2>4. k.type = t /\ Return(k, width)
        BY <2>2, <2>3 DEF Token
    <2>5. call' = "idle"
        BY <2>4 DEF Return
    <2>6. CASE call \in {"peek", "peek_some"}
        <3>1. tok' = k /\ to_come' = to_come
            BY <2>4, <2>6 DEF Return
        <3>2. Cursor!Peek
            BY <3>1, <2>2, <2>4, <2>5, <2>6 DEF Cursor!Peek
        <3> QED
            BY <3>2 DEF CursorNext
    <2>7. CASE call = "next"
        <3>1. tok' = tok /\ to_come' = Tail(to_come)
            BY <2>2, <2>4, <2>7 DEF Return
        <3>2. Cursor!Next
            BY <3>1, <2>2, <2>5, <2>7 DEF Cursor!Next
        <3> QED
            BY <3>2 DEF CursorNext
    <2>8. CASE call \in Type
        <3>1. call \notin {"peek", "peek_some"} /\ call # "next"
            BY <2>8, TypesAndMethods DEF Methods
        <3>2. tok' = tok /\ to_come' = IF call = t THEN Tail(to_come) ELSE to_come
            BY <2>2, <2>4, <3>1 DEF Return
        <3>3. Cursor!Match
            BY <3>2, <2>2, <2>5, <2>8 DEF Cursor!Match
        <3> QED
            BY <3>3 DEF CursorNext
    <2> QED
        BY <2>2, <2>6, <2>7, <2>8, <1>1 DEF Methods
<1>6. CASE UNCHANGED vars
    BY <1>6 DEF vars, cursorVars
<1> QED
    BY <1>2, <1>3, <1>4, <1>5, <1>6, NextSplits

\* The methods of Lexer read the tokens that a text has by the longest word, one at a
\* time: peek loses none over blanks, next and match go to exactly the next one, and
\* match of another type stays.
THEOREM LexerIsCursor == Spec => ReadsTokens
<1>1. Init => Cursor!Init
    <2> SUFFICES ASSUME Init
                 PROVE  Cursor!Init
        OBVIOUS
    <2>1. TextOK /\ 1 \in 1..End
        BY InitText, CharAt
    <2>2. to_come \in Seq(Type)
        BY <2>1, RestTypes, TokensAreRest DEF Init
    <2>3. call = "idle" /\ tok.type = None
        BY DEF Init, Token
    <2> QED
        BY <2>2, <2>3 DEF Cursor!Init
<1>2. LexInv /\ [Next]_vars => [CursorNext]_cursorVars
    BY CursorStep
<1> QED
    BY <1>1, <1>2, LexStarts, LexInvKept, PTL DEF Spec, ReadsTokens, Cursor!Spec, CursorNext, cursorVars

-----------------------------------------------------------------------------
(* The lines and columns.                                                  *)

Newlines(n) == {p \in 1..(n - 1) : text[p] = "newline"}
LineStart(n) == IF Newlines(n) = {} THEN 1 ELSE Max(Newlines(n)) + 1
OnLine(n) == {p \in LineStart(n)..(n - 1) : text[p] # "_"}

LEMMA PositionsAre ==
    PositionsCount <=>
        line = Cardinality(Newlines(chars)) + 1 /\ column = Cardinality(OnLine(chars)) + 1
BY Zenon DEF PositionsCount, Newlines, LineStart, OnLine

LEMMA LinesFinite ==
    ASSUME NEW q \in Nat \ {0}
    PROVE  /\ Newlines(q) \subseteq 1..(q - 1) /\ IsFiniteSet(Newlines(q)) /\ LineStart(q) \in 1..q
           /\ IsFiniteSet(OnLine(q)) /\ OnLine(q) \subseteq 1..(q - 1)
           /\ Cardinality(Newlines(q)) \in Nat /\ Cardinality(OnLine(q)) \in Nat
<1>1. Newlines(q) \subseteq 1..(q - 1)
    BY DEF Newlines
<1>2. q - 1 \in Nat /\ \A S \in SUBSET (1..(q - 1)) : S \in SUBSET Nat /\ \A k \in S : k <= q - 1
    BY ONLY q \in Nat \ {0}
<1>3. LineStart(q) \in 1..q
    <2>1. CASE Newlines(q) = {}
        BY <2>1 DEF LineStart
    <2>2. CASE Newlines(q) # {}
        <3>1. Max(Newlines(q)) \in Newlines(q)
            BY <2>2, <1>1, <1>2, LargestOf
        <3>2. PICK m : m = Max(Newlines(q))
            OBVIOUS
        <3>3. m \in 1..(q - 1)
            BY <3>1, <3>2, <1>1
        <3>4. m + 1 \in 1..q
            BY ONLY <3>3, q \in Nat \ {0}
        <3> QED
            BY <3>2, <3>4, <2>2 DEF LineStart
    <2> QED
        BY <2>1, <2>2
<1>4. OnLine(q) \subseteq 1..(q - 1)
    <2>1. LineStart(q)..(q - 1) \subseteq 1..(q - 1)
        BY <1>3
    <2> QED
        BY <2>1 DEF OnLine
<1>5. IsFiniteSet(1..(q - 1))
    <2>1. 1 \in Int /\ q - 1 \in Int
        BY <1>2
    <2> QED
        BY <2>1, FS_Interval
<1>6. \A S \in SUBSET (1..(q - 1)) : IsFiniteSet(S) /\ Cardinality(S) \in Nat
    BY <1>5, FS_Subset, FS_CardinalityType
<1> QED
    BY <1>1, <1>3, <1>4, <1>6

LEMMA PastNewline ==
    ASSUME NEW q \in Nat \ {0}, text[q] = "newline"
    PROVE  /\ Cardinality(Newlines(q + 1)) = Cardinality(Newlines(q)) + 1
           /\ Cardinality(OnLine(q + 1)) = 0
<1>1. \A p : p \in 1..((q + 1) - 1) <=> p \in 1..(q - 1) \/ p = q
    BY ONLY q \in Nat \ {0}
<1>2. Newlines(q + 1) = Newlines(q) \cup {q}
    BY <1>1 DEF Newlines
<1>3. q \notin 1..(q - 1) /\ q \in Nat /\ \A k \in 1..(q - 1) : k \in Nat /\ k <= q
    BY ONLY q \in Nat \ {0}
<1>4. q \notin Newlines(q) /\ IsFiniteSet(Newlines(q)) /\ Newlines(q) \subseteq 1..(q - 1)
    BY <1>3, LinesFinite
<1>5. Cardinality(Newlines(q + 1)) = Cardinality(Newlines(q)) + 1
    BY <1>2, <1>4, FS_AddElement
<1>6. Max(Newlines(q + 1)) = q
    <2>1. Newlines(q + 1) \in SUBSET Nat /\ q \in Newlines(q + 1) /\ \A k \in Newlines(q + 1) : k <= q
        <3>1. \A k \in Newlines(q + 1) : k \in 1..(q - 1) \/ k = q
            BY <1>2, <1>4
        <3>2. q <= q
            BY ONLY q \in Nat \ {0}
        <3> QED
            BY <1>2, <1>3, <3>1, <3>2
    <2> QED
        BY <2>1, MaxIs
<1>7. LineStart(q + 1) = q + 1
    BY <1>2, <1>6 DEF LineStart
<1>8. (q + 1)..((q + 1) - 1) = {}
    BY ONLY q \in Nat \ {0}
<1>9. OnLine(q + 1) = {}
    BY <1>7, <1>8 DEF OnLine
<1> QED
    BY <1>5, <1>9, FS_EmptySet

LEMMA PastOthers ==
    ASSUME NEW q \in Nat \ {0}, NEW n \in Nat, \A p \in q..(q + n - 1) : text[p] # "newline"
    PROVE  /\ Newlines(q + n) = Newlines(q)
           /\ Cardinality(OnLine(q + n))
                = Cardinality(OnLine(q)) + Cardinality({p \in q..(q + n - 1) : text[p] # "_"})
<1>1. \A p : p \in 1..((q + n) - 1) <=> p \in 1..(q - 1) \/ p \in q..(q + n - 1)
    BY ONLY q \in Nat \ {0}, n \in Nat
<1>2. Newlines(q + n) = Newlines(q)
    BY <1>1 DEF Newlines
<1>3. PICK s : s = LineStart(q)
    OBVIOUS
<1>4. s \in 1..q /\ LineStart(q + n) = s
    BY <1>2, <1>3, LinesFinite DEF LineStart
<1>5. \A p : p \in s..((q + n) - 1) <=> p \in s..(q - 1) \/ p \in q..(q + n - 1)
    BY ONLY <1>4, q \in Nat \ {0}, n \in Nat
<1>6. PICK W : W = {p \in q..(q + n - 1) : text[p] # "_"}
    OBVIOUS
<1>7. OnLine(q + n) = OnLine(q) \cup W
    BY <1>3, <1>4, <1>5, <1>6 DEF OnLine
<1>8. IsFiniteSet(OnLine(q)) /\ OnLine(q) \subseteq 1..(q - 1) /\ Cardinality(OnLine(q)) \in Nat
    BY LinesFinite
<1>9. IsFiniteSet(W) /\ Cardinality(W) \in Nat
    <2>1. q \in Int /\ q + n - 1 \in Int
        BY ONLY q \in Nat \ {0}, n \in Nat
    <2>2. IsFiniteSet(q..(q + n - 1))
        BY <2>1, FS_Interval
    <2> QED
        BY <2>2, <1>6, FS_Subset, FS_CardinalityType
<1>10. OnLine(q) \cap W = {}
    <2>1. 1..(q - 1) \cap q..(q + n - 1) = {}
        BY ONLY q \in Nat \ {0}, n \in Nat
    <2> QED
        BY <2>1, <1>6, <1>8
<1>11. Cardinality(OnLine(q) \cup W) = Cardinality(OnLine(q)) + Cardinality(W) - Cardinality(OnLine(q) \cap W)
    BY <1>8, <1>9, FS_Union
<1>12. Cardinality(OnLine(q) \cap W) = 0
    BY <1>10, FS_EmptySet
<1>13. Cardinality(OnLine(q) \cup W) = Cardinality(OnLine(q)) + Cardinality(W)
    BY ONLY <1>8, <1>9, <1>11, <1>12
<1> QED
    BY <1>2, <1>6, <1>7, <1>13

PosInv == LexInv /\ PositionsCount

LEMMA PositionsKept == PosInv /\ [Next]_vars => PosInv'
<1> SUFFICES ASSUME LexInv, PositionsCount, [Next]_vars
             PROVE  PositionsCount'
    BY LexInvKept DEF PosInv
<1>1. TextOK /\ chars \in 1..End
    BY DEF LexInv
<1>2. text' = text
    BY NextSplits DEF Call, SkipBlank, NoToken, LexWord, LexMark, LexPrimop, LexId, LexInt, Return, vars
<1>3. PICK q, c : q = chars /\ c = chars'
    OBVIOUS
<1>4. q \in Nat \ {0} /\ q \in 1..End
    BY <1>1, <1>3, Place
<1>5. line = Cardinality(Newlines(q)) + 1 /\ column = Cardinality(OnLine(q)) + 1
    BY <1>3, PositionsAre
<1>6. Cardinality(Newlines(q)) \in Nat /\ Cardinality(OnLine(q)) \in Nat
    BY <1>4, LinesFinite
<1>7. line' = Cardinality(Newlines(c)) + 1 /\ column' = Cardinality(OnLine(c)) + 1 => PositionsCount'
    BY <1>2, <1>3, Zenon DEF PositionsCount, Newlines, LineStart, OnLine
<1>8. CASE c = q /\ UNCHANGED <<line, column>>
    <2>1. line' = Cardinality(Newlines(c)) + 1 /\ column' = Cardinality(OnLine(c)) + 1
        BY <1>5, <1>8
    <2> QED
        BY <2>1, <1>7, Zenon
<1>9. CASE SkipBlank
    <2>1. At(q) \in Blank /\ c = q + 1
          /\ IF At(q) = "newline" THEN line' = line + 1 /\ column' = 1
             ELSE column' = column + 1 /\ UNCHANGED line
        BY <1>3, <1>9 DEF SkipBlank
    <2>2. text[q] = At(q)
        BY <2>1, <1>1, <1>4, RestAtBlank, CharAt
    <2>3. CASE text[q] = "newline"
        <3>1. Cardinality(Newlines(c)) = Cardinality(Newlines(q)) + 1 /\ Cardinality(OnLine(c)) = 0
            BY <2>1, <2>3, <1>4, PastNewline
        <3>2. line' = line + 1 /\ column' = 1
            BY <2>1, <2>2, <2>3
        <3>3. line' = Cardinality(Newlines(c)) + 1 /\ column' = Cardinality(OnLine(c)) + 1
            BY <3>1, <3>2, <1>5
        <3> QED
            BY <3>3, <1>7, Zenon
    <2>4. CASE text[q] # "newline"
        <3>1. PICK n : n = 1
            OBVIOUS
        <3>2. n \in Nat /\ \A p \in q..(q + n - 1) : p = q
            BY <3>1, <1>4
        <3>3. text[q] # "_"
            BY <2>1, <2>2, Classes
        <3>4. Cardinality({p \in q..(q + n - 1) : text[p] # "_"}) = n
            BY <3>2, <3>3, <1>4, CountedAll
        <3>5. /\ Newlines(q + n) = Newlines(q)
              /\ Cardinality(OnLine(q + n)) = Cardinality(OnLine(q)) + n
            BY <3>2, <3>4, <2>4, <1>4, PastOthers
        <3>6. column' = column + 1 /\ line' = line
            BY <2>1, <2>2, <2>4
        <3>7. line' = Cardinality(Newlines(c)) + 1 /\ column' = Cardinality(OnLine(c)) + 1
            BY <3>1, <3>5, <3>6, <2>1, <1>5, <1>6
        <3> QED
            BY <3>7, <1>7, Zenon
    <2> QED
        BY <2>3, <2>4
<1>10. CASE LexWord
    <2>1. PICK t, n, width : ReadsWord(t, n, width)
        BY <1>10, WordRead
    <2>2. /\ Return(Token(t, n), width) /\ n \in Nat
          /\ \A p \in q..(q + n - 1) : text[p] # "newline"
          /\ width = Cardinality({p \in q..(q + n - 1) : text[p] # "_"})
        BY <2>1, <1>3 DEF ReadsWord
    <2>9. /\ line' = line
          /\ \/ chars' = chars /\ column' = column
             \/ chars' = chars + Token(t, n).size /\ column' = column + width
        BY <2>2, Zenon DEF Return
    <2>10. Token(t, n).size = n
        BY DEF Token
    <2>3. /\ line' = line
          /\ \/ c = q /\ column' = column
             \/ c = q + n /\ column' = column + width
        BY <2>9, <2>10, <1>3
    <2>4. CASE c = q /\ column' = column
        BY <2>3, <2>4, <1>8
    <2>5. CASE c = q + n /\ column' = column + width
        <3>1. /\ Newlines(q + n) = Newlines(q)
              /\ Cardinality(OnLine(q + n)) = Cardinality(OnLine(q)) + width
            BY <2>2, <1>4, PastOthers
        <3>2. width \in Nat
            <4>1. q \in Nat /\ n \in Nat
                BY <1>4, <2>2
            <4>2. q \in Int /\ q + n - 1 \in Int
                BY ONLY <4>1
            <4>3. IsFiniteSet(q..(q + n - 1))
                BY <4>2, FS_Interval
            <4> QED
                BY <4>3, <2>2, FS_Subset, FS_CardinalityType
        <3>3. line' = Cardinality(Newlines(c)) + 1 /\ column' = Cardinality(OnLine(c)) + 1
            BY <3>1, <3>2, <2>3, <2>5, <1>5, <1>6
        <3> QED
            BY <3>3, <1>7, Zenon
    <2> QED
        BY <2>3, <2>4, <2>5
<1>11. CASE Call \/ NoToken \/ UNCHANGED vars
    BY <1>3, <1>8, <1>11 DEF Call, NoToken, vars
<1> QED
    BY <1>9, <1>10, <1>11, NextSplits

\* The line and column of every error are those of the characters before it, whatever
\* peek skipped and match left, but for the two underscores of primitive operators.
THEOREM PositionsAlwaysCount == Spec => []PositionsCount
<1>1. Init => PositionsCount
    <2> SUFFICES ASSUME Init
                 PROVE  PositionsCount
        OBVIOUS
    <2>1. chars = 1 /\ line = 1 /\ column = 1
        BY DEF Init
    <2>2. 1..(1 - 1) = {} /\ 1 \in Nat \ {0}
        OBVIOUS
    <2>3. Newlines(1) = {} /\ OnLine(1) = {}
        BY <2>2, LinesFinite
    <2>4. Cardinality(Newlines(1)) + 1 = 1 /\ Cardinality(OnLine(1)) + 1 = 1
        BY <2>3, FS_EmptySet
    <2> QED
        BY <2>1, <2>4, PositionsAre
<1>2. PosInv => PositionsCount
    BY DEF PosInv
<1>3. Init => PosInv
    BY <1>1, LexStarts DEF PosInv
<1> QED
    BY <1>2, <1>3, PositionsKept, PTL DEF Spec
=============================================================================
