------------------------------ MODULE LexerProofs ------------------------------
(***************************************************************************)
(* Proofs about Lexer, for all texts and whatever characters letters,      *)
(* digits and spaces are: the tokens are the longest that there are, none  *)
(* is left out, and exactly what is no token is reported.                  *)
(***************************************************************************)
EXTENDS Lexer, SequenceTheorems, FiniteSetTheorems, WellFoundedInduction, TLAPS

------------------------------------------------------------------------------
(* Texts.                                                                  *)

LEMMA TextFact ==
  ASSUME text \in Texts
  PROVE  /\ Len(text) \in Nat /\ DOMAIN text = 1 .. Len(text)
         /\ text \in Seq({text[i] : i \in DOMAIN text})
         /\ \A i \in 1 .. Len(text) : text[i] # Nul
<1>1. PICK t, S : t = text /\ S = {text[i] : i \in DOMAIN text} \ {Nul}
  OBVIOUS
<1>2. t \in Seq(S)
  BY <1>1, TextsAssumption
<1>3. Len(t) \in Nat /\ DOMAIN t = 1 .. Len(t) /\ \A i \in 1 .. Len(t) : t[i] \in S
  BY <1>2
<1>4. t \in Seq({t[i] : i \in DOMAIN t})
  <2>1. t \in [1 .. Len(t) -> {t[i] : i \in DOMAIN t}]
    BY <1>2
  <2> QED BY <1>3, <2>1
<1> QED BY <1>1, <1>3, <1>4

LEMMA CharFact ==
  ASSUME text \in Texts, NEW i \in 0 .. Len(text)
  PROVE  /\ Char(i) = Nul <=> i = Len(text)
         /\ i < Len(text) => Char(i) = text[i + 1]
<1>0. PICK n \in Nat : n = Len(text)
  BY TextFact
<1>1. i < n => i + 1 \in 1 .. n
  BY <1>0
<1>2. i < Len(text) <=> i # Len(text)
  <2>1. i \in 0 .. n
    BY <1>0
  <2>2. i < n <=> i # n
    BY <2>1
  <2> QED BY <1>0, <2>2
<1>3. i < Len(text) => text[i + 1] # Nul
  BY <1>0, <1>1, TextFact
<1> QED BY <1>2, <1>3 DEF Char

LEMMA BetweenFact ==
  ASSUME text \in Texts, NEW a \in Nat, NEW b \in Nat, a <= b, b <= Len(text)
  PROVE  /\ Between(a, b) \in Seq({text[i] : i \in DOMAIN text})
         /\ Len(Between(a, b)) = b - a /\ DOMAIN Between(a, b) = 1 .. b - a
         /\ \A k \in 1 .. b - a : Between(a, b)[k] = text[a + k]
<1>1. PICK t, S : t = text /\ S = {text[i] : i \in DOMAIN text}
  OBVIOUS
<1>2. \A i \in a + 1 .. b : t[i] \in S
  <2>1. \A i \in a + 1 .. b : i \in DOMAIN text
    BY TextFact
  <2> QED BY <1>1, <2>1
<1>3. PICK s : s = SubSeq(t, a + 1, b)
  OBVIOUS
<1>4. /\ b - (a + 1) + 1 = b - a /\ (a + 1 <= b <=> b - a # 0)
      /\ \A k \in 1 .. b - a : a + 1 + k - 1 = a + k
  OBVIOUS
<1>5. s \in Seq(S) /\ Len(s) = b - a /\ \A k \in 1 .. b - a : s[k] = t[a + k]
  BY <1>2, <1>3, <1>4, SubSeqProperties
<1>6. DOMAIN s = 1 .. b - a
  BY <1>5
<1> QED BY <1>1, <1>3, <1>5, <1>6 DEF Between

\* A run of a class ends before the first character that is not of it.
LEMMA RunEndFact ==
  ASSUME text \in Texts, offset \in 0 .. Len(text), NEW class, Nul \notin class
  PROVE  /\ RunEnd(class) \in offset .. Len(text)
         /\ Char(RunEnd(class)) \notin class
         /\ \A i \in offset .. RunEnd(class) - 1 : Char(i) \in class
<1> DEFINE Ends == {e \in offset .. Len(text) : Char(e) \notin class}
<1>1. offset \in Nat /\ Len(text) \in Nat
  BY TextFact
<1>2. Ends \subseteq Nat /\ Ends # {}
  <2>1. Len(text) \in offset .. Len(text) /\ Char(Len(text)) = Nul
    BY <1>1, CharFact
  <2>2. Len(text) \in Ends
    BY <2>1
  <2> QED BY <1>1, <2>2
<1>3. \A e : e \in Ends <=> e \in offset .. Len(text) /\ Char(e) \notin class
  OBVIOUS
<1> HIDE DEF Ends
<1>4. PICK e \in Ends : \A m \in Ends : ~(<<m, e>> \in OpToRel(<, Nat))
  BY <1>2, NatLessThanWellFounded, WFMin
<1>5. e \in Nat /\ \A i \in Nat : i < e => i \notin Ends
  <2>1. e \in Nat
    BY <1>2, <1>4
  <2>2. ASSUME NEW i \in Nat, i < e PROVE <<i, e>> \in OpToRel(<, Nat)
    BY <2>1, <2>2 DEF OpToRel
  <2> QED BY <1>4, <2>1, <2>2
<1>6. e \in offset .. Len(text) /\ Char(e) \notin class
  BY <1>3, <1>4
<1>8. \A i \in offset .. e - 1 : Char(i) \in class
  <2>1. \A i \in offset .. e - 1 : i \in Nat /\ i < e /\ i \in offset .. Len(text)
    BY <1>1, <1>5, <1>6
  <2> QED BY <1>3, <1>5, <2>1
<1>7. \E x \in offset .. Len(text) :
        Char(x) \notin class /\ \A i \in offset .. x - 1 : Char(i) \in class
  BY <1>6, <1>8
<1> QED BY <1>7 DEF RunEnd
------------------------------------------------------------------------------
(* What a piece of text is.                                                *)

IsWord(s) == \A i \in 1 .. Len(s) : s[i] \in Letters \cup Digits
IsNumber(s) == \A i \in 1 .. Len(s) : s[i] \in Digits
Matching(table, s) == {k \in table : k.chars = s}
KindsIn(lexemes) == {k.kind : k \in lexemes}

LEMMA KeywordFact ==
  ASSUME NEW k \in Keywords
  PROVE  1 \in DOMAIN k.chars /\ \A i \in DOMAIN k.chars : k.chars[i] \in Letters
<1>1. 1 \in DOMAIN k.chars
  BY DEF Keywords, Lexeme
<1> QED BY <1>1, ClassesAssumption

LEMMA KeywordsDiffer ==
  ASSUME NEW k \in Keywords, NEW l \in Keywords, k.chars = l.chars
  PROVE  k = l
<1>1. DOMAIN k.chars = DOMAIN l.chars /\ \A i \in DOMAIN k.chars : k.chars[i] = l.chars[i]
  OBVIOUS
<1> QED BY <1>1 DEF Keywords, Lexeme

LEMMA TwoCharFact ==
  ASSUME NEW k \in TwoCharTokens
  PROVE  /\ k.chars = <<k.chars[1], "=">> /\ k.chars[1] \in OneCharTokens \cup {"!"}
         /\ k.kind # "identifier"
<1> DEFINE Fits(c, d) == c \in OneCharTokens \cup {"!"} /\ d # "identifier"
<1>1. ASSUME NEW c, NEW d, k = Lexeme(<<c, "=">>, d), Fits(c, d)
      PROVE  /\ k.chars = <<k.chars[1], "=">> /\ k.chars[1] \in OneCharTokens \cup {"!"}
             /\ k.kind # "identifier"
  <2>1. k.chars = <<c, "=">> /\ k.kind = d
    BY <1>1 DEF Lexeme
  <2>2. <<c, "=">>[1] = c
    OBVIOUS
  <2> QED BY <1>1, <2>1, <2>2
<1>2. /\ Fits("=", "==") /\ Fits("!", "!=") /\ Fits("<", "<=")
      /\ Fits(">", ">=") /\ Fits(":", ":=")
  BY DEF OneCharTokens
<1>3. \E c, d : Fits(c, d) /\ k = Lexeme(<<c, "=">>, d)
  <2> HIDE DEF Fits
  <2> QED BY <1>2, Zenon DEF TwoCharTokens
<1> HIDE DEF Fits
<1> QED BY <1>1, <1>3

LEMMA TwoCharsDiffer ==
  ASSUME NEW k \in TwoCharTokens, NEW l \in TwoCharTokens, k.chars = l.chars
  PROVE  k = l
<1>1. k.chars[1] = l.chars[1]
  OBVIOUS
<1> QED BY <1>1 DEF TwoCharTokens, Lexeme

\* What begins with a letter is a keyword, or an identifier, or nothing.
LEMMA LetterKinds ==
  ASSUME NEW S, NEW s \in Seq(S), Len(s) >= 1, s[1] \in Letters
  PROVE  KindsOf(s) = IF Matching(Keywords, s) # {} THEN KindsIn(Matching(Keywords, s))
                      ELSE IF IsWord(s) THEN {"identifier"} ELSE {}
<1>1. DOMAIN s = 1 .. Len(s) /\ 1 \in 1 .. Len(s) /\ s # <<>>
  OBVIOUS
<1>2. \A k \in TwoCharTokens : k.chars # s
  <2>1. s[1] \notin OneCharTokens \cup {"!"}
    BY ClassesAssumption
  <2> QED BY <2>1, TwoCharFact
<1>3. \A k \in OneCharTokens : s # <<k>>
  <2>1. s[1] \notin OneCharTokens
    BY ClassesAssumption
  <2>2. \A k : <<k>>[1] = k
    OBVIOUS
  <2> QED BY <2>1, <2>2
<1>4. s[1] \notin Digits
  BY ClassesAssumption
<1>5. {l \in Keywords \cup TwoCharTokens : l.chars = s} = Matching(Keywords, s)
  BY <1>2 DEF Matching
<1>6. {k \in OneCharTokens : s = <<k>>} = {}
  BY <1>3
<1>7. PICK table : table = KindsIn(Matching(Keywords, s))
  OBVIOUS
<1>8. table # {} <=> Matching(Keywords, s) # {}
  BY <1>7 DEF KindsIn
<1>9. KindsOf(s) = IF table # {} THEN table
                   ELSE {} \cup (IF IsWord(s) THEN {"identifier"} ELSE {}) \cup {}
  BY <1>1, <1>4, <1>5, <1>6, <1>7 DEF KindsOf, KindsIn, IsWord
<1> QED BY <1>7, <1>8, <1>9

\* Keywords are words.
LEMMA KeywordIsWord ==
  ASSUME NEW S, NEW s \in Seq(S), Matching(Keywords, s) # {}
  PROVE  IsWord(s)
<1>1. PICK k \in Keywords : k.chars = s
  BY DEF Matching
<1>2. DOMAIN s = 1 .. Len(s)
  OBVIOUS
<1> QED BY <1>1, <1>2, KeywordFact DEF IsWord

LEMMA DigitKinds ==
  ASSUME NEW S, NEW s \in Seq(S), Len(s) >= 1, s[1] \in Digits
  PROVE  KindsOf(s) = IF IsNumber(s) THEN {"number"} ELSE {}
<1>1. DOMAIN s = 1 .. Len(s) /\ 1 \in 1 .. Len(s) /\ s # <<>>
  OBVIOUS
<1>2. s[1] \notin OneCharTokens \cup {"!"} /\ s[1] \notin Letters
  BY ClassesAssumption
<1>3. \A k \in TwoCharTokens : k.chars # s
  BY <1>2, TwoCharFact
<1>4. \A k \in Keywords : k.chars # s
  BY <1>1, <1>2, KeywordFact
<1>5. \A k \in OneCharTokens : s # <<k>>
  <2>1. \A k : <<k>>[1] = k
    OBVIOUS
  <2> QED BY <1>2, <2>1
<1>6. {l \in Keywords \cup TwoCharTokens : l.chars = s} = {} /\ {k \in OneCharTokens : s = <<k>>} = {}
  BY <1>3, <1>4, <1>5
<1>7. KindsOf(s) = {} \cup {} \cup (IF IsNumber(s) THEN {"number"} ELSE {})
  BY <1>1, <1>2, <1>6 DEF KindsOf, IsNumber
<1> QED BY <1>7

\* What begins with another character is a token of one or two characters, or
\* nothing.
LEMMA SignKinds ==
  ASSUME NEW S, NEW s \in Seq(S), Len(s) >= 1, s[1] \notin Letters \cup Digits
  PROVE  KindsOf(s) = IF Matching(TwoCharTokens, s) # {} THEN KindsIn(Matching(TwoCharTokens, s))
                      ELSE {k \in OneCharTokens : s = <<k>>}
<1>1. DOMAIN s = 1 .. Len(s) /\ 1 \in 1 .. Len(s) /\ s # <<>>
  OBVIOUS
<1>2. \A k \in Keywords : k.chars # s
  BY <1>1, KeywordFact
<1>3. {l \in Keywords \cup TwoCharTokens : l.chars = s} = Matching(TwoCharTokens, s)
  BY <1>2 DEF Matching
<1>4. PICK table : table = KindsIn(Matching(TwoCharTokens, s))
  OBVIOUS
<1>5. table # {} <=> Matching(TwoCharTokens, s) # {}
  BY <1>4 DEF KindsIn
<1>6. ~(\A i \in DOMAIN s : s[i] \in Digits)
  BY <1>1
<1>7. KindsOf(s) = IF table # {} THEN table ELSE {k \in OneCharTokens : s = <<k>>} \cup {} \cup {}
  BY <1>1, <1>3, <1>4, <1>6 DEF KindsOf, KindsIn
<1> QED BY <1>4, <1>5, <1>7
------------------------------------------------------------------------------
(* The piece of the text from o on that ends at e.                         *)

LEMMA PieceFact ==
  ASSUME text \in Texts, NEW o \in Nat, NEW e \in o + 1 .. Len(text)
  PROVE  /\ Between(o, e) \in Seq({text[i] : i \in DOMAIN text})
         /\ Len(Between(o, e)) = e - o /\ Len(Between(o, e)) >= 1
         /\ Between(o, e)[1] = Char(o)
         /\ \A k \in o .. e - 1 : k - o + 1 \in 1 .. e - o /\ Between(o, e)[k - o + 1] = Char(k)
<1>1. PICK n \in Nat : n = Len(text)
  BY TextFact
<1>2. e \in Nat /\ o <= e /\ e <= n /\ e - o >= 1 /\ 1 \in 1 .. e - o
  BY <1>1
<1>3. /\ Between(o, e) \in Seq({text[i] : i \in DOMAIN text})
      /\ Len(Between(o, e)) = e - o
      /\ \A k \in 1 .. e - o : Between(o, e)[k] = text[o + k]
  BY <1>1, <1>2, BetweenFact
<1>4. ASSUME NEW k \in o .. e - 1
      PROVE  k - o + 1 \in 1 .. e - o /\ Between(o, e)[k - o + 1] = Char(k)
  <2>1. k - o + 1 \in 1 .. e - o /\ o + (k - o + 1) = k + 1 /\ k < n
    BY <1>2
  <2>2. Between(o, e)[k - o + 1] = text[k + 1]
    BY <1>3, <2>1
  <2>3. Char(k) = text[k + 1]
    BY <1>1, <2>1 DEF Char
  <2> QED BY <2>1, <2>2, <2>3
<1>5. Between(o, e)[1] = Char(o)
  <2>1. o \in o .. e - 1 /\ o - o + 1 = 1
    BY <1>2
  <2> QED BY <1>4, <2>1
<1> QED BY <1>2, <1>3, <1>4, <1>5

\* It is of one class until the run of the class ends, and of no longer.
LEMMA PieceOfClass ==
  ASSUME text \in Texts, NEW o \in Nat, NEW e \in o + 1 .. Len(text), NEW class,
         NEW run \in o .. Len(text), Char(run) \notin class,
         \A i \in o .. run - 1 : Char(i) \in class
  PROVE  (\A i \in 1 .. Len(Between(o, e)) : Between(o, e)[i] \in class) <=> e <= run
<1>1. PICK n \in Nat : n = Len(text)
  BY TextFact
<1>2. e \in Nat /\ run \in Nat /\ o <= run /\ o < e
  BY <1>1
<1>3. PICK s : s = Between(o, e)
  OBVIOUS
<1>4. Len(s) = e - o /\ \A k \in o .. e - 1 : s[k - o + 1] = Char(k)
  BY <1>3, PieceFact
<1>5. ASSUME e <= run, NEW i \in 1 .. e - o PROVE s[i] \in class
  <2>1. o + i - 1 \in o .. e - 1 /\ o + i - 1 \in o .. run - 1 /\ (o + i - 1) - o + 1 = i
    BY <1>2, <1>5
  <2> QED BY <1>4, <2>1
<1>6. ASSUME ~(e <= run) PROVE \E i \in 1 .. e - o : s[i] \notin class
  <2>1. run \in o .. e - 1 /\ run - o + 1 \in 1 .. e - o
    BY <1>2, <1>6
  <2> QED BY <1>4, <2>1
<1> QED BY <1>3, <1>4, <1>5, <1>6

\* From a character that is neither a letter nor a digit.
LEMMA SignPiece ==
  ASSUME text \in Texts, NEW o \in Nat, NEW e \in o + 1 .. Len(text),
         Char(o) \notin Letters \cup Digits
  PROVE  /\ e = o + 1 => KindsOf(Between(o, e)) = {k \in OneCharTokens : Char(o) = k}
         /\ e = o + 2 =>
              KindsOf(Between(o, e)) = KindsIn(Matching(TwoCharTokens, <<Char(o), Char(o + 1)>>))
         /\ e > o + 2 => KindsOf(Between(o, e)) = {}
<1>1. PICK n \in Nat : n = Len(text)
  BY TextFact
<1>2. PICK S, s : s = Between(o, e) /\ S = {text[i] : i \in DOMAIN text}
  OBVIOUS
<1>3. /\ s \in Seq(S) /\ Len(s) = e - o /\ Len(s) >= 1 /\ s[1] = Char(o)
      /\ \A k \in o .. e - 1 : s[k - o + 1] = Char(k)
  BY <1>2, PieceFact
<1>4. e \in Nat /\ o < e
  BY <1>1
<1>5. KindsOf(s) = IF Matching(TwoCharTokens, s) # {} THEN KindsIn(Matching(TwoCharTokens, s))
                   ELSE {k \in OneCharTokens : s = <<k>>}
  BY <1>3, SignKinds
<1>6. KindsIn({}) = {}
  BY DEF KindsIn
<1>7. Len(s) # 2 => Matching(TwoCharTokens, s) = {}
  <2>1. ASSUME NEW k \in TwoCharTokens, k.chars = s PROVE Len(s) = 2
    <3>1. PICK c : s = <<c, "=">>
      BY <2>1, TwoCharFact
    <3>2. Len(<<c, "=">>) = 2
      OBVIOUS
    <3> QED BY <3>1, <3>2
  <2> QED BY <2>1 DEF Matching
<1>8. Len(s) # 1 => {k \in OneCharTokens : s = <<k>>} = {}
  <2>1. \A k : Len(<<k>>) = 1
    OBVIOUS
  <2> QED BY <2>1
<1>9. ASSUME e = o + 1 PROVE KindsOf(s) = {k \in OneCharTokens : Char(o) = k}
  <2>1. Len(s) = 1 /\ Len(s) # 2
    BY <1>3, <1>9
  <2>2. \A k : s = <<k>> <=> Char(o) = k
    <3>1. PICK c : c = s[1] /\ c \in S
      BY <1>3
    <3>2. <<c>> \in Seq(S) /\ Len(<<c>>) = 1 /\ <<c>>[1] = c
      BY <3>1
    <3>3. s = <<c>>
      <4>1. \A i \in 1 .. 1 : i = 1
        OBVIOUS
      <4> QED BY <1>3, <2>1, <3>1, <3>2, <4>1, SeqEqual
    <3>4. \A k : <<k>>[1] = k
      OBVIOUS
    <3> QED BY <1>3, <3>1, <3>3, <3>4
  <2> QED BY <1>5, <1>7, <2>1, <2>2
<1>10. ASSUME e = o + 2
       PROVE  KindsOf(s) = KindsIn(Matching(TwoCharTokens, <<Char(o), Char(o + 1)>>))
  <2>1. Len(s) = 2 /\ Len(s) # 1
    BY <1>3, <1>10
  <2>2. s[2] = Char(o + 1)
    <3>1. o + 1 \in o .. e - 1 /\ (o + 1) - o + 1 = 2
      BY <1>10
    <3> QED BY <1>3, <3>1
  <2>3. s = <<s[1], s[2]>>
    <3>1. PICK c, d : c = s[1] /\ d = s[2] /\ c \in S /\ d \in S
      BY <1>3, <2>1
    <3>2. /\ <<c, d>> \in Seq(S) /\ Len(<<c, d>>) = 2
          /\ <<c, d>>[1] = c /\ <<c, d>>[2] = d
      BY <3>1
    <3>3. \A i \in 1 .. 2 : i = 1 \/ i = 2
      OBVIOUS
    <3>4. s = <<c, d>>
      BY <1>3, <2>1, <3>1, <3>2, <3>3, SeqEqual
    <3> QED BY <3>1, <3>4
  <2>4. s = <<Char(o), Char(o + 1)>>
    BY <1>3, <2>2, <2>3
  <2> QED BY <1>5, <1>6, <1>8, <2>1, <2>4
<1>11. ASSUME e > o + 2 PROVE KindsOf(s) = {}
  <2>1. Len(s) # 2 /\ Len(s) # 1
    BY <1>3, <1>4, <1>11
  <2> QED BY <1>5, <1>7, <1>8, <2>1
<1> QED BY <1>2, <1>9, <1>10, <1>11
------------------------------------------------------------------------------
(* Each token that is pushed is the longest.                               *)

\* A lexeme that none longer follows, and a character that begins none.
LEMMA LongestIf ==
  ASSUME text \in Texts, NEW token, NEW o \in Nat, NEW e \in o + 1 .. Len(text),
         token.start = o, token.end = e, KindsOf(Between(o, e)) = {token.kind},
         \A x \in o + 1 .. Len(text) : x > e => KindsOf(Between(o, x)) = {}
  PROVE  IsLongest(token)
<1>1. PICK n \in Nat : n = Len(text)
  BY TextFact
<1>2. \A x \in o + 1 .. n : x <= e \/ x > e
  BY <1>1
<1> QED BY <1>1, <1>2 DEF IsLongest

LEMMA ErrorIf ==
  ASSUME text \in Texts, NEW token, NEW o \in Nat,
         token.start = o, token.end = o + 1, token.kind = "error",
         \A x \in o + 1 .. Len(text) : KindsOf(Between(o, x)) = {}
  PROVE  IsLongest(token)
BY DEF IsLongest

Token(kind, start, end) == [kind |-> kind, start |-> start, end |-> end]

LEMMA NumberIsLongest ==
  ASSUME text \in Texts, offset \in 0 .. Len(text), Char(offset) \in Digits
  PROVE  /\ RunEnd(Digits) \in offset + 1 .. Len(text)
         /\ IsLongest(ConvertKeyword(Token("number", offset, RunEnd(Digits))))
<1>1. PICK n \in Nat : n = Len(text)
  BY TextFact
<1>2. PICK o, e : o = offset /\ e = RunEnd(Digits)
  OBVIOUS
<1>3. /\ e \in o .. n /\ Char(e) \notin Digits
      /\ \A i \in o .. e - 1 : Char(i) \in Digits
  <2>1. Nul \notin Digits
    BY ClassesAssumption
  <2> QED BY <1>1, <1>2, <2>1, RunEndFact
<1>4. o \in Nat /\ e \in o + 1 .. n
  <2>1. e # o
    BY <1>2, <1>3
  <2> QED BY <1>1, <1>2, <1>3, <2>1
<1>5. ASSUME NEW x \in o + 1 .. n
      PROVE  KindsOf(Between(o, x)) = IF x <= e THEN {"number"} ELSE {}
  <2>1. PICK S, s : s = Between(o, x) /\ S = {text[i] : i \in DOMAIN text}
    OBVIOUS
  <2>2. s \in Seq(S) /\ Len(s) >= 1 /\ s[1] \in Digits
    BY <1>1, <1>2, <1>4, <2>1, PieceFact
  <2>3. IsNumber(s) <=> x <= e
    BY <1>1, <1>3, <1>4, <2>1, PieceOfClass DEF IsNumber
  <2> QED BY <2>1, <2>2, <2>3, DigitKinds
<1>6. PICK token : token = Token("number", o, e)
  OBVIOUS
<1>7. token.start = o /\ token.end = e /\ token.kind = "number" /\ ConvertKeyword(token) = token
  BY <1>6 DEF Token, ConvertKeyword
<1>8. KindsOf(Between(o, e)) = {"number"}
  BY <1>4, <1>5
<1>9. \A x \in o + 1 .. n : x > e => KindsOf(Between(o, x)) = {}
  BY <1>4, <1>5
<1>10. IsLongest(token)
  BY <1>1, <1>4, <1>7, <1>8, <1>9, LongestIf
<1> QED BY <1>1, <1>2, <1>4, <1>6, <1>7, <1>10

\* A word that is no keyword is an identifier, and none is two keywords.
LEMMA WordIsLongest ==
  ASSUME text \in Texts, offset \in 0 .. Len(text), Char(offset) \in Letters
  PROVE  /\ RunEnd(Letters \cup Digits) \in offset + 1 .. Len(text)
         /\ IsLongest(ConvertKeyword(Token("identifier", offset, RunEnd(Letters \cup Digits))))
<1>1. PICK n \in Nat : n = Len(text)
  BY TextFact
<1>2. PICK o, e : o = offset /\ e = RunEnd(Letters \cup Digits)
  OBVIOUS
<1>3. /\ e \in o .. n /\ Char(e) \notin Letters \cup Digits
      /\ \A i \in o .. e - 1 : Char(i) \in Letters \cup Digits
  <2>1. Nul \notin Letters \cup Digits
    BY ClassesAssumption
  <2> QED BY <1>1, <1>2, <2>1, RunEndFact
<1>4. o \in Nat /\ e \in o + 1 .. n
  <2>1. e # o
    BY <1>2, <1>3
  <2> QED BY <1>1, <1>2, <1>3, <2>1
<1>5. ASSUME NEW x \in o + 1 .. n
      PROVE  /\ x > e => KindsOf(Between(o, x)) = {}
             /\ x = e => LET matching == Matching(Keywords, Between(o, x))
                         IN  KindsOf(Between(o, x)) = IF matching # {} THEN KindsIn(matching)
                                                      ELSE {"identifier"}
  <2>1. PICK S, s : s = Between(o, x) /\ S = {text[i] : i \in DOMAIN text}
    OBVIOUS
  <2>2. s \in Seq(S) /\ Len(s) >= 1 /\ s[1] \in Letters
    BY <1>1, <1>2, <1>4, <2>1, PieceFact
  <2>3. IsWord(s) <=> x <= e
    BY <1>1, <1>3, <1>4, <2>1, PieceOfClass DEF IsWord
  <2>4. x \in Nat /\ e \in Nat
    BY <1>4
  <2>5. KindsOf(s) = IF Matching(Keywords, s) # {} THEN KindsIn(Matching(Keywords, s))
                     ELSE IF IsWord(s) THEN {"identifier"} ELSE {}
    BY <2>2, LetterKinds
  <2>6. x > e => ~IsWord(s) /\ Matching(Keywords, s) = {}
    BY <2>2, <2>3, <2>4, KeywordIsWord
  <2>7. x = e => IsWord(s)
    BY <2>3, <2>4
  <2> QED BY <2>1, <2>5, <2>6, <2>7
<1>6. PICK token : token = Token("identifier", o, e)
  OBVIOUS
<1>7. PICK converted : converted = ConvertKeyword(token)
  OBVIOUS
<1>8. PICK matching : matching = Matching(Keywords, Between(o, e))
  OBVIOUS
<1>9. KindsOf(Between(o, e)) = IF matching # {} THEN KindsIn(matching) ELSE {"identifier"}
  BY <1>4, <1>5, <1>8
<1>10. converted = IF matching # {} THEN Token((CHOOSE k \in matching : TRUE).kind, o, e)
                   ELSE token
  <2>1. token.start = o /\ token.end = e /\ token.kind = "identifier"
    BY <1>6 DEF Token
  <2>2. \A kind : [token EXCEPT !.kind = kind] = Token(kind, o, e)
    BY <1>6 DEF Token
  <2>3. {k \in Keywords : k.chars = Between(token.start, token.end)} = matching
    BY <1>8, <2>1 DEF Matching
  <2> QED BY <1>7, <2>1, <2>2, <2>3 DEF ConvertKeyword
<1>11. converted.start = o /\ converted.end = e
  BY <1>6, <1>10 DEF Token
<1>12. KindsOf(Between(o, e)) = {converted.kind}
  <2>1. CASE matching = {}
    BY <1>6, <1>9, <1>10, <2>1 DEF Token
  <2>2. CASE matching # {}
    <3>1. PICK k : k = (CHOOSE l \in matching : TRUE) /\ k \in matching
      BY <2>2
    <3>2. \A l \in matching : l = k
      BY <1>8, <3>1, KeywordsDiffer DEF Matching
    <3>3. matching = {k}
      BY <3>1, <3>2
    <3>4. KindsIn(matching) = {k.kind}
      BY <3>3 DEF KindsIn
    <3>5. converted.kind = k.kind
      BY <1>10, <2>2, <3>1 DEF Token
    <3> QED BY <1>9, <2>2, <3>4, <3>5
  <2> QED BY <2>1, <2>2
<1>13. \A x \in o + 1 .. n : x > e => KindsOf(Between(o, x)) = {}
  BY <1>5
<1>14. IsLongest(converted)
  BY <1>1, <1>4, <1>11, <1>12, <1>13, LongestIf
<1> QED BY <1>1, <1>2, <1>4, <1>6, <1>7, <1>14

\* What the characters at the offset are, when a token of two fits there.
LEMMA TwoCharsAt ==
  ASSUME text \in Texts, offset \in 0 .. Len(text), NEW token \in TwoCharTokens,
         AtTwoChars(token)
  PROVE  /\ Char(offset) \in OneCharTokens \cup {"!"} /\ offset + 2 \in 0 .. Len(text)
         /\ Matching(TwoCharTokens, <<Char(offset), Char(offset + 1)>>) = {token}
<1>1. PICK n \in Nat : n = Len(text)
  BY TextFact
<1>2. PICK o, c, d : o = offset /\ c = Char(offset) /\ d = Char(offset + 1)
  OBVIOUS
<1>3. token.chars = <<c, d>>
  BY <1>2 DEF AtTwoChars
<1>4. token.chars[1] = c /\ token.chars[2] = d
  BY <1>3
<1>5. c \in OneCharTokens \cup {"!"} /\ d = "="
  <2>1. token.chars = <<token.chars[1], "=">> /\ token.chars[1] \in OneCharTokens \cup {"!"}
    BY TwoCharFact
  <2>2. \A x : <<x, "=">>[2] = "="
    OBVIOUS
  <2> QED BY <1>4, <2>1, <2>2
<1>6. c # Nul /\ d # Nul
  BY <1>5 DEF OneCharTokens, Nul
<1>7. o \in Nat /\ o <= n
  BY <1>1, <1>2
<1>8. o < n /\ o + 1 < n
  BY <1>1, <1>2, <1>6, <1>7 DEF Char
<1>9. o + 2 \in 0 .. n
  BY <1>7, <1>8
<1>10. Matching(TwoCharTokens, <<c, d>>) = {token}
  BY <1>3, TwoCharsDiffer DEF Matching
<1> QED BY <1>1, <1>2, <1>5, <1>9, <1>10

LEMMA TwoCharsIsLongest ==
  ASSUME text \in Texts, offset \in 0 .. Len(text), NEW token \in TwoCharTokens,
         AtTwoChars(token)
  PROVE  IsLongest(ConvertKeyword(Token(token.kind, offset, offset + 2)))
<1>1. PICK n \in Nat : n = Len(text)
  BY TextFact
<1>2. PICK o : o = offset
  OBVIOUS
<1>3. o \in Nat /\ o + 2 \in o + 1 .. n
  BY <1>1, <1>2, TwoCharsAt
<1>4. Char(o) \notin Letters \cup Digits
  BY <1>2, TwoCharsAt, ClassesAssumption
<1>5. KindsOf(Between(o, o + 2)) = {token.kind}
  <2>1. Matching(TwoCharTokens, <<Char(o), Char(o + 1)>>) = {token}
    BY <1>2, TwoCharsAt
  <2>2. KindsIn({token}) = {token.kind}
    BY DEF KindsIn
  <2>3. KindsOf(Between(o, o + 2)) = KindsIn(Matching(TwoCharTokens, <<Char(o), Char(o + 1)>>))
    BY <1>1, <1>3, <1>4, SignPiece
  <2> QED BY <2>1, <2>2, <2>3
<1>6. \A x \in o + 1 .. n : x > o + 2 => KindsOf(Between(o, x)) = {}
  BY <1>1, <1>3, <1>4, SignPiece
<1>7. PICK pushed : pushed = Token(token.kind, o, o + 2)
  OBVIOUS
<1>8. /\ pushed.start = o /\ pushed.end = o + 2 /\ pushed.kind = token.kind
      /\ ConvertKeyword(pushed) = pushed
  BY <1>7, TwoCharFact DEF Token, ConvertKeyword
<1>9. IsLongest(pushed)
  BY <1>1, <1>3, <1>5, <1>6, <1>8, LongestIf
<1> QED BY <1>2, <1>7, <1>8, <1>9

\* Where no token of two characters fits, none longer than one does.
LEMMA NotTwoChars ==
  ASSUME text \in Texts, offset \in Nat, Char(offset) \notin Letters \cup Digits,
         \A token \in TwoCharTokens : ~AtTwoChars(token),
         NEW x \in offset + 1 .. Len(text), x > offset + 1
  PROVE  KindsOf(Between(offset, x)) = {}
<1>1. PICK n \in Nat : n = Len(text)
  BY TextFact
<1>2. Matching(TwoCharTokens, <<Char(offset), Char(offset + 1)>>) = {}
  BY DEF Matching, AtTwoChars
<1>3. KindsIn({}) = {}
  BY DEF KindsIn
<1>4. x = offset + 2 \/ x > offset + 2
  BY <1>1
<1> QED BY <1>2, <1>3, <1>4, SignPiece

LEMMA OneCharIsLongest ==
  ASSUME text \in Texts, offset \in 0 .. Len(text),
         \A token \in TwoCharTokens : ~AtTwoChars(token), Char(offset) \in OneCharTokens
  PROVE  /\ offset + 1 \in 0 .. Len(text)
         /\ IsLongest(ConvertKeyword(Token(Char(offset), offset, offset + 1)))
<1>1. PICK n \in Nat : n = Len(text)
  BY TextFact
<1>2. PICK o, c : o = offset /\ c = Char(offset)
  OBVIOUS
<1>3. c \notin Letters \cup Digits /\ c # Nul /\ c # "identifier"
  <2>1. c # Nul /\ c # "identifier"
    BY <1>2 DEF OneCharTokens, Nul
  <2> QED BY <1>2, <2>1, ClassesAssumption
<1>4. o \in Nat /\ o + 1 \in o + 1 .. n /\ o + 1 \in 0 .. n
  <2>1. o \in Nat /\ o <= n /\ o # n
    BY <1>1, <1>2, <1>3, CharFact
  <2> QED BY <1>1, <2>1
<1>5. KindsOf(Between(o, o + 1)) = {c}
  <2>1. KindsOf(Between(o, o + 1)) = {k \in OneCharTokens : c = k}
    BY <1>1, <1>2, <1>3, <1>4, SignPiece
  <2> QED BY <1>2, <2>1
<1>6. \A x \in o + 1 .. n : x > o + 1 => KindsOf(Between(o, x)) = {}
  BY <1>1, <1>2, <1>3, <1>4, NotTwoChars
<1>7. PICK pushed : pushed = Token(c, o, o + 1)
  OBVIOUS
<1>8. /\ pushed.start = o /\ pushed.end = o + 1 /\ pushed.kind = c
      /\ ConvertKeyword(pushed) = pushed
  BY <1>3, <1>7 DEF Token, ConvertKeyword
<1>9. IsLongest(pushed)
  BY <1>1, <1>4, <1>5, <1>6, <1>8, LongestIf
<1> QED BY <1>1, <1>2, <1>4, <1>7, <1>8, <1>9

LEMMA InvalidIsLongest ==
  ASSUME text \in Texts, offset \in 0 .. Len(text),
         \A token \in TwoCharTokens : ~AtTwoChars(token),
         Char(offset) \notin Letters \cup Digits \cup OneCharTokens \cup {Nul}
  PROVE  /\ offset + 1 \in 0 .. Len(text)
         /\ IsLongest(ConvertKeyword(Token("error", offset, offset + 1)))
<1>1. PICK n \in Nat : n = Len(text)
  BY TextFact
<1>2. PICK o, c : o = offset /\ c = Char(offset)
  OBVIOUS
<1>3. o \in Nat /\ o + 1 \in o + 1 .. n /\ o + 1 \in 0 .. n
  <2>1. o \in Nat /\ o <= n /\ o # n
    BY <1>1, <1>2, CharFact
  <2> QED BY <1>1, <2>1
<1>4. KindsOf(Between(o, o + 1)) = {}
  <2>1. KindsOf(Between(o, o + 1)) = {k \in OneCharTokens : c = k}
    BY <1>1, <1>2, <1>3, SignPiece
  <2> QED BY <1>2, <2>1
<1>5. \A x \in o + 1 .. n : KindsOf(Between(o, x)) = {}
  <2>1. \A x \in o + 1 .. n : x > o + 1 => KindsOf(Between(o, x)) = {}
    BY <1>1, <1>2, <1>3, NotTwoChars
  <2>2. \A x \in o + 1 .. n : x = o + 1 \/ x > o + 1
    BY <1>1, <1>3
  <2> QED BY <1>4, <2>1, <2>2
<1>6. PICK pushed : pushed = Token("error", o, o + 1)
  OBVIOUS
<1>7. /\ pushed.start = o /\ pushed.end = o + 1 /\ pushed.kind = "error"
      /\ ConvertKeyword(pushed) = pushed
  BY <1>6 DEF Token, ConvertKeyword
<1>8. IsLongest(pushed)
  BY <1>1, <1>3, <1>5, <1>7, ErrorIf
<1> QED BY <1>1, <1>2, <1>3, <1>6, <1>7, <1>8
------------------------------------------------------------------------------
(* What has been pushed, and reported.                                     *)

Kinds == OneCharTokens \cup {k.kind : k \in TwoCharTokens} \cup {"number", "identifier", "error"}
TokenRecords == [kind : Kinds, start : Nat, end : Nat]
Spans == [start : Nat, end : Nat]

ErrorsOf(s) == {i \in DOMAIN s : s[i].kind = "error"}
UpTo(errors, i) == {j \in errors : j <= i}
SpanOf(token) == [start |-> token.start, end |-> token.end]

\* The errors among the tokens s are the diagnostics v, in order.
Reported(s, v) ==
  /\ Len(v) = Cardinality(ErrorsOf(s))
  /\ \A i \in ErrorsOf(s) : v[Cardinality(UpTo(ErrorsOf(s), i))] = SpanOf(s[i])

EndBefore(s, i) == IF i = 1 THEN 0 ELSE s[i - 1].end

LEMMA ErrorsFact ==
  ASSUME NEW s \in Seq(TokenRecords)
  PROVE  /\ ErrorsOf(s) \subseteq 1 .. Len(s) /\ IsFiniteSet(ErrorsOf(s))
         /\ Cardinality(ErrorsOf(s)) \in Nat
         /\ \A i \in ErrorsOf(s) : Cardinality(UpTo(ErrorsOf(s), i)) \in 1 .. Cardinality(ErrorsOf(s))
<1>1. PICK n \in Nat : n = Len(s)
  OBVIOUS
<1>2. PICK E : E = ErrorsOf(s)
  OBVIOUS
<1>3. E \subseteq 1 .. n
  BY <1>1, <1>2 DEF ErrorsOf
<1>4. IsFiniteSet(E) /\ Cardinality(E) \in Nat
  <2>1. IsFiniteSet(1 .. n)
    BY FS_Interval
  <2> QED BY <1>3, <2>1, FS_Subset, FS_CardinalityType
<1>5. ASSUME NEW i \in E PROVE Cardinality(UpTo(E, i)) \in 1 .. Cardinality(E)
  <2>1. UpTo(E, i) \subseteq E /\ i \in UpTo(E, i)
    BY <1>3 DEF UpTo
  <2>2. IsFiniteSet(UpTo(E, i)) /\ Cardinality(UpTo(E, i)) <= Cardinality(E)
    BY <1>4, <2>1, FS_Subset
  <2>3. Cardinality(UpTo(E, i)) \in Nat /\ Cardinality(UpTo(E, i)) # 0
    BY <2>1, <2>2, FS_CardinalityType, FS_EmptySet
  <2> QED BY <1>4, <2>2, <2>3
<1> QED BY <1>1, <1>2, <1>3, <1>4, <1>5

LEMMA TokenReported ==
  ASSUME NEW s \in Seq(TokenRecords), NEW v, Reported(s, v),
         NEW token \in TokenRecords, token.kind # "error"
  PROVE  Reported(Append(s, token), v)
<1>1. PICK t : t = Append(s, token)
  OBVIOUS
<1>2. PICK n \in Nat : n = Len(s)
  OBVIOUS
<1>3. /\ DOMAIN s = 1 .. n /\ DOMAIN t = 1 .. n + 1 /\ t[n + 1] = token
      /\ \A i \in 1 .. n : t[i] = s[i]
  BY <1>1, <1>2
<1>4. ErrorsOf(t) = ErrorsOf(s)
  <2>1. \A i \in 1 .. n + 1 : i \in 1 .. n \/ i = n + 1
    OBVIOUS
  <2>2. \A i \in 1 .. n : i \in 1 .. n + 1
    OBVIOUS
  <2> QED BY <1>3, <2>1, <2>2 DEF ErrorsOf
<1>5. \A i \in ErrorsOf(s) : t[i] = s[i]
  BY <1>3 DEF ErrorsOf
<1> QED BY <1>1, <1>4, <1>5 DEF Reported

LEMMA ErrorReported ==
  ASSUME NEW s \in Seq(TokenRecords), NEW v \in Seq(Spans), Reported(s, v),
         NEW token \in TokenRecords, token.kind = "error"
  PROVE  Reported(Append(s, token), Append(v, SpanOf(token)))
<1>1. PICK t, w : t = Append(s, token) /\ w = Append(v, SpanOf(token))
  OBVIOUS
<1>2. PICK n \in Nat : n = Len(s)
  OBVIOUS
<1>3. PICK E, F : E = ErrorsOf(s) /\ F = ErrorsOf(t)
  OBVIOUS
<1>4. PICK c \in Nat : c = Cardinality(E)
  BY <1>3, ErrorsFact
<1>5. /\ DOMAIN s = 1 .. n /\ DOMAIN t = 1 .. n + 1 /\ t[n + 1] = token
      /\ \A i \in 1 .. n : t[i] = s[i]
  BY <1>1, <1>2
<1>6. F = E \cup {n + 1}
  <2>1. \A i \in 1 .. n + 1 : i \in 1 .. n \/ i = n + 1
    OBVIOUS
  <2>2. (\A i \in 1 .. n : i \in 1 .. n + 1) /\ n + 1 \in 1 .. n + 1
    OBVIOUS
  <2> QED BY <1>3, <1>5, <2>1, <2>2 DEF ErrorsOf
<1>7. /\ E \subseteq 1 .. n /\ IsFiniteSet(E)
      /\ \A i \in E : Cardinality(UpTo(E, i)) \in 1 .. c
  BY <1>2, <1>3, <1>4, ErrorsFact
<1>8. Cardinality(F) = c + 1
  <2>1. n + 1 \notin E
    BY <1>7
  <2> QED BY <1>4, <1>6, <1>7, <2>1, FS_AddElement
<1>9. Len(v) = c /\ \A i \in E : v[Cardinality(UpTo(E, i))] = SpanOf(s[i])
  BY <1>3, <1>4 DEF Reported
<1>10. SpanOf(token) \in Spans
  BY DEF SpanOf, Spans, TokenRecords
<1>11. /\ Len(w) = c + 1 /\ w[c + 1] = SpanOf(token)
       /\ \A k \in 1 .. c : w[k] = v[k]
  BY <1>1, <1>9, <1>10
<1>12. UpTo(F, n + 1) = F
  <2>1. \A i \in F : i <= n + 1
    BY <1>6, <1>7
  <2> QED BY <2>1 DEF UpTo
<1>13. \A i \in E : UpTo(F, i) = UpTo(E, i)
  <2>1. \A i \in E : ~(n + 1 <= i)
    BY <1>7
  <2> QED BY <1>6, <2>1 DEF UpTo
<1>14. ASSUME NEW i \in E PROVE w[Cardinality(UpTo(F, i))] = SpanOf(t[i])
  <2>1. t[i] = s[i]
    BY <1>5, <1>7
  <2> QED BY <1>7, <1>9, <1>11, <1>13, <2>1
<1>15. w[Cardinality(UpTo(F, n + 1))] = SpanOf(t[n + 1])
  BY <1>5, <1>8, <1>11, <1>12
<1> QED BY <1>1, <1>3, <1>6, <1>8, <1>11, <1>14, <1>15 DEF Reported
------------------------------------------------------------------------------
(* The inductive invariant: the tokens so far are the longest, in order,   *)
(* with nothing but whitespace before each of them and up to the offset.   *)

Good(token) == IsLongest(ConvertKeyword(token))
IsBlank(a, b) == \A k \in a .. b - 1 : Char(k) \in Whitespace

TextInv == text \in Texts /\ offset \in 0 .. Len(text)
SeqInv == lexed \in Seq(TokenRecords) /\ invalid \in Seq(Spans)
OrderInv ==
  /\ \A i \in 1 .. Len(lexed) :
       /\ EndBefore(lexed, i) <= lexed[i].start
       /\ lexed[i].start < lexed[i].end /\ lexed[i].end <= offset
  /\ EndBefore(lexed, Len(lexed) + 1) <= offset
BlankInv ==
  /\ \A i \in 1 .. Len(lexed) : IsBlank(EndBefore(lexed, i), lexed[i].start)
  /\ IsBlank(EndBefore(lexed, Len(lexed) + 1), offset)
GoodInv == \A token \in {lexed[i] : i \in 1 .. Len(lexed)} : Good(token)
ReportedInv == Reported(lexed, invalid)
LexerInv ==
  TextInv /\ SeqInv /\ OrderInv /\ BlankInv /\ GoodInv /\ ReportedInv

LEMMA InitLexerInv == Init => LexerInv
<1> SUFFICES ASSUME Init PROVE LexerInv
  OBVIOUS
<1>1. text \in Texts /\ offset = 0 /\ lexed = <<>> /\ invalid = <<>>
  BY DEF Init, Begin
<1>2. TextInv
  BY <1>1, TextFact DEF TextInv
<1>3. SeqInv
  BY <1>1 DEF SeqInv
<1>4. Len(lexed) = 0 /\ \A i \in 1 .. Len(lexed) : FALSE
  BY <1>1
<1>5. EndBefore(lexed, Len(lexed) + 1) = 0
  BY <1>4 DEF EndBefore
<1>6. OrderInv
  BY <1>1, <1>4, <1>5 DEF OrderInv
<1>7. BlankInv
  BY <1>1, <1>4, <1>5 DEF BlankInv, IsBlank
<1>8. GoodInv
  BY <1>4 DEF GoodInv
<1>9. ReportedInv
  <2>1. ErrorsOf(<<>>) = {}
    BY DEF ErrorsOf
  <2>2. Cardinality({}) = 0
    BY FS_EmptySet
  <2> QED BY <1>1, <2>1, <2>2 DEF ReportedInv, Reported
<1> QED BY <1>2, <1>3, <1>6, <1>7, <1>8, <1>9 DEF LexerInv

LEMMA SameText ==
  ASSUME text' = text
  PROVE  /\ \A token : Good(token)' <=> Good(token)
         /\ \A a, b : IsBlank(a, b)' <=> IsBlank(a, b)
BY DEF Good, IsLongest, ConvertKeyword, Between, IsBlank, Char

\* What is pushed is good: the invariant holds afterwards.
LEMMA PushKeepsInv ==
  ASSUME LexerInv, NEW kind \in Kinds, NEW end \in offset + 1 .. Len(text),
         Good(Token(kind, offset, end)), Push(kind, end),
         invalid' = IF kind = "error" THEN Append(invalid, SpanOf(Token(kind, offset, end)))
                    ELSE invalid
  PROVE  LexerInv'
<1> DEFINE token == Token(kind, offset, end)
<1>1. text \in Texts /\ offset \in 0 .. Len(text) /\ lexed \in Seq(TokenRecords) /\ invalid \in Seq(Spans)
  BY DEF LexerInv, TextInv, SeqInv
<1>2. PICK n \in Nat : n = Len(text)
  BY <1>1, TextFact
<1>3. PICK s, t, m : s = lexed /\ t = lexed' /\ m = Len(lexed) /\ m \in Nat
  BY <1>1
<1>4. PICK o \in Nat : o = offset
  BY <1>1, <1>2
<1>5. text' = text /\ offset' = end /\ end \in Nat /\ o < end /\ end <= n
  BY <1>2, <1>4 DEF Push
<1>6. token \in TokenRecords /\ token.start = o /\ token.end = end /\ token.kind = kind
  BY <1>4, <1>5 DEF Token, TokenRecords
<1>7. t = Append(s, token) /\ t \in Seq(TokenRecords)
  <2>1. lexed' = Append(lexed, token)
    BY DEF Push, Token
  <2>2. s \in Seq(TokenRecords)
    BY <1>1, <1>3
  <2> HIDE DEF token
  <2> QED BY <1>3, <1>6, <2>1, <2>2
<1>8. /\ Len(t) = m + 1 /\ t[m + 1] = token
      /\ \A i \in 1 .. m : t[i] = s[i]
  <2> HIDE DEF token
  <2>1. s \in Seq(TokenRecords)
    BY <1>1, <1>3
  <2> QED BY <1>3, <1>6, <1>7, <2>1
<1>9. Good(token)
  OBVIOUS
<1> HIDE DEF token
<1>10. /\ \A i \in 1 .. m : EndBefore(t, i) = EndBefore(s, i)
       /\ EndBefore(t, m + 1) = EndBefore(s, m + 1) /\ EndBefore(t, m + 2) = end
  <2>1. \A i \in 1 .. m + 1 : i = 1 \/ i - 1 \in 1 .. m
    BY <1>3
  <2>2. \A i \in 1 .. m + 1 : EndBefore(t, i) = EndBefore(s, i)
    BY <1>8, <2>1 DEF EndBefore
  <2>3. m + 2 # 1 /\ (m + 2) - 1 = m + 1 /\ m + 1 \in 1 .. m + 1 /\ \A i \in 1 .. m : i \in 1 .. m + 1
    BY <1>3
  <2>4. EndBefore(t, m + 2) = end
    BY <1>6, <1>8, <2>3 DEF EndBefore
  <2> QED BY <2>2, <2>3, <2>4
<1>11. \A i \in 1 .. m + 1 : i \in 1 .. m \/ i = m + 1
  BY <1>3
<1>12. (m + 1) + 1 = m + 2
  BY <1>3
<1>13. TextInv'
  BY <1>1, <1>2, <1>5 DEF TextInv
<1>14. SeqInv'
  <2>1. SpanOf(token) \in Spans
    BY <1>4, <1>5, <1>6 DEF SpanOf, Spans
  <2>2. invalid' \in Seq(Spans)
    BY <1>1, <2>1 DEF token
  <2> QED BY <1>3, <1>7, <2>2 DEF SeqInv
<1>15. OrderInv'
  <2>1. /\ \A i \in 1 .. m :
             /\ EndBefore(s, i) <= s[i].start
             /\ s[i].start < s[i].end /\ s[i].end <= o
        /\ EndBefore(s, m + 1) <= o
    BY <1>3, <1>4 DEF LexerInv, OrderInv
  <2>2. \A i \in 1 .. m : s[i].end \in Nat
    <3>1. s \in Seq(TokenRecords)
      BY <1>1, <1>3
    <3>2. \A i \in 1 .. m : s[i] \in TokenRecords
      BY <1>3, <3>1
    <3> QED BY <3>2 DEF TokenRecords
  <2>3. ASSUME NEW i \in 1 .. m + 1
        PROVE  /\ EndBefore(t, i) <= t[i].start
               /\ t[i].start < t[i].end /\ t[i].end <= end
    <3>1. CASE i \in 1 .. m
      <4>1. EndBefore(t, i) = EndBefore(s, i) /\ t[i] = s[i]
        BY <1>8, <1>10, <3>1
      <4>2. s[i].end <= o /\ s[i].end \in Nat
        BY <2>1, <2>2, <3>1
      <4>3. s[i].end <= end
        BY <1>5, <4>2
      <4> QED BY <2>1, <3>1, <4>1, <4>3
    <3>2. CASE i = m + 1
      BY <1>5, <1>6, <1>8, <1>10, <2>1, <3>2
    <3> QED BY <1>11, <3>1, <3>2
  <2>4. EndBefore(t, m + 2) <= end
    BY <1>5, <1>10
  <2>5. OrderInv' <=>
          /\ \A i \in 1 .. Len(t) :
               /\ EndBefore(t, i) <= t[i].start
               /\ t[i].start < t[i].end /\ t[i].end <= end
          /\ EndBefore(t, Len(t) + 1) <= end
    BY <1>3, <1>5 DEF OrderInv, EndBefore
  <2> QED BY <1>8, <1>12, <2>3, <2>4, <2>5
<1>16. BlankInv'
  <2>1. /\ \A i \in 1 .. m : IsBlank(EndBefore(s, i), s[i].start)
        /\ IsBlank(EndBefore(s, m + 1), o)
    BY <1>3, <1>4 DEF LexerInv, BlankInv
  <2>2. \A i \in 1 .. m + 1 : IsBlank(EndBefore(t, i), t[i].start)
    BY <1>6, <1>8, <1>10, <1>11, <2>1
  <2>3. IsBlank(EndBefore(t, m + 2), end)
    BY <1>5, <1>10 DEF IsBlank
  <2>4. \A a, b : IsBlank(a, b)' <=> IsBlank(a, b)
    BY <1>5, SameText
  <2>5. \A a, b : IsBlank(a, b) => IsBlank(a, b)'
    BY <2>4
  <2>6. (\A i \in 1 .. Len(t) : IsBlank(EndBefore(t, i), t[i].start)')
          /\ IsBlank(EndBefore(t, Len(t) + 1), end)'
    BY <1>8, <1>12, <2>2, <2>3, <2>5
  <2>7. t = lexed' /\ end = offset'
    BY <1>3, <1>5
  <2> QED BY <2>6, <2>7 DEF BlankInv, EndBefore, IsBlank
<1>17. GoodInv'
  <2>1. \A i \in 1 .. m : Good(s[i])
    BY <1>3 DEF LexerInv, GoodInv
  <2>2. \A i \in 1 .. Len(t) : Good(t[i])
    BY <1>8, <1>9, <1>11, <2>1
  <2>3. \A x : Good(x)' <=> Good(x)
    BY <1>5, SameText
  <2>4. \A x \in {t[i] : i \in 1 .. Len(t)} : Good(x)'
    BY <2>2, <2>3
  <2> QED BY <1>3, <2>4 DEF GoodInv
<1>18. ReportedInv'
  <2>1. s \in Seq(TokenRecords) /\ Reported(s, invalid)
    BY <1>1, <1>3 DEF LexerInv, ReportedInv
  <2>2. PICK v \in Seq(Spans) : v = invalid
    BY <1>1
  <2>3. CASE kind = "error"
    <3>1. invalid' = Append(invalid, SpanOf(token))
      BY <2>3 DEF token
    <3>2. Reported(t, Append(v, SpanOf(token)))
      BY <1>6, <1>7, <2>1, <2>2, <2>3, ErrorReported
    <3> QED BY <1>3, <2>2, <3>1, <3>2 DEF ReportedInv
  <2>4. CASE kind # "error"
    <3>1. invalid' = invalid
      BY <2>4
    <3>2. Reported(t, invalid)
      BY <1>6, <1>7, <2>1, <2>4, TokenReported
    <3> QED BY <1>3, <3>1, <3>2 DEF ReportedInv
  <2> QED BY <2>3, <2>4
<1> QED BY <1>13, <1>14, <1>15, <1>16, <1>17, <1>18 DEF LexerInv

LEMMA NextKeepsInv == LexerInv /\ [Next]_vars => LexerInv'
<1> SUFFICES ASSUME LexerInv, [Next]_vars PROVE LexerInv'
  OBVIOUS
<1>1. text \in Texts /\ offset \in 0 .. Len(text)
  BY DEF LexerInv, TextInv
<1>2. PICK n \in Nat : n = Len(text)
  BY <1>1, TextFact
<1>3. /\ {"number", "identifier", "error"} \subseteq Kinds /\ OneCharTokens \subseteq Kinds
      /\ \A token \in TwoCharTokens : token.kind \in Kinds /\ token.kind # "error"
  BY DEF Kinds, TwoCharTokens, Lexeme
<1>4. CASE SkipWhitespace
  <2>1. /\ offset' = offset + 1 /\ Char(offset) \in Whitespace
        /\ text' = text /\ lexed' = lexed /\ invalid' = invalid
    BY <1>4 DEF SkipWhitespace
  <2>2. PICK o, s : o = offset /\ s = lexed
    OBVIOUS
  <2>3. o \in Nat /\ o + 1 <= n
    <3>1. Char(o) # Nul
      BY <2>1, <2>2, ClassesAssumption
    <3>2. o # n /\ o \in 0 .. n
      BY <1>1, <1>2, <2>2, <3>1, CharFact
    <3> QED BY <1>2, <3>2
  <2>4. TextInv' /\ SeqInv' /\ ReportedInv'
    <3>1. TextInv'
      BY <1>1, <1>2, <2>1, <2>2, <2>3 DEF TextInv
    <3> QED BY <2>1, <3>1 DEF LexerInv, SeqInv, ReportedInv
  <2>5. PICK m \in Nat : m = Len(s)
    BY <2>2 DEF LexerInv, SeqInv
  <2>6. /\ \A i \in 1 .. m : s[i].end \in Nat
        /\ EndBefore(s, m + 1) \in Nat
    <3>1. s \in Seq(TokenRecords)
      BY <2>2 DEF LexerInv, SeqInv
    <3>2. \A i \in 1 .. m : s[i] \in TokenRecords
      BY <2>5, <3>1
    <3>3. m + 1 = 1 \/ (m + 1) - 1 \in 1 .. m
      BY <2>5
    <3> QED BY <3>2, <3>3 DEF TokenRecords, EndBefore
  <2>7. OrderInv'
    <3>1. /\ \A i \in 1 .. m :
               /\ EndBefore(s, i) <= s[i].start
               /\ s[i].start < s[i].end /\ s[i].end <= o
          /\ EndBefore(s, m + 1) <= o
      BY <2>2, <2>5 DEF LexerInv, OrderInv
    <3>2. \A x \in Nat : x <= o => x <= o + 1
      BY <2>3
    <3>3. /\ \A i \in 1 .. m :
               /\ EndBefore(s, i) <= s[i].start
               /\ s[i].start < s[i].end /\ s[i].end <= o + 1
          /\ EndBefore(s, m + 1) <= o + 1
      BY <2>6, <3>1, <3>2
    <3>4. lexed' = s /\ offset' = o + 1
      BY <2>1, <2>2
    <3> QED BY <2>5, <3>3, <3>4 DEF OrderInv, EndBefore
  <2>8. BlankInv'
    <3>1. /\ \A i \in 1 .. m : IsBlank(EndBefore(s, i), s[i].start)
          /\ IsBlank(EndBefore(s, m + 1), o)
      BY <2>2, <2>5 DEF LexerInv, BlankInv
    <3>2. IsBlank(EndBefore(s, m + 1), o + 1)
      <4>1. PICK a \in Nat : a = EndBefore(s, m + 1)
        BY <2>6
      <4>2. \A k \in a .. (o + 1) - 1 : k = o \/ k \in a .. o - 1
        BY <2>3, <4>1
      <4> QED BY <2>1, <2>2, <3>1, <4>1, <4>2 DEF IsBlank
    <3>3. \A a, b : IsBlank(a, b) => IsBlank(a, b)'
      BY <2>1, SameText
    <3>4. (\A i \in 1 .. m : IsBlank(EndBefore(s, i), s[i].start)')
            /\ IsBlank(EndBefore(s, m + 1), o + 1)'
      BY <3>1, <3>2, <3>3
    <3>5. lexed' = s /\ offset' = o + 1
      BY <2>1, <2>2
    <3> QED BY <2>5, <3>4, <3>5 DEF BlankInv, EndBefore, IsBlank
  <2>9. GoodInv'
    <3>1. \A x : Good(x)' <=> Good(x)
      BY <2>1, SameText
    <3> QED BY <2>1, <3>1 DEF LexerInv, GoodInv
  <2> QED BY <2>4, <2>7, <2>8, <2>9 DEF LexerInv
<1>5. CASE Number
  <2>1. PICK end : end = RunEnd(Digits)
    OBVIOUS
  <2>2. Push("number", end) /\ invalid' = invalid /\ Char(offset) \in Digits
    BY <1>5, <2>1 DEF Number
  <2>3. end \in offset + 1 .. Len(text) /\ Good(Token("number", offset, end))
    BY <1>1, <2>1, <2>2, NumberIsLongest DEF Good
  <2> QED BY <1>3, <2>2, <2>3, PushKeepsInv
<1>6. CASE Identifier
  <2>1. PICK end : end = RunEnd(Letters \cup Digits)
    OBVIOUS
  <2>2. Push("identifier", end) /\ invalid' = invalid /\ Char(offset) \in Letters
    BY <1>6, <2>1 DEF Identifier
  <2>3. end \in offset + 1 .. Len(text) /\ Good(Token("identifier", offset, end))
    BY <1>1, <2>1, <2>2, WordIsLongest DEF Good
  <2> QED BY <1>3, <2>2, <2>3, PushKeepsInv
<1>7. CASE TwoChars
  <2>1. PICK token \in TwoCharTokens :
          AtTwoChars(token) /\ Push(token.kind, offset + 2) /\ invalid' = invalid
    BY <1>7 DEF TwoChars
  <2>2. PICK end, kind : end = offset + 2 /\ kind = token.kind
    OBVIOUS
  <2>3. end \in offset + 1 .. Len(text)
    BY <1>1, <1>2, <2>1, <2>2, TwoCharsAt
  <2>4. Good(Token(kind, offset, end))
    BY <1>1, <2>1, <2>2, TwoCharsIsLongest DEF Good
  <2>5. Push(kind, end) /\ kind \in Kinds /\ kind # "error"
    BY <1>3, <2>1, <2>2
  <2> QED BY <2>1, <2>3, <2>4, <2>5, PushKeepsInv
<1>8. CASE OneChar
  <2>1. /\ \A token \in TwoCharTokens : ~AtTwoChars(token)
        /\ Char(offset) \in OneCharTokens /\ Push(Char(offset), offset + 1) /\ invalid' = invalid
    BY <1>8 DEF OneChar
  <2>2. PICK end, kind : end = offset + 1 /\ kind = Char(offset)
    OBVIOUS
  <2>3. end \in offset + 1 .. Len(text)
    BY <1>1, <1>2, <2>1, <2>2, OneCharIsLongest
  <2>4. Good(Token(kind, offset, end))
    BY <1>1, <2>1, <2>2, OneCharIsLongest DEF Good
  <2>5. Push(kind, end) /\ kind \in Kinds /\ kind # "error"
    BY <1>3, <2>1, <2>2 DEF OneCharTokens
  <2> QED BY <2>1, <2>3, <2>4, <2>5, PushKeepsInv
<1>9. CASE Invalid
  <2>1. /\ \A token \in TwoCharTokens : ~AtTwoChars(token)
        /\ Char(offset) \notin Letters \cup Digits \cup OneCharTokens \cup {Nul}
        /\ Push("error", offset + 1)
        /\ invalid' = Append(invalid, [start |-> offset, end |-> offset + 1])
    BY <1>9 DEF Invalid
  <2>2. PICK end : end = offset + 1
    OBVIOUS
  <2>3. end \in offset + 1 .. Len(text)
    BY <1>1, <1>2, <2>1, <2>2, InvalidIsLongest
  <2>4. Good(Token("error", offset, end))
    BY <1>1, <2>1, <2>2, InvalidIsLongest DEF Good
  <2>5. SpanOf(Token("error", offset, end)) = [start |-> offset, end |-> end]
    BY DEF SpanOf, Token
  <2> QED BY <1>3, <2>1, <2>2, <2>3, <2>4, <2>5, PushKeepsInv
<1>10. CASE UNCHANGED vars
  <2>1. text' = text /\ offset' = offset /\ lexed' = lexed /\ invalid' = invalid
    BY <1>10 DEF vars
  <2>2. \A x : Good(x)' <=> Good(x)
    BY <2>1, SameText
  <2>3. GoodInv'
    BY <2>1, <2>2 DEF LexerInv, GoodInv
  <2> QED BY <2>1, <2>3 DEF LexerInv, TextInv, SeqInv, OrderInv, BlankInv, ReportedInv,
                            IsBlank, Char
<1> QED BY <1>4, <1>5, <1>6, <1>7, <1>8, <1>9, <1>10 DEF Next

LEMMA InvTellsTokens == LexerInv => TokensAreLongestLexemes
<1> SUFFICES ASSUME LexerInv, AtEnd PROVE TokensAreLongestLexemes
  BY DEF TokensAreLongestLexemes
<1>1. text \in Texts /\ offset \in 0 .. Len(text) /\ lexed \in Seq(TokenRecords)
  BY DEF LexerInv, TextInv, SeqInv
<1>2. PICK n \in Nat : n = Len(text)
  BY <1>1, TextFact
<1>3. PICK m \in Nat : m = Len(lexed)
  BY <1>1
<1>4. offset = n /\ DOMAIN lexed = 1 .. m
  BY <1>1, <1>2, <1>3, CharFact DEF AtEnd
<1>5. \A i \in 1 .. m : lexed[i].start \in Nat /\ lexed[i].end \in Nat
  <2>1. \A i \in 1 .. m : lexed[i] \in TokenRecords
    BY <1>1, <1>3
  <2> QED BY <2>1 DEF TokenRecords
<1> DEFINE StartAt(i) == IF i > Len(lexed) THEN Len(text) ELSE lexed[i].start
           gap(i) == Between(IF i = 1 THEN 0 ELSE lexed[i - 1].end, StartAt(i))
           errors == {i \in DOMAIN lexed : lexed[i].kind = "error"}
<1>6. \A i \in DOMAIN Tokens : IsLongest(Tokens[i])
  BY <1>3, <1>4 DEF LexerInv, GoodInv, Good, Tokens
<1>7. ASSUME NEW i \in 1 .. m + 1
      PROVE  /\ EndBefore(lexed, i) \in Nat /\ StartAt(i) \in Nat
             /\ EndBefore(lexed, i) <= StartAt(i) /\ StartAt(i) <= n
             /\ IsBlank(EndBefore(lexed, i), StartAt(i))
  <2>1. EndBefore(lexed, i) \in Nat
    <3>1. i = 1 \/ i - 1 \in 1 .. m
      BY <1>3
    <3> QED BY <1>5, <3>1 DEF EndBefore
  <2>2. CASE i = m + 1
    <3>1. StartAt(i) = n
      BY <1>2, <1>3, <2>2
    <3> HIDE DEF StartAt
    <3> QED BY <1>2, <1>3, <1>4, <2>1, <2>2, <3>1 DEF LexerInv, OrderInv, BlankInv
  <2>3. CASE i # m + 1
    <3>1. i \in 1 .. m /\ ~(i > m)
      BY <1>3, <2>3
    <3>2. StartAt(i) = lexed[i].start
      BY <1>3, <3>1
    <3> HIDE DEF StartAt
    <3>3. /\ EndBefore(lexed, i) <= lexed[i].start /\ lexed[i].start < lexed[i].end
          /\ lexed[i].end <= n /\ IsBlank(EndBefore(lexed, i), lexed[i].start)
      BY <1>3, <1>4, <3>1 DEF LexerInv, OrderInv, BlankInv
    <3>4. PICK a, b \in Nat : a = lexed[i].start /\ b = lexed[i].end
      BY <1>5, <3>1
    <3>5. a <= n
      BY <1>2, <3>3, <3>4
    <3> QED BY <2>1, <3>2, <3>3, <3>4, <3>5
  <2> QED BY <2>2, <2>3
<1>8. ASSUME NEW i \in 1 .. m + 1
      PROVE  \A k \in DOMAIN gap(i) : gap(i)[k] \in Whitespace
  <2>1. PICK a, b \in Nat : a = EndBefore(lexed, i) /\ b = StartAt(i)
    BY <1>7
  <2>2. a <= b /\ b <= n /\ IsBlank(a, b)
    BY <1>7, <2>1
  <2>3. gap(i) = Between(a, b)
    BY <2>1 DEF EndBefore
  <2>4. /\ DOMAIN Between(a, b) = 1 .. b - a
        /\ \A k \in 1 .. b - a : Between(a, b)[k] = text[a + k]
    BY <1>1, <1>2, <2>1, <2>2, BetweenFact
  <2>5. ASSUME NEW k \in 1 .. b - a PROVE text[a + k] \in Whitespace
    <3>1. a + k - 1 \in a .. b - 1 /\ a + k - 1 < n /\ (a + k - 1) + 1 = a + k
      BY <1>2, <2>1, <2>2
    <3>2. Char(a + k - 1) \in Whitespace
      BY <2>2, <3>1 DEF IsBlank
    <3> QED BY <1>2, <3>1, <3>2 DEF Char
  <2> HIDE DEF gap
  <2> QED BY <2>3, <2>4, <2>5
<1>9. /\ Len(invalid) = Cardinality(errors)
      /\ \A i \in errors : invalid[Cardinality({j \in errors : j <= i})] =
                             [start |-> lexed[i].start, end |-> lexed[i].end]
  <2>1. errors = ErrorsOf(lexed)
    BY DEF ErrorsOf
  <2>2. \A i : {j \in errors : j <= i} = UpTo(errors, i)
    BY DEF UpTo
  <2> HIDE DEF errors
  <2> QED BY <2>1, <2>2 DEF LexerInv, ReportedInv, Reported, SpanOf
<1>10. \A i \in 1 .. Len(lexed) + 1 : \A k \in DOMAIN gap(i) : gap(i)[k] \in Whitespace
  BY <1>3, <1>8
<1> QED BY <1>6, <1>9, <1>10, Zenon DEF TokensAreLongestLexemes

(* The tokens of every text are the longest lexemes there are, from left to *)
(* right; only whitespace is left out between them; and exactly what begins *)
(* no lexeme is reported, in order (lex.c:91-153).                          *)
THEOREM LexerFindsLongestLexemes == Spec => []TokensAreLongestLexemes
<1>1. Spec => []LexerInv
  BY InitLexerInv, NextKeepsInv, PTL DEF Spec
<1> QED BY <1>1, InvTellsTokens, PTL
==============================================================================
