--------------------------------- MODULE Lexer ---------------------------------
(***************************************************************************)
(* lex.c: a text becomes a sequence of tokens, one turn of the loop a      *)
(* step.  Offsets count from 0, as in the code.                            *)
(***************************************************************************)
EXTENDS Lexemes, FiniteSets

VARIABLES
  text,    \* input
  offset,  \* i
  lexed,   \* the tokens pushed: records of kind, start and end
  invalid  \* the spans of the diagnostics recorded

vars == <<text, offset, lexed, invalid>>

Char(i) == IF i < Len(text) THEN text[i + 1] ELSE Nul
Between(start, end) == SubSeq(text, start + 1, end)

\* Where a run of characters of a class ends.
RunEnd(class) ==
  CHOOSE e \in offset .. Len(text) :
    Char(e) \notin class /\ \A i \in offset .. e - 1 : Char(i) \in class

Push(kind, end) ==
  /\ lexed' = Append(lexed, [kind |-> kind, start |-> offset, end |-> end])
  /\ offset' = end
  /\ UNCHANGED text
------------------------------------------------------------------------------
\* lex(), of a text.
Begin == offset = 0 /\ lexed = <<>> /\ invalid = <<>>
Init == text \in Texts /\ Begin

SkipWhitespace ==
  /\ Char(offset) \in Whitespace
  /\ offset' = offset + 1
  /\ UNCHANGED <<text, lexed, invalid>>

Number == Char(offset) \in Digits /\ Push("number", RunEnd(Digits)) /\ UNCHANGED invalid

\* Mutant: digits end an identifier.
IdentifierOfLetters ==
  /\ Char(offset) \in Letters
  /\ Push("identifier", RunEnd(Letters))
  /\ UNCHANGED invalid

Identifier ==
  /\ Char(offset) \in Letters
  /\ Push("identifier", RunEnd(Letters \cup Digits))
  /\ UNCHANGED invalid

AtTwoChars(token) == token.chars = <<Char(offset), Char(offset + 1)>>

TwoChars ==
  \E token \in TwoCharTokens :
    AtTwoChars(token) /\ Push(token.kind, offset + 2) /\ UNCHANGED invalid

OneChar ==
  /\ \A token \in TwoCharTokens : ~AtTwoChars(token)
  /\ Char(offset) \in OneCharTokens
  /\ Push(Char(offset), offset + 1)
  /\ UNCHANGED invalid

Invalid ==
  /\ Char(offset) \notin Whitespace \cup Letters \cup Digits \cup OneCharTokens \cup {Nul}
  /\ \A token \in TwoCharTokens : ~AtTwoChars(token)
  /\ Push("error", offset + 1)
  /\ invalid' = Append(invalid, [start |-> offset, end |-> offset + 1])

Next == SkipWhitespace \/ Number \/ Identifier \/ TwoChars \/ OneChar \/ Invalid

Spec == Init /\ [][Next]_vars

AtEnd == Char(offset) = Nul

\* convertKeywords(), when the end has been reached.
ConvertKeyword(token) ==
  LET matching == {k \in Keywords : k.chars = Between(token.start, token.end)}
  IN  IF token.kind = "identifier" /\ matching # {}
      THEN [token EXCEPT !.kind = (CHOOSE k \in matching : TRUE).kind]
      ELSE token
Tokens == [i \in DOMAIN lexed |-> ConvertKeyword(lexed[i])]
------------------------------------------------------------------------------
(* Properties.                                                             *)

\* What a piece of text is, by itself.
KindsOf(s) ==
  LET of(class) == s # <<>> /\ \A i \in DOMAIN s : s[i] \in class
      word == of(Letters \cup Digits) /\ s[1] \in Letters
      table == {k.kind : k \in {l \in Keywords \cup TwoCharTokens : l.chars = s}}
  IN  IF table # {} THEN table
      ELSE {k \in OneCharTokens : s = <<k>>}
             \cup (IF word THEN {"identifier"} ELSE {})
             \cup (IF of(Digits) THEN {"number"} ELSE {})

\* The kind of the token that ends at e, and that it is the longest.
IsLongest(token) ==
  LET lexemes == {e \in token.start + 1 .. Len(text) : KindsOf(Between(token.start, e)) # {}}
  IN  IF lexemes = {} THEN token.kind = "error" /\ token.end = token.start + 1
      ELSE /\ token.end \in lexemes
           /\ \A e \in lexemes : e <= token.end
           /\ KindsOf(Between(token.start, token.end)) = {token.kind}

(* The tokens are the longest that there are, from left to right: "<=" is  *)
(* not "<" and "=", and func_ is no keyword; nothing but whitespace is left*)
(* out between them; and what is no token is reported, once (lex.c:91-153).*)
TokensAreLongestLexemes ==
  AtEnd =>
    LET gap(i) == Between(IF i = 1 THEN 0 ELSE lexed[i - 1].end,
                          IF i > Len(lexed) THEN Len(text) ELSE lexed[i].start)
        errors == {i \in DOMAIN lexed : lexed[i].kind = "error"}
    IN  /\ \A i \in DOMAIN Tokens : IsLongest(Tokens[i])
        /\ \A i \in 1 .. Len(lexed) + 1 : \A k \in DOMAIN gap(i) : gap(i)[k] \in Whitespace
        /\ Len(invalid) = Cardinality(errors)
        /\ \A i \in errors : invalid[Cardinality({j \in errors : j <= i})] =
                               [start |-> lexed[i].start, end |-> lexed[i].end]
==============================================================================
