-------------------------------- MODULE Lexemes --------------------------------
(***************************************************************************)
(* The tables at the top of lex.c, and the characters it tells apart.  A   *)
(* text is a sequence of characters, of which those that letters, digits   *)
(* and spaces are for are given by the classes they belong to.             *)
(***************************************************************************)
EXTENDS Integers, Sequences

CONSTANTS
  Texts,      \* what may be in a file
  Letters,    \* what isIdentifierFirst() accepts: a set of characters
  Digits,     \* what isDigit() accepts
  Whitespace  \* space, tab and newline

Lexeme(chars, kind) == [chars |-> chars, kind |-> kind]
Keywords ==
  {Lexeme(<<"f", "u", "n", "c">>, "func"), Lexeme(<<"r", "e", "t", "u", "r", "n">>, "return"),
   Lexeme(<<"v", "a", "r">>, "var"), Lexeme(<<"s", "e", "t">>, "set"), Lexeme(<<"i", "f">>, "if"),
   Lexeme(<<"e", "l", "s", "e">>, "else"), Lexeme(<<"w", "h", "i", "l", "e">>, "while")}
TwoCharTokens ==
  {Lexeme(<<"=", "=">>, "=="), Lexeme(<<"!", "=">>, "!="), Lexeme(<<"<", "=">>, "<="),
   Lexeme(<<">", "=">>, ">="), Lexeme(<<":", "=">>, ":=")}
OneCharTokens ==
  {"=", "+", "-", "*", "/", "{", "}", "(", ")", "[", "]", "<", ">", ":", ";", "&", ","}

Nul == "nul"

\* The classes are those of ASCII; a C string has no zero byte in it.
ASSUME ClassesAssumption ==
  /\ Letters \cap Digits = {} /\ (Letters \cup Digits) \cap Whitespace = {}
  /\ (Letters \cup Digits \cup Whitespace) \cap (OneCharTokens \cup {"!", Nul}) = {}
  /\ \A k \in Keywords : \A i \in DOMAIN k.chars : k.chars[i] \in Letters
ASSUME TextsAssumption ==
  \A t \in Texts : t \in Seq({t[i] : i \in DOMAIN t} \ {Nul})
================================================================================
