------------------------------- MODULE Grammar -------------------------------
(***************************************************************************)
(* The language minic's parser recognises, as a grammar instead of a       *)
(* parser: the programs of up to MaxLength tokens, each with its syntax    *)
(* tree.  Precedence and associativity are levels of the grammar, built    *)
(* up by length, and no lookahead or recovery plays a part.                *)
(***************************************************************************)
EXTENDS Integers, Sequences, SequencesExt

CONSTANTS
  MaxLength,   \* the longest program, in tokens
  Tokens       \* the tokens function bodies are made of

ComparisonOperators == {"==", "!=", "<", "<=", ">", ">="}
SumOperators == {"+", "-"}
ProductOperators == {"*", "/"}
PrefixOperators == {"&", "*"}
Leaves == {"number", "identifier"}

\* Whether the tokens around a phrase are among Tokens.
Uses(text) == ToSet(text) \subseteq Tokens

\* A phrase: its tokens and its tree.
Phrase(text, tree) == [text |-> text, tree |-> tree]

\* Two phrases with tokens before, between and after them.
Join(before, xs, between, ys, after, kind) ==
  IF Uses(before \o between \o after)
  THEN {Phrase(before \o x.text \o between \o y.text \o after, <<kind, x.tree, y.tree>>) :
          x \in xs, y \in ys}
  ELSE {}

Wrap(before, xs, after) ==
  IF Uses(before \o after) THEN {Phrase(before \o x.text \o after, x.tree) : x \in xs} ELSE {}

Tag(kind, xs) == {Phrase(x.text, <<kind, x.tree>>) : x \in xs}

\* A list extended at the front.
Prepend(xs, between, lists) ==
  {Phrase(x.text \o between \o l.text, <<x.tree>> \o l.tree) : x \in xs, l \in lists}

NoPhrase == {}
EmptyList == {Phrase(<<>>, <<>>)}

\* The phrases of length n, of every category, from the shorter ones:
\* shorter[k + 1] holds those of length k.
Longer(shorter, n) ==
  LET
    Of(category, k) == IF k < 0 \/ k >= n THEN NoPhrase ELSE shorter[k + 1][category]
    \* left-associative: operand of the next level on the right
    Left(category, next, operators) ==
      UNION {Join(<<>>, Of(category, k), <<o>>, Of(next, n - 1 - k), <<>>, o) :
               k \in 1 .. n - 2, o \in operators}
    Two(first, before, between, second, after, kind) ==
      LET len == n - Len(before) - Len(between) - Len(after)
      IN  UNION {Join(before, Of(first, k), between, Of(second, len - k), after, kind) :
                   k \in 0 .. len}
    \* func, a name and a keyword at least come before an expression
    Fit(phrases) == IF n <= MaxLength - 3 THEN phrases ELSE NoPhrase
    primary == Fit(
      (IF n = 1 THEN {Phrase(<<l>>, <<l>>) : l \in Leaves \cap Tokens} ELSE NoPhrase)
        \cup Wrap(<<"(">>, Of("comparison", n - 2), <<")">>)
        \cup Tag("array_literal", Wrap(<<"[">>, Of("elements", n - 2), <<"]">>)))
    postfix ==
      primary \cup Fit(Two("postfix", <<>>, <<"[">>, "comparison", <<"]">>, "index"))
    prefix ==
      postfix \cup
        Fit(UNION {Tag(o, Wrap(<<o>>, Of("prefix", n - 1), <<>>)) : o \in PrefixOperators})
    product == prefix \cup Fit(Left("product", "prefix", ProductOperators))
    sum == product \cup Fit(Left("sum", "product", SumOperators))
    comparison == sum \cup Fit(Left("comparison", "sum", ComparisonOperators))
    \* separated by commas, the last of which may be followed by one more
    elements == Fit(
      IF n = 0 THEN EmptyList
      ELSE Prepend(comparison, <<>>, EmptyList) \cup
           UNION {Prepend(Of("comparison", k), <<",">>, Of("elements", n - 1 - k)) :
                    k \in 1 .. n - 1})
    block == Tag("block", Wrap(<<"{">>, Of("statements", n - 2), <<"}">>))
    conditional == Two("comparison", <<"if">>, <<>>, "block", <<>>, "if")
    statement ==
      block \cup conditional
        \cup Tag("return", Wrap(<<"return">>, Of("comparison", n - 1), <<>>))
        \cup Tag("local_definition", Wrap(<<"identifier", ":=">>, Of("comparison", n - 2), <<>>))
        \cup Two("comparison", <<"set">>, <<"=">>, "comparison", <<>>, "assign")
        \cup Two("comparison", <<"while">>, <<>>, "block", <<>>, "while")
        \cup UNION {{Phrase(c.text \o <<"else">> \o b.text, Append(c.tree, b.tree)) :
                       c \in Of("conditional", k), b \in Of("block", n - 1 - k)} :
                      k \in 0 .. n - 1}
    statements ==
      IF n = 0 THEN EmptyList
      ELSE Prepend(statement, <<>>, EmptyList) \cup
           UNION {Prepend(Of("statement", k), <<>>, Of("statements", n - k)) : k \in 1 .. n - 1}
    function(k) ==
      {Phrase(<<"func", "identifier">> \o s.text, s.tree) : s \in Of("statement", k - 2)}
    program ==
      IF n = 0 THEN EmptyList
      ELSE UNION {Prepend(function(k), <<>>, Of("program", n - k)) : k \in 3 .. n}
  IN
    [postfix |-> postfix, prefix |-> prefix, product |-> product, sum |-> sum,
     comparison |-> comparison, elements |-> elements, block |-> block,
     conditional |-> conditional, statement |-> statement, statements |-> statements,
     program |-> program]

ByLength ==
  FoldLeft(LAMBDA shorter, n : Append(shorter, Longer(shorter, n)),
           <<>>, [i \in 1 .. MaxLength + 1 |-> i - 1])

Programs == UNION {ByLength[n].program : n \in DOMAIN ByLength}
==============================================================================
