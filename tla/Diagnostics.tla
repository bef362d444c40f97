------------------------------ MODULE Diagnostics ------------------------------
(***************************************************************************)
(* diagnostics.c: how a diagnostic is shown, with its line and the marks   *)
(* under it.  Texts are sequences of characters, offsets count from 0, and *)
(* the span of a diagnostic is the offsets start .. end - 1.               *)
(***************************************************************************)
EXTENDS Integers, Sequences, FiniteSets, FiniteSetsExt

CONSTANTS Newline, Tab, Space

Newlines(text) == {j \in 0 .. Len(text) - 1 : text[j + 1] = Newline}

\* offsetToLineColumn(): the assertion, and the line and the column.
InText(offset, text) == offset <= Len(text)
LineColumn(offset, text) ==
  LET before == {j \in Newlines(text) : j < offset}
  IN  [line |-> Cardinality(before),
       column |-> offset - (IF before = {} THEN 0 ELSE Max(before) + 1)]

\* The first newline that ends the lines of a span, if there is one: the end
\* of a span is a u32, so 1 less than 0 is more than any offset.
Ends(span, text) == {j \in Newlines(text) : span.end > 0 /\ j >= span.end - 1}
LineEnd(span, text) == IF Ends(span, text) = {} THEN 0 ELSE Min(Ends(span, text))

\* Those the loop comes to before the start of the span: it stops at the first
\* one that ends the span, which may end before it starts.
NewlinesBefore(span, text) ==
  {j \in Newlines(text) : j < span.start /\ \A k \in Ends(span, text) : j <= k}

\* Mutant: the newline is shown as well.
LineStartAtNewline(span, text) ==
  LET before == NewlinesBefore(span, text) IN IF before = {} THEN 0 ELSE Max(before)

LineStart(span, text) ==
  LET before == NewlinesBefore(span, text) IN IF before = {} THEN 0 ELSE Max(before) + 1

\* The precision of %.*s is an int: below zero, it does not count.
ShownText(span, text) ==
  LET from == LineStart(span, text)
      to == LineEnd(span, text)
  IN  SubSeq(text, from + 1, IF to < from THEN Len(text) ELSE to)

\* A mark for every character up to the newline and for the newline itself.
Marks(span, text) ==
  LET from == LineStart(span, text)
      mark(j) == IF j = span.start THEN "^"
                 ELSE IF j > span.start /\ j < span.end THEN "~"
                 ELSE IF j < Len(text) /\ text[j + 1] = Tab THEN Tab ELSE Space
  IN  [i \in 1 .. LineEnd(span, text) + 1 - from |-> mark(from + i - 1)]

Shown(span, text) ==
  [at |-> LineColumn(span.start, text), text |-> ShownText(span, text),
   marks |-> Marks(span, text)]
------------------------------------------------------------------------------
\* The lines of a text that end with a newline, the first one at 0.
Line(n, text) ==
  LET starts == {0} \cup {j + 1 : j \in Newlines(text)}
      from == CHOOSE s \in starts : Cardinality({t \in starts : t < s}) = n
  IN  SubSeq(text, from + 1, Min({j \in Newlines(text) : j >= from}))

\* No newline is inside a span.
OnOneLine(span, text) == \A j \in Newlines(text) : ~(span.start <= j /\ j < span.end - 1)

(* What is shown of a diagnostic whose line has an end: the line it is on, *)
(* with the first mark under its first character and marks under all.      *)
ShowsItsLine(span, text) ==
  LET shown == Shown(span, text)
      column == shown.at.column
  IN  /\ shown.text = Line(shown.at.line, text)
      /\ {i \in DOMAIN shown.marks : shown.marks[i] = "^"} = {column + 1}
      /\ {i \in DOMAIN shown.marks : shown.marks[i] = "~"} =
           column + 2 .. column + span.end - span.start
      /\ \A i \in DOMAIN shown.text : shown.text[i] = Tab =>
           i - 1 \in column .. column + span.end - span.start - 1 \/ shown.marks[i] = Tab
==============================================================================
