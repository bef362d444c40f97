----------------------------- MODULE ProcessProofs -----------------------------
(***************************************************************************)
(* Proofs about the process, for every set of files: that a diagnostic is *)
(* shown with its line, that runTests() judges the tests, and that every   *)
(* pass is given what it takes for granted, whatever the files say.        *)
(***************************************************************************)
EXTENDS Driver, ParserAstProofs, FunctionTheorems, WellFoundedInduction

LXP == INSTANCE LexerProofs

LEMMA LeastNumber ==
  ASSUME NEW M \in SUBSET Nat, M # {}
  PROVE  \E m \in M : \A k \in M : m <= k
<1>1. PICK m \in M : \A k \in M : ~(<<k, m>> \in OpToRel(<, Nat))
  BY WFMin, NatLessThanWellFounded
<1>2. ASSUME NEW k \in M, k < m PROVE FALSE
  <2>1. <<k, m>> \in OpToRel(<, Nat)
    BY <1>2 DEF OpToRel
  <2> QED BY <1>1, <2>1
<1>3. \A k \in M : m <= k
  <2>1. \A k \in M : ~(k < m) /\ k \in Nat /\ m \in Nat
    BY <1>2
  <2> QED BY <2>1
<1> QED BY <1>3

LEMMA MinOfNaturals ==
  ASSUME NEW M \in SUBSET Nat, M # {}
  PROVE  D!Min(M) \in M /\ \A m \in M : D!Min(M) <= m
BY LeastNumber, Zenon DEF D!Min

LEMMA MaxBelow ==
  ASSUME NEW M \in SUBSET Nat, M # {}, NEW n \in Nat, \A m \in M : m <= n
  PROVE  D!Max(M) \in M /\ \A m \in M : m <= D!Max(M)
<1> DEFINE R == {n - m : m \in M}
<1>1. R \in SUBSET Nat
  <2>1. ASSUME NEW m \in M PROVE n - m \in Nat
    BY m \in Nat, m <= n
  <2> QED BY <2>1
<1>2. R # {}
  OBVIOUS
<1>3. PICK r \in R : \A k \in R : r <= k
  <2> HIDE DEF R
  <2> QED BY <1>1, <1>2, MinOfNaturals
<1>4. PICK m \in M : r = n - m
  BY <1>3
<1>5. ASSUME NEW k \in M PROVE m >= k
  <2>1. n - k \in R
    OBVIOUS
  <2>2. r <= n - k
    BY <2>1, <1>3
  <2> QED BY <2>2, <1>4, m \in Nat, k \in Nat
<1>6. m \in M /\ \A y \in M : m >= y
  BY <1>5
<1>7. D!Max(M) \in M /\ \A y \in M : D!Max(M) >= y
  BY <1>6, Zenon DEF D!Max
<1> QED
  <2>1. D!Max(M) \in Nat
    BY <1>7
  <2> QED BY <1>7, <2>1

LEMMA SameCardinality == \A M : D!Cardinality(M) = Cardinality(M)
BY DEF D!Cardinality, Cardinality, D!IsFiniteSet, IsFiniteSet

--------------------------------------------------------------------------------
(* The line of a span.                                                     *)

LEMMA NewlinesAreOffsets ==
  ASSUME NEW S, NEW content \in Seq(S)
  PROVE  /\ Len(content) \in Nat
         /\ D!Newlines(content) \in SUBSET Nat
         /\ \A j \in D!Newlines(content) : j < Len(content)
<1>1. PICK n \in Nat : n = Len(content)
  OBVIOUS
<1> QED BY <1>1 DEF D!Newlines

\* The loop comes to all newlines before a span that starts before it ends.
LEMMA ComesToAll ==
  ASSUME NEW S, NEW content \in Seq(S), NEW span, span.start \in Nat, span.end \in Nat,
         span.start < span.end
  PROVE  D!NewlinesBefore(span, content) = {j \in D!Newlines(content) : j < span.start}
<1>1. ASSUME NEW j \in D!Newlines(content), j < span.start, NEW k \in D!Ends(span, content)
      PROVE  j <= k
  <2>1. j \in Nat /\ k \in Nat /\ k >= span.end - 1
    BY NewlinesAreOffsets DEF D!Ends
  <2> QED BY <2>1, <1>1
<1> QED BY <1>1 DEF D!NewlinesBefore

\* Where the line of a span starts: no newline is between there and the span.
LEMMA StartOfLine ==
  ASSUME NEW S, NEW content \in Seq(S), NEW span, span.start \in Nat, span.end \in Nat,
         span.start < span.end
  PROVE  /\ D!LineStart(span, content) \in Nat
         /\ D!LineStart(span, content) <= span.start
         /\ D!LineStart(span, content) = 0 \/ D!LineStart(span, content) - 1 \in D!Newlines(content)
         /\ \A j \in D!Newlines(content) : j < span.start <=> j < D!LineStart(span, content)
<1> DEFINE before == {j \in D!Newlines(content) : j < span.start}
<1>1. before \in SUBSET Nat /\ \A j \in before : j <= span.start
  BY NewlinesAreOffsets
<1>2. CASE before = {}
  <2>1. D!LineStart(span, content) = 0
    BY <1>2, ComesToAll DEF D!LineStart
  <2> QED BY <2>1, <1>2, NewlinesAreOffsets
<1>3. CASE before # {}
  <2>1. PICK m : m = D!Max(before)
    OBVIOUS
  <2>2. D!LineStart(span, content) = m + 1
    BY <1>3, <2>1, ComesToAll DEF D!LineStart
  <2>3. m \in before /\ \A j \in before : j <= m
    <3> HIDE DEF before
    <3> QED BY <1>1, <1>3, <2>1, MaxBelow
  <2>4. m \in Nat /\ m < span.start /\ m \in D!Newlines(content)
    BY <2>3, NewlinesAreOffsets
  <2>5. ASSUME NEW j \in D!Newlines(content) PROVE j < span.start <=> j < m + 1
    <3>1. j \in Nat
      BY NewlinesAreOffsets
    <3> QED BY <3>1, <2>3, <2>4
  <2> QED BY <2>2, <2>4, <2>5
<1> QED BY <1>2, <1>3

\* Where it ends.
LEMMA EndOfLine ==
  ASSUME NEW S, NEW content \in Seq(S), NEW span, span.end \in Nat, D!Ends(span, content) # {}
  PROVE  /\ D!LineEnd(span, content) \in D!Newlines(content)
         /\ D!LineEnd(span, content) \in Nat
         /\ D!LineEnd(span, content) >= span.end - 1
         /\ \A j \in D!Newlines(content) : j >= span.end - 1 => D!LineEnd(span, content) <= j
<1>1. D!Ends(span, content) \in SUBSET Nat
  BY NewlinesAreOffsets DEF D!Ends
<1>2. PICK e : e = D!Min(D!Ends(span, content))
  OBVIOUS
<1>3. e \in D!Ends(span, content) /\ \A j \in D!Ends(span, content) : e <= j
  BY <1>1, <1>2, MinOfNaturals
<1>4. D!LineEnd(span, content) = e
  BY <1>2 DEF D!LineEnd
<1> QED BY <1>1, <1>3, <1>4 DEF D!Ends

\* As many lines start before a line as newlines are before it.
LEMMA LinesBefore ==
  ASSUME NEW S, NEW content \in Seq(S), NEW from \in Nat,
         from = 0 \/ from - 1 \in D!Newlines(content)
  PROVE  LET starts == {0} \cup {j + 1 : j \in D!Newlines(content)}
         IN  /\ IsFiniteSet({t \in starts : t < from})
             /\ Cardinality({t \in starts : t < from}) =
                  Cardinality({j \in D!Newlines(content) : j < from})
<1> DEFINE starts == {0} \cup {j + 1 : j \in D!Newlines(content)}
           earlier == {t \in starts : t < from}
           before == {j \in D!Newlines(content) : j < from}
           after == {j + 1 : j \in before}
<1>1. D!Newlines(content) \in SUBSET Nat
  BY NewlinesAreOffsets
<1>2. IsFiniteSet(before)
  <2>1. before \in SUBSET Nat /\ \A j \in before : j <= from
    BY <1>1
  <2> HIDE DEF before
  <2> QED BY <2>1, FS_BoundedSetOfNaturals
<1>3. IsFiniteSet(after) /\ Cardinality(after) = Cardinality(before)
  <2> DEFINE f == [j \in before |-> j + 1]
  <2>1. f \in [before -> after]
    OBVIOUS
  <2>2. \A i, j \in before : f[i] = f[j] => i = j
    <3>1. \A i, j \in before : i + 1 = j + 1 => i = j
      BY <1>1
    <3> QED BY <3>1
  <2>3. \A t \in after : \E j \in before : f[j] = t
    OBVIOUS
  <2>4. f \in Bijection(before, after)
    <3> HIDE DEF f, before, after
    <3>1. f \in Injection(before, after)
      BY <2>1, <2>2 DEF Injection, IsInjective
    <3>2. f \in Surjection(before, after)
      BY <2>1, <2>3 DEF Surjection
    <3> QED BY <3>1, <3>2 DEF Bijection
  <2>5. ExistsBijection(before, after)
    BY <2>4, Zenon DEF ExistsBijection
  <2> HIDE DEF f, before, after
  <2> QED BY <2>5, <1>2, FS_Bijection
<1>4. IsFiniteSet(earlier) /\ Cardinality(earlier) = Cardinality(before)
  <2>1. CASE from = 0
    <3>1. earlier = {} /\ before = {}
      BY <1>1, <2>1
    <3> HIDE DEF earlier, before
    <3> QED BY <3>1, FS_EmptySet
  <2>2. CASE from - 1 \in D!Newlines(content)
    <3>1. from >= 1
      BY <1>1, <2>2
    <3>2. earlier \cup {from} = after \cup {0}
      <4>1. ASSUME NEW t \in earlier PROVE t \in after \cup {0}
        <5>1. CASE t = 0
          BY <5>1
        <5>2. ASSUME NEW j \in D!Newlines(content), t = j + 1 PROVE t \in after
          <6>1. j \in Nat /\ j < from
            BY <5>2, <1>1
          <6> QED BY <6>1, <5>2
        <5> QED BY <5>1, <5>2
      <4>2. from \in after
        <5>1. from - 1 \in before /\ from = (from - 1) + 1
          BY <2>2
        <5> QED BY <5>1
      <4>3. ASSUME NEW t \in after PROVE t \in earlier \cup {from}
        <5>1. PICK j \in before : t = j + 1
          OBVIOUS
        <5>2. j \in Nat /\ j < from /\ t \in starts
          BY <5>1, <1>1
        <5> QED BY <5>1, <5>2
      <4>4. 0 \in earlier
        BY <3>1
      <4> HIDE DEF earlier, after
      <4> QED BY <4>1, <4>2, <4>3, <4>4
    <3>3. from \notin earlier /\ 0 \notin after
      BY <1>1
    <3>4. IsFiniteSet(after \cup {0}) /\ Cardinality(after \cup {0}) = Cardinality(after) + 1
      <4> HIDE DEF after
      <4> QED BY <1>3, <3>3, FS_AddElement
    <3>5. earlier = (after \cup {0}) \ {from} /\ from \in after \cup {0}
      <4> HIDE DEF after, earlier
      <4> QED BY <3>2, <3>3
    <3>6. IsFiniteSet(earlier) /\ Cardinality(earlier) = Cardinality(after \cup {0}) - 1
      <4> HIDE DEF after, earlier
      <4> QED BY <3>4, <3>5, FS_RemoveElement
    <3>7. Cardinality(after) \in Nat
      <4> HIDE DEF after
      <4> QED BY <1>3, FS_CardinalityType
    <3> HIDE DEF after, earlier
    <3> QED BY <1>3, <3>4, <3>6, <3>7
  <2> QED BY <2>1, <2>2
<1> QED BY <1>4

\* The line with a number is the one that starts after so many newlines.
LEMMA LineOfStart ==
  ASSUME NEW S, NEW content \in Seq(S), NEW from \in Nat, NEW to \in D!Newlines(content),
         from = 0 \/ from - 1 \in D!Newlines(content),
         from <= to, \A j \in D!Newlines(content) : from <= j => to <= j
  PROVE  D!Line(Cardinality({j \in D!Newlines(content) : j < from}), content) = SubSeq(content, from + 1, to)
<1> DEFINE starts == {0} \cup {j + 1 : j \in D!Newlines(content)}
           Below(s) == {t \in starts : t < s}
           n == Cardinality({j \in D!Newlines(content) : j < from})
           Is(s) == D!Cardinality(Below(s)) = n
           ends == {j \in D!Newlines(content) : j >= from}
<1>1. D!Newlines(content) \in SUBSET Nat
  BY NewlinesAreOffsets
<1>2. ASSUME NEW s \in starts
      PROVE  /\ s \in Nat /\ (s = 0 \/ s - 1 \in D!Newlines(content))
             /\ IsFiniteSet(Below(s))
             /\ Cardinality(Below(s)) = Cardinality({j \in D!Newlines(content) : j < s})
  <2>1. s \in Nat /\ (s = 0 \/ s - 1 \in D!Newlines(content))
    <3>1. ASSUME NEW j \in D!Newlines(content), s = j + 1 PROVE s \in Nat /\ s - 1 \in D!Newlines(content)
      BY <3>1, <1>1, j \in Nat, j = s - 1
    <3> QED BY <3>1
  <2> QED BY <2>1, LinesBefore
<1>3. from \in starts /\ Is(from)
  <2>1. from \in starts
    <3>1. CASE from - 1 \in D!Newlines(content)
      BY <3>1, from = (from - 1) + 1
    <3> QED BY <3>1
  <2>2. Cardinality(Below(from)) = n
    BY <2>1, <1>2
  <2> HIDE DEF Below, n
  <2> QED BY <2>1, <2>2, SameCardinality
<1>4. ASSUME NEW s \in starts, NEW r \in starts, s < r
      PROVE  Cardinality(Below(s)) # Cardinality(Below(r))
  <2>1. Below(s) \in SUBSET Below(r)
    <3>1. ASSUME NEW t \in starts, t < s PROVE t < r
      <4>1. t \in Nat /\ s \in Nat /\ r \in Nat
        <5>1. \A q \in starts : q \in Nat
          BY <1>1
        <5> HIDE DEF starts
        <5> QED BY <5>1
      <4> QED BY <4>1, <3>1, <1>4
    <3> QED BY <3>1
  <2>2. s \in Below(r) /\ s \notin Below(s)
    BY <1>2, <1>4
  <2>3. Below(s) # Below(r)
    <3> HIDE DEF Below
    <3> QED BY <2>2
  <2>4. IsFiniteSet(Below(r))
    BY <1>2
  <2> HIDE DEF Below
  <2> QED BY <2>1, <2>3, <2>4, FS_Subset
<1>5. ASSUME NEW s \in starts, Is(s) PROVE s = from
  <2>1. Cardinality(Below(s)) = Cardinality(Below(from))
    <3> HIDE DEF Below, n
    <3> QED BY <1>3, <1>5, SameCardinality
  <2>2. ~(s < from) /\ ~(from < s)
    <3> HIDE DEF starts, Below
    <3> QED BY <1>3, <1>4, <2>1
  <2> QED BY <2>2, <1>2
<1>6. (CHOOSE s \in starts : Is(s)) = from
  <2> HIDE DEF starts, Is
  <2> QED BY <1>3, <1>5
<1>7. D!Min(ends) = to
  <2>1. ends \in SUBSET Nat /\ to \in ends /\ \A j \in ends : to <= j
    BY <1>1
  <2>2. D!Min(ends) \in ends /\ \A j \in ends : D!Min(ends) <= j
    <3> HIDE DEF ends
    <3> QED BY <2>1, MinOfNaturals
  <2>3. D!Min(ends) \in Nat /\ to \in Nat /\ D!Min(ends) <= to /\ to <= D!Min(ends)
    <3> HIDE DEF ends
    <3> QED BY <2>1, <2>2
  <2> HIDE DEF ends
  <2> QED BY <2>3
<1>8. D!Line(n, content) = LET f == CHOOSE s \in starts : Is(s)
                      IN  SubSeq(content, f + 1, D!Min({j \in D!Newlines(content) : j >= f}))
  BY Zenon DEF D!Line
<1> QED
  <2> DEFINE f == CHOOSE s \in starts : Is(s)
  <2>1. f = from
    BY <1>6
  <2>2. D!Line(n, content) = SubSeq(content, f + 1, D!Min({j \in D!Newlines(content) : j >= f}))
    BY <1>8
  <2> HIDE DEF f, n
  <2>3. D!Line(n, content) = SubSeq(content, from + 1, D!Min(ends))
    BY <2>1, <2>2
  <2>4. D!Line(n, content) = SubSeq(content, from + 1, to)
    BY <2>3, <1>7
  <2> QED BY <2>4 DEF n

\* What is where in a line that starts at an offset.
InColumns(from, to, left, right, column, width) ==
  /\ column \in Nat /\ width \in Nat
  /\ column + width = column + right - left
  /\ column + width - 1 = column + right - left - 1
  /\ \A i \in Int : from + i - 1 = left <=> i = column + 1
  /\ \A i \in Int : from + i - 1 > left /\ from + i - 1 < right
                      <=> i \in column + 2 .. column + width
  /\ \A i \in Int : from + i - 1 >= left /\ from + i - 1 < right
                      <=> i - 1 \in column .. column + width - 1
  /\ column + 1 \in 1 .. to + 1 - from
  /\ column + 2 .. column + width \subseteq 1 .. to + 1 - from

LEMMA ColumnsOf ==
  ASSUME NEW from \in Nat, NEW to \in Nat, NEW left \in Nat, NEW right \in Nat,
         NEW column, NEW width,
         from <= left, left < right, right - 1 <= to,
         column = left - from, width = right - left
  PROVE  InColumns(from, to, left, right, column, width)
BY DEF InColumns

(* What is shown of a diagnostic that marks characters of a text, or is    *)
(* just after it, on one line that has an end, is that line: the loops     *)
(* that look for the newlines on both sides stop there, the line and the   *)
(* column are those of the first mark, and the marks stand under the       *)
(* characters of the span and no others (diagnostics.c:22-138).            *)
THEOREM DiagnosticsShowTheirLine ==
  ASSUME NEW S, NEW content \in Seq(S), NEW span,
         span.start \in Nat, span.end \in Nat,
         span.start < span.end, span.end <= Len(content) + 1,
         D!Ends(span, content) # {}, D!OnOneLine(span, content),
         Tab \notin {"^", "~"}, Space \notin {"^", "~"}
  PROVE  D!InText(span.start, content) /\ D!ShowsItsLine(span, content)
<1> DEFINE from == D!LineStart(span, content)
           to == D!LineEnd(span, content)
           before == {j \in D!Newlines(content) : j < span.start}
           shown == D!Shown(span, content)
           column == shown.at.column
           width == span.end - span.start
<1>1. /\ Len(content) \in Nat
      /\ D!Newlines(content) \in SUBSET Nat
      /\ \A j \in D!Newlines(content) : j < Len(content)
  BY NewlinesAreOffsets
<1>2. /\ from \in Nat
      /\ from <= span.start
      /\ from = 0 \/ from - 1 \in D!Newlines(content)
      /\ \A j \in D!Newlines(content) : j < span.start <=> j < from
  <2> HIDE DEF from
  <2> QED BY StartOfLine DEF from
<1>3. /\ to \in D!Newlines(content)
      /\ to \in Nat
      /\ to >= span.end - 1
      /\ to < Len(content)
      /\ \A j \in D!Newlines(content) : j >= span.end - 1 => to <= j
  <2> HIDE DEF to
  <2> QED BY EndOfLine, <1>1 DEF to
<1>4. D!InText(span.start, content)
  BY <1>1 DEF D!InText
<1>5. from <= to
  BY <1>2, <1>3
<1>6. \A j \in D!Newlines(content) : from <= j => to <= j
  <2>1. ASSUME NEW j \in D!Newlines(content), from <= j PROVE to <= j
    <3>1. j \in Nat /\ ~(j < from)
      BY <2>1, <1>1, <1>2
    <3>2. span.start <= j
      BY <3>1, <1>2
    <3>3. j >= span.end - 1
      BY <3>1, <3>2 DEF D!OnOneLine
    <3> QED BY <3>3, <1>3
  <2> QED BY <2>1
<1> HIDE DEF from, to
<1>7. shown.at = [line |-> Cardinality(before), column |-> span.start - from]
  <2>1. shown.at = D!LineColumn(span.start, content)
    BY DEF D!Shown
  <2>2. from = IF before = {} THEN 0 ELSE D!Max(before) + 1
    BY ComesToAll DEF from, D!LineStart
  <2>3. D!Cardinality(before) = Cardinality(before)
    BY SameCardinality
  <2> QED BY <2>1, <2>2, <2>3 DEF D!LineColumn
<1>8. column = span.start - from /\ shown.at.line = Cardinality(before) /\ column \in Nat
  BY <1>7, <1>2
<1>9. shown.text = SubSeq(content, from + 1, to)
  <2>1. shown.text = SubSeq(content, from + 1, IF to < from THEN Len(content) ELSE to)
    <3>1. shown.text = D!ShownText(span, content)
      BY DEF D!Shown
    <3> QED BY <3>1 DEF D!ShownText, from, to
  <2>2. ~ (to < from)
    BY <1>2, <1>3, <1>5
  <2> HIDE DEF shown
  <2> QED BY <2>1, <2>2
<1>10. shown.text = D!Line(shown.at.line, content)
  <2>1. before = {j \in D!Newlines(content) : j < from}
    BY <1>2
  <2>2. D!Line(Cardinality(before), content) = SubSeq(content, from + 1, to)
    BY <2>1, <1>2, <1>3, <1>5, <1>6, LineOfStart
  <2> QED BY <2>2, <1>8, <1>9
<1> DEFINE mark(j) == IF j = span.start THEN "^"
                      ELSE IF j > span.start /\ j < span.end THEN "~"
                      ELSE IF j < Len(content) /\ content[j + 1] = Tab THEN Tab ELSE Space
<1>11. shown.marks = [i \in 1 .. to + 1 - from |-> mark(from + i - 1)]
  BY DEF D!Shown, D!Marks, from, to
<1>12. DOMAIN shown.marks = 1 .. to + 1 - from
       /\ \A i \in 1 .. to + 1 - from : shown.marks[i] = mark(from + i - 1)
  <2> HIDE DEF mark, shown
  <2> QED BY <1>11
<1>13. DOMAIN shown.text = 1 .. to - from
       /\ \A i \in 1 .. to - from : shown.text[i] = content[from + i]
  <2>1. from + 1 \in 1 .. Len(content) + 1 /\ to \in from .. Len(content)
    BY <1>1, <1>2, <1>3, <1>5
  <2> QED BY <2>1, <1>9, <1>1, <1>2, <1>3, <1>5
<1> HIDE DEF shown
<1>14. InColumns(from, to, span.start, span.end, column, width)
  <2> HIDE DEF column, width
  <2>1. column = span.start - from /\ width = span.end - span.start
    BY <1>8 DEF width
  <2>2. from <= span.start /\ span.end - 1 <= to /\ from \in Nat /\ to \in Nat
    BY <1>2, <1>3
  <2> QED BY <2>1, <2>2, ColumnsOf
<1> HIDE DEF column, width
<1>16. {i \in DOMAIN shown.marks : shown.marks[i] = "^"} = {column + 1}
  <2>1. ASSUME NEW i \in 1 .. to + 1 - from
        PROVE  mark(from + i - 1) = "^" <=> i = column + 1
    <3>1. mark(from + i - 1) = "^" <=> from + i - 1 = span.start
      OBVIOUS
    <3> HIDE DEF mark
    <3> QED BY <3>1, <1>14, i \in Int, <1>2, <1>3 DEF InColumns
  <2> QED BY <2>1, <1>12, <1>14 DEF InColumns
<1>17. {i \in DOMAIN shown.marks : shown.marks[i] = "~"} = column + 2 .. column + width
  <2>1. ASSUME NEW i \in 1 .. to + 1 - from
        PROVE  mark(from + i - 1) = "~" <=> i \in column + 2 .. column + width
    <3>1. mark(from + i - 1) = "~" <=>
            from + i - 1 # span.start /\ from + i - 1 > span.start /\ from + i - 1 < span.end
      OBVIOUS
    <3>2. from + i - 1 > span.start => from + i - 1 # span.start
      BY <1>2, <1>3, i \in Int
    <3>3. i \in Int
      BY <1>2, <1>3
    <3> HIDE DEF mark
    <3> QED BY <3>1, <3>2, <3>3, <1>14 DEF InColumns
  <2> QED BY <2>1, <1>12, <1>14 DEF InColumns
<1>18. \A i \in DOMAIN shown.text : shown.text[i] = Tab =>
         i - 1 \in column .. column + width - 1 \/ shown.marks[i] = Tab
  <2>1. ASSUME NEW i \in 1 .. to - from, content[from + i] = Tab,
               i - 1 \notin column .. column + width - 1
        PROVE  shown.marks[i] = Tab
    <3> DEFINE j == from + i - 1
    <3>1. j \in Nat /\ j < Len(content) /\ j + 1 = from + i
      BY <1>1, <1>2, <1>3
    <3>2. j # span.start /\ ~(j > span.start /\ j < span.end)
      <4>1. ~(from + i - 1 >= span.start /\ from + i - 1 < span.end)
        BY <2>1, <1>14, i \in Int DEF InColumns
      <4> QED BY <4>1, <3>1
    <3>3. mark(j) = Tab
      BY <2>1, <3>1, <3>2
    <3>4. i \in 1 .. to + 1 - from
      BY <1>2, <1>3
    <3> QED BY <3>3, <3>4, <1>12
  <2> QED BY <2>1, <1>13
<1> QED
  <2>1. D!ShowsItsLine(span, content) <=>
          /\ shown.text = D!Line(shown.at.line, content)
          /\ {i \in DOMAIN shown.marks : shown.marks[i] = "^"} = {column + 1}
          /\ {i \in DOMAIN shown.marks : shown.marks[i] = "~"} =
               column + 2 .. column + span.end - span.start
          /\ \A i \in DOMAIN shown.text : shown.text[i] = Tab =>
               i - 1 \in column .. column + span.end - span.start - 1 \/ shown.marks[i] = Tab
    BY Zenon DEF D!ShowsItsLine, shown, column
  <2>2. /\ column + width = column + span.end - span.start
        /\ column + width - 1 = column + span.end - span.start - 1
    BY <1>14 DEF InColumns
  <2> QED BY <2>1, <2>2, <1>4, <1>10, <1>16, <1>17, <1>18

--------------------------------------------------------------------------------
(* The tests.                                                              *)

\* A test that has run has left the right .actual file, and all have at the
\* end.
JudgedInv ==
  /\ expected \in [Tests -> Outputs \cup {Missing}]
  /\ actual \in [Tests -> Outputs \cup {Missing}]
  /\ output \in [Tests -> Outputs \cup {Abort}]
  /\ judged \subseteq Tests
  /\ \A t \in judged \ unnoticed : actual[t] = IF output[t] = expected[t] THEN Missing ELSE output[t]
  /\ verdict = "done" => judged = Tests

\* What a step may change of the files.
TestStep ==
  \A t \in Tests :
    /\ expected[t] # Missing => expected'[t] = expected[t]
    /\ t \in judged \/ t \notin judged' => expected'[t] = expected[t] /\ actual'[t] = actual[t]
    /\ t \in judged' \ judged /\ t \notin unnoticed' /\ expected[t] = Missing =>
         expected'[t] = output[t]

LEMMA JudgeStep ==
  ASSUME JudgedInv, T!Judge
  PROVE  JudgedInv' /\ TestStep
<1>1. PICK test \in Tests :
        /\ T!IsNext(test)
        /\ output[test] # Abort
        /\ \E said \in IF expected[test] = Missing THEN Outputs ELSE {expected[test]} :
             \E left \in T!Written(T!Wanted(test, said), actual[test]) :
               /\ expected' = [expected EXCEPT ![test] = said]
               /\ actual' = [actual EXCEPT ![test] = left]
               /\ unnoticed' = IF left = T!Wanted(test, said) /\ said \in {expected[test], output[test]}
                               THEN unnoticed ELSE unnoticed \cup {test}
        /\ judged' = judged \cup {test}
        /\ output' = output /\ verdict' = verdict
  BY DEF T!Judge
<1> DEFINE Made(said, left) ==
             /\ expected' = [expected EXCEPT ![test] = said]
             /\ actual' = [actual EXCEPT ![test] = left]
             /\ unnoticed' = IF left = T!Wanted(test, said) /\ said \in {expected[test], output[test]}
                             THEN unnoticed ELSE unnoticed \cup {test}
<1>2a. PICK said \in IF expected[test] = Missing THEN Outputs ELSE {expected[test]} :
         \E left \in T!Written(T!Wanted(test, said), actual[test]) : Made(said, left)
  BY <1>1
<1>2b. PICK left \in T!Written(T!Wanted(test, said), actual[test]) : Made(said, left)
  BY <1>2a
<1>2. Made(said, left)
  BY <1>2b
<1>3. /\ test \notin judged /\ verdict = "running"
      /\ output[test] \in Outputs
  BY <1>1 DEF T!IsNext, JudgedInv
<1>4. said \in Outputs /\ left \in Outputs \cup {Missing}
  <2>1. said \in Outputs
    <3>1. expected[test] \in Outputs \cup {Missing}
      BY DEF JudgedInv
    <3> QED BY <3>1, <1>2a
  <2>2. actual[test] \in Outputs \cup {Missing} /\ T!Wanted(test, said) \in Outputs \cup {Missing}
    BY <1>3 DEF JudgedInv, T!Wanted
  <2> QED BY <2>1, <2>2, <1>2b DEF T!Written
<1>5. /\ expected' \in [Tests -> Outputs \cup {Missing}]
      /\ actual' \in [Tests -> Outputs \cup {Missing}]
      /\ expected'[test] = said /\ actual'[test] = left
      /\ \A t \in Tests : t # test => expected'[t] = expected[t] /\ actual'[t] = actual[t]
  BY <1>2, <1>4 DEF JudgedInv
<1>6. ASSUME NEW t \in judged' \ unnoticed'
      PROVE  actual'[t] = IF output'[t] = expected'[t] THEN Missing ELSE output'[t]
  <2>1. CASE t = test
    <3>1. left = T!Wanted(test, said)
      BY <1>2, <1>6, <2>1
    <3> QED BY <3>1, <2>1, <1>1, <1>5 DEF T!Wanted
  <2>2. CASE t # test
    <3>1. t \in judged \ unnoticed /\ t \in Tests
      BY <1>1, <1>2, <1>6, <2>2 DEF JudgedInv
    <3>2. actual[t] = IF output[t] = expected[t] THEN Missing ELSE output[t]
      BY <3>1 DEF JudgedInv
    <3> QED BY <3>1, <3>2, <2>2, <1>1, <1>5
  <2> QED BY <2>1, <2>2
<1>7. TestStep
  <2>1. \A t \in Tests : t # test => expected'[t] = expected[t] /\ actual'[t] = actual[t]
    BY <1>5
  <2>2. \A t \in judged' \ judged : t = test
    BY <1>1
  <2>3. test \notin unnoticed' /\ expected[test] = Missing => expected'[test] = output[test]
    <3>1. SUFFICES ASSUME test \notin unnoticed', expected[test] = Missing
                   PROVE  expected'[test] = output[test]
      OBVIOUS
    <3>2. said \in {expected[test], output[test]}
      BY <1>2, <3>1
    <3>3. said # expected[test]
      BY <3>1, <1>2a, OutputsAssumption
    <3> QED BY <3>2, <3>3, <1>5
  <2>4. expected[test] # Missing => expected'[test] = expected[test]
    BY <1>2, <1>5
  <2>5. test \notin judged /\ test \in judged'
    BY <1>1, <1>3
  <2> QED BY <2>1, <2>2, <2>3, <2>4, <2>5 DEF TestStep
<1> QED BY <1>1, <1>3, <1>5, <1>6, <1>7 DEF JudgedInv

LEMMA JudgedTests == T!Init /\ [][T!Next]_T!vars => T!TestsAreJudged
<1>1. T!Init => JudgedInv
  BY DEF T!Init, JudgedInv
<1>2. ASSUME JudgedInv, [T!Next]_T!vars
      PROVE  JudgedInv' /\ [TestStep]_T!vars
  <2>1. CASE T!Judge
    BY <2>1, <1>2, JudgeStep
  <2>2. CASE T!Crash
    BY <2>2, <1>2 DEF JudgedInv, T!Crash, TestStep
  <2>3. CASE T!Finish
    BY <2>3, <1>2 DEF JudgedInv, T!Finish, TestStep
  <2>4. CASE UNCHANGED T!vars
    BY <2>4, <1>2 DEF JudgedInv, T!vars
  <2> QED BY <1>2, <2>1, <2>2, <2>3, <2>4 DEF T!Next
<1>3. JudgedInv =>
        /\ \A t \in judged \ unnoticed :
             actual[t] = IF output[t] = expected[t] THEN Missing ELSE output[t]
        /\ verdict = "done" => judged = Tests
  BY DEF JudgedInv
<1>4. T!TestsAreJudged <=>
        /\ [][TestStep]_T!vars
        /\ [](\A t \in judged \ unnoticed :
                actual[t] = IF output[t] = expected[t] THEN Missing ELSE output[t])
        /\ [](verdict = "done" => judged = Tests)
  BY DEF T!TestsAreJudged, TestStep
<1> QED BY <1>1, <1>2, <1>3, <1>4, PTL

\* The steps of the passes leave the tests alone.
LEMMA TestingStep == [DriverNext]_driverVars => [T!Next]_T!vars
<1> SUFFICES ASSUME [DriverNext]_driverVars PROVE [T!Next]_T!vars
  OBVIOUS
<1>1. CASE Test
  BY <1>1 DEF Test
<1>2. CASE UNCHANGED testing
  BY <1>2 DEF testing, T!vars
<1>3. CASE ReadEntry \/ EndDiscovery \/ BeginLexing \/ Lex \/ EndLexing \/ InternAll
  BY <1>2, <1>3 DEF ReadEntry, EndDiscovery, BeginLexing, Lex, EndLexing, InternAll
<1>4. CASE BeginParsing \/ Parse \/ EndParsing \/ LowerAst \/ EndLowering
  BY <1>2, <1>4 DEF BeginParsing, Parse, EndParsing, LowerAst, EndLowering
<1>5. CASE Generate \/ EndGenerating \/ AbortPass
  BY <1>2, <1>5 DEF Generate, EndGenerating, AbortPass
<1>6. CASE ShowDiagnostics \/ WriteAssembly \/ Assemble \/ Link
  BY <1>2, <1>6 DEF ShowDiagnostics, WriteAssembly, Assemble, Link
<1>7. CASE UNCHANGED driverVars
  BY <1>2, <1>7 DEF driverVars
<1> QED BY <1>1, <1>3, <1>4, <1>5, <1>6, <1>7 DEF DriverNext, Stop

(* The process that runs the tests changes no .expected file that is       *)
(* there, and no file of a test it has not come to or aborts in; a test    *)
(* that was judged has, as long as its files could be written, a .actual   *)
(* file exactly if it fails, with what the pass prints now, also when a    *)
(* later one aborts (test.c:63-117).                                       *)
THEOREM RunnerJudgesTests == DriverSpec => TestsAreJudged
<1>1. DriverInit => T!Init
  BY DEF DriverInit
<1> QED BY <1>1, TestingStep, JudgedTests, PTL DEF DriverSpec, TestsAreJudged

--------------------------------------------------------------------------------
(* Lexing.                                                                 *)

\* The tables of the two instances of the lexer are the same.
LEMMA SameTables ==
  /\ LXP!Keywords = Keywords /\ LXP!OneCharTokens = OneCharTokens
  /\ LXP!TwoCharTokens = TwoCharTokens /\ LXP!Nul = Nul
  /\ LX!Keywords = Keywords /\ LX!OneCharTokens = OneCharTokens
  /\ LX!TwoCharTokens = TwoCharTokens /\ LX!Nul = Nul
BY DEF LXP!Keywords, LXP!OneCharTokens, LXP!TwoCharTokens, LXP!Nul, LXP!Lexeme,
       LX!Keywords, LX!OneCharTokens, LX!TwoCharTokens, LX!Nul, LX!Lexeme,
       Keywords, OneCharTokens, TwoCharTokens, Nul, Lexeme

LEMMA SameCounting == \A M : LXP!Cardinality(M) = LX!Cardinality(M)
BY DEF LXP!Cardinality, LX!Cardinality, LXP!IsFiniteSet, LX!IsFiniteSet

LEMMA SameNext == LX!Next <=> LXP!Next
BY SameTables, Zenon DEF LX!Next, LXP!Next, LX!SkipWhitespace, LXP!SkipWhitespace, LX!Number,
  LXP!Number, LX!Identifier, LXP!Identifier, LX!TwoChars, LXP!TwoChars, LX!OneChar, LXP!OneChar,
  LX!Invalid, LXP!Invalid, LX!Char, LXP!Char, LX!Push, LXP!Push, LX!RunEnd, LXP!RunEnd,
  LX!AtTwoChars, LXP!AtTwoChars

LEMMA SameTokens == LX!Tokens = LXP!Tokens
BY SameTables, Zenon DEF LX!Tokens, LXP!Tokens, LX!ConvertKeyword, LXP!ConvertKeyword, LX!Between, LXP!Between

LEMMA SameEnd == LX!AtEnd <=> LXP!AtEnd
BY SameTables, Zenon DEF LX!AtEnd, LXP!AtEnd, LX!Char, LXP!Char

LEMMA SameKinds == \A s : LX!KindsOf(s) = LXP!KindsOf(s)
BY SameTables, Zenon DEF LX!KindsOf, LXP!KindsOf

LEMMA SameLongest == \A token : LX!IsLongest(token) <=> LXP!IsLongest(token)
BY SameTables, SameKinds, Zenon DEF LX!IsLongest, LXP!IsLongest, LX!Between, LXP!Between

LEMMA SameLexing == LXP!TokensAreLongestLexemes => LX!TokensAreLongestLexemes
BY SameTokens, SameEnd, SameLongest, SameCounting, Zenon
   DEF LX!TokensAreLongestLexemes, LXP!TokensAreLongestLexemes, LX!Between, LXP!Between

LEMMA BeginLexer == text \in Texts /\ LX!Begin => LXP!LexerInv
BY SameTables, ClassesAssumption, TextsAssumption, LXP!InitLexerInv, Zenon
   DEF LXP!Init, LXP!Begin, LX!Begin

LEMMA NextLexer == LXP!LexerInv /\ (LX!Next \/ UNCHANGED lexing) => LXP!LexerInv'
<1>1. LXP!LexerInv /\ [LXP!Next]_LXP!vars => LXP!LexerInv'
  BY SameTables, ClassesAssumption, TextsAssumption, LXP!NextKeepsInv
<1>2. UNCHANGED lexing => UNCHANGED LXP!vars
  BY DEF lexing, LXP!vars
<1> QED BY <1>1, <1>2, SameNext

LEMMA LexerTells == LXP!LexerInv => LX!TokensAreLongestLexemes
<1>1. LXP!LexerInv => LXP!TokensAreLongestLexemes
  BY SameTables, ClassesAssumption, TextsAssumption, LXP!InvTellsTokens
<1> QED BY <1>1, SameLexing

--------------------------------------------------------------------------------
(* What lexing leaves to parsing: tokens of the kinds the parser knows,    *)
(* each of some characters of the text, digits if it is a number.          *)

IsToken(token, content) ==
  /\ token.kind \in Kinds
  /\ token.start \in Nat /\ token.end \in Nat
  /\ token.start < token.end /\ token.end <= Len(content)
  /\ token.kind = "number" => \A k \in token.start + 1 .. token.end : content[k] \in Digits
IsBuffer(b, content) ==
  /\ IsSequence(b)
  /\ \A i \in DOMAIN b : IsToken(b[i], content)

LEMMA LexerKinds ==
  /\ OneCharTokens \subseteq Kinds /\ "number" \notin OneCharTokens
  /\ \A k \in Keywords \cup TwoCharTokens : k.kind \in Kinds /\ k.kind # "number"
BY DEF OneCharTokens, Keywords, TwoCharTokens, Kinds, BinaryOperators, Lexeme

\* Only digits make a number.
LEMMA NumbersAreDigits ==
  ASSUME NEW s, "number" \in LXP!KindsOf(s)
  PROVE  \A i \in DOMAIN s : s[i] \in Digits
<1> DEFINE table == {k.kind : k \in {l \in LXP!Keywords \cup LXP!TwoCharTokens : l.chars = s}}
           ones == {k \in LXP!OneCharTokens : s = <<k>>}
           of(class) == s # <<>> /\ \A i \in DOMAIN s : s[i] \in class
           word == of(Letters \cup Digits) /\ s[1] \in Letters
<1>1. "number" \notin table /\ "number" \notin ones
  BY LexerKinds, SameTables
<1>2. LXP!KindsOf(s) = IF table # {} THEN table
                       ELSE ones \cup (IF word THEN {"identifier"} ELSE {})
                                 \cup (IF of(Digits) THEN {"number"} ELSE {})
  BY Zenon DEF LXP!KindsOf
<1> HIDE DEF table, ones, word
<1>3. of(Digits)
  BY <1>1, <1>2
<1> QED BY <1>3

LEMMA TokenKinds ==
  ASSUME NEW token \in LXP!TokenRecords
  PROVE  LET made == LXP!ConvertKeyword(token)
         IN  made.kind \in Kinds /\ made.start = token.start /\ made.end = token.end
<1>1. token.kind \in Kinds
  <2>1. LXP!Kinds \subseteq Kinds
    BY LexerKinds, SameTables DEF LXP!Kinds, Kinds
  <2> QED BY <2>1 DEF LXP!TokenRecords
<1> DEFINE matching == {k \in LXP!Keywords : k.chars = LXP!Between(token.start, token.end)}
<1>2. CASE token.kind = "identifier" /\ matching # {}
  <2>1. PICK k : k = CHOOSE m \in matching : TRUE
    OBVIOUS
  <2>2. k \in matching
    <3> HIDE DEF matching
    <3> QED BY <1>2, <2>1
  <2>3. k.kind \in Kinds
    BY <2>2, LexerKinds, SameTables
  <2>4. LXP!ConvertKeyword(token) = [token EXCEPT !.kind = k.kind]
    BY <1>2, <2>1, Zenon DEF LXP!ConvertKeyword
  <2> QED BY <2>3, <2>4 DEF LXP!TokenRecords
<1>3. CASE ~(token.kind = "identifier" /\ matching # {})
  <2>1. LXP!ConvertKeyword(token) = token
    BY <1>3, Zenon DEF LXP!ConvertKeyword
  <2> QED BY <1>1, <2>1
<1> QED BY <1>2, <1>3

LEMMA LexerMakesTokens == LXP!LexerInv => IsBuffer(LX!Tokens, text)
<1> SUFFICES ASSUME LXP!LexerInv PROVE IsBuffer(LX!Tokens, text)
  OBVIOUS
<1>1. lexed \in Seq(LXP!TokenRecords) /\ offset \in 0 .. Len(text) /\ text \in Texts
  BY DEF LXP!LexerInv, LXP!SeqInv, LXP!TextInv
<1>2. PICK n \in Nat : n = Len(lexed) /\ DOMAIN lexed = 1 .. n
  BY <1>1
<1>3. PICK b : b = LX!Tokens
  OBVIOUS
<1>4. b = [i \in 1 .. n |-> LXP!ConvertKeyword(lexed[i])]
  BY <1>2, <1>3, SameTokens DEF LXP!Tokens
<1>5. PICK size \in Nat : size = Len(text) /\ DOMAIN text = 1 .. size
  BY <1>1, TextsAssumption
<1>6. ASSUME NEW i \in 1 .. n PROVE IsToken(b[i], text)
  <2>1. PICK token \in LXP!TokenRecords : token = lexed[i]
    BY <1>1, <1>2
  <2>2. PICK made : made = LXP!ConvertKeyword(token)
    OBVIOUS
  <2>3. made.kind \in Kinds /\ made.start = token.start /\ made.end = token.end
    BY <2>2, TokenKinds
  <2>4. token.start \in Nat /\ token.end \in Nat
    BY DEF LXP!TokenRecords
  <2>5. token.start < token.end /\ token.end <= size
    BY <1>1, <1>2, <1>5, <2>1, <2>4 DEF LXP!LexerInv, LXP!OrderInv
  <2>6. LXP!IsLongest(made)
    BY <1>2, <2>1, <2>2 DEF LXP!LexerInv, LXP!GoodInv, LXP!Good
  <2>7. ASSUME made.kind = "number", NEW k \in made.start + 1 .. made.end
        PROVE  text[k] \in Digits
    <3>1. PICK s : s = LXP!Between(made.start, made.end)
      OBVIOUS
    <3>2. "number" \in LXP!KindsOf(s)
      BY <2>6, <2>7, <3>1, Zenon DEF LXP!IsLongest
    <3>3. \A j \in DOMAIN s : s[j] \in Digits
      BY <3>2, NumbersAreDigits
    <3>4. PICK from, to \in Nat : from = made.start /\ to = made.end
      BY <2>3, <2>4
    <3>5. k - from \in 1 .. to - from /\ from + (k - from) = k /\ from < to /\ to <= size
      BY <2>3, <2>5, <2>7, <3>4
    <3>6. s = SubSeq(text, from + 1, to)
      BY <3>1, <3>4 DEF LXP!Between
    <3>7. DOMAIN s = 1 .. to - from /\ s[k - from] = text[k]
      <4>1. text \in Seq({text[j] : j \in DOMAIN text} \ {Nul})
        BY <1>1, TextsAssumption
      <4>2. from + 1 \in 1 .. size + 1 /\ to \in from .. size
        BY <3>5
      <4> QED BY <1>5, <3>5, <3>6, <4>1, <4>2
    <3> QED BY <3>3, <3>5, <3>7
  <2>8. b[i] = made
    BY <1>4, <2>1, <2>2
  <2> QED BY <1>5, <2>3, <2>4, <2>5, <2>7, <2>8 DEF IsToken
<1>7. DOMAIN b = 1 .. n
  BY <1>4
<1>8. IsSequence(b)
  <2> DEFINE S == {b[i] : i \in DOMAIN b}
  <2>1. b \in [1 .. n -> S]
    BY <1>4
  <2> HIDE DEF S
  <2>2. b \in Seq(S)
    BY <2>1
  <2> QED BY <2>2 DEF IsSequence, S
<1> QED BY <1>3, <1>6, <1>7, <1>8 DEF IsBuffer

--------------------------------------------------------------------------------
(* The value of a number is one: the sequence of the values of its first   *)
(* digits exists, and none of them is anything but a number.               *)

IsValues(v, digits, n) ==
  v = [k \in 0 .. n |-> IF k = 0 THEN 0
                        ELSE Saturated(10 * v[k - 1] + DigitValue[digits[k]])]

LEMMA ValuesExist ==
  ASSUME NEW digits, NEW n \in Nat
  PROVE  \E v : IsValues(v, digits, n)
<1> DEFINE without == {k \in Nat : ~ \E v : IsValues(v, digits, k)}
<1>1. ASSUME without # {} PROVE FALSE
  <2>1. PICK m \in without : \A k \in without : m <= k
    <3>1. without \in SUBSET Nat
      OBVIOUS
    <3> HIDE DEF without
    <3> QED BY <1>1, <3>1, LeastNumber
  <2>2. CASE m = 0
    <3> DEFINE zero == [k \in 0 .. 0 |-> 0]
    <3>1. IsValues(zero, digits, 0)
      <4>1. \A k \in 0 .. 0 : k = 0
        OBVIOUS
      <4> QED BY <4>1, Zenon DEF IsValues
    <3> QED BY <2>2, <3>1
  <2>3. CASE m # 0
    <3>1. m - 1 \in Nat /\ m - 1 \notin without
      BY <2>1, <2>3
    <3>2. PICK v : IsValues(v, digits, m - 1)
      BY <3>1
    <3> DEFINE Turn(k) == Saturated(10 * v[k - 1] + DigitValue[digits[k]])
               w == [k \in 0 .. m |-> IF k = m THEN Turn(m) ELSE v[k]]
    <3>3. \A k \in 0 .. m - 1 : w[k] = v[k] /\ v[k] = IF k = 0 THEN 0 ELSE Turn(k)
      <4>1. \A k \in 0 .. m - 1 : k \in 0 .. m /\ k # m
        OBVIOUS
      <4>2. \A k \in 0 .. m - 1 : w[k] = v[k]
        <5> HIDE DEF Turn
        <5> QED BY <4>1
      <4>3. v = [k \in 0 .. m - 1 |-> IF k = 0 THEN 0 ELSE Turn(k)]
        BY <3>2, Zenon DEF IsValues
      <4> HIDE DEF w, Turn
      <4> QED BY <4>2, <4>3
    <3>4. ASSUME NEW k \in 0 .. m
          PROVE  w[k] = IF k = 0 THEN 0
                        ELSE Saturated(10 * w[k - 1] + DigitValue[digits[k]])
      <4>1. k # 0 => k - 1 \in 0 .. m - 1
        BY <2>3
      <4>2. k # 0 => w[k - 1] = v[k - 1]
        <5> HIDE DEF w
        <5> QED BY <4>1, <3>3
      <4>3. w[k] = IF k = 0 THEN 0 ELSE Turn(k)
        <5>1. CASE k = m
          <6> HIDE DEF Turn
          <6> QED BY <5>1, <2>3
        <5>2. CASE k # m
          <6>1. k \in 0 .. m - 1
            BY <5>2
          <6> HIDE DEF w, Turn
          <6> QED BY <6>1, <3>3
        <5> QED BY <5>1, <5>2
      <4> HIDE DEF w
      <4> QED BY <4>2, <4>3, Zenon
    <3>5. w = [k \in 0 .. m |-> w[k]]
      <4> HIDE DEF Turn
      <4> QED OBVIOUS
    <3>6. IsValues(w, digits, m)
      <4> HIDE DEF w
      <4>1. [k \in 0 .. m |-> w[k]] =
              [k \in 0 .. m |-> IF k = 0 THEN 0
                                ELSE Saturated(10 * w[k - 1] + DigitValue[digits[k]])]
        BY <3>4, Zenon
      <4> QED BY <3>5, <4>1, Zenon DEF IsValues
    <3> HIDE DEF w
    <3> QED BY <3>6
  <2> QED BY <2>2, <2>3
<1> QED BY <1>1

LEMMA ValueIsNatural ==
  ASSUME NEW digits, NEW n \in Nat, n = Len(digits), \A i \in 1 .. n : digits[i] \in Digits
  PROVE  ValueOf(digits) \in Nat
<1>1. PICK v : v = CHOOSE w : IsValues(w, digits, n)
  OBVIOUS
<1>2. IsValues(v, digits, n)
  BY <1>1, ValuesExist, Zenon
<1>3. ValueOf(digits) = v[n]
  BY <1>1, Zenon DEF ValueOf, IsValues
<1>4. \A k \in 0 .. n : v[k] = IF k = 0 THEN 0
                               ELSE Saturated(10 * v[k - 1] + DigitValue[digits[k]])
  BY <1>2, Zenon DEF IsValues
<1> DEFINE wrong == {k \in 0 .. n : v[k] \notin Nat}
<1>5. ASSUME wrong # {} PROVE FALSE
  <2>1. PICK m \in wrong : \A k \in wrong : m <= k
    <3>1. wrong \in SUBSET Nat
      OBVIOUS
    <3> HIDE DEF wrong
    <3> QED BY <1>5, <3>1, LeastNumber
  <2>2. m \in 0 .. n /\ v[m] \notin Nat
    OBVIOUS
  <2>3. m # 0
    BY <1>4, <2>2
  <2>4. m - 1 \in 0 .. n /\ ~(m <= m - 1) /\ m \in 1 .. n
    BY <2>2, <2>3
  <2>5. v[m - 1] \in Nat
    BY <2>1, <2>4
  <2>6. DigitValue[digits[m]] \in Nat
    BY <2>4, DigitsAssumption
  <2>7. v[m] = Saturated(10 * v[m - 1] + DigitValue[digits[m]])
    BY <1>4, <2>2, <2>3
  <2>8. PICK a, b \in Nat : a = v[m - 1] /\ b = DigitValue[digits[m]]
    BY <2>5, <2>6
  <2>9. Saturated(10 * a + b) \in Nat
    BY FileAssumption DEF Saturated
  <2> QED BY <2>2, <2>7, <2>8, <2>9
<1> QED BY <1>3, <1>5

--------------------------------------------------------------------------------
(* The process.                                                            *)

Stages == {"discover", "read", "lex", "compile", "parse", "lower", "generate", "write",
           "assemble", "link", "test", "exit_0", "exit_1", "aborted", "assertion_failed"}
Sources == {[name |-> entry.name, text |-> entry.text] : entry \in UNION Projects}
NumberTokens(b) == {i \in DOMAIN b : b[i].kind = "number"}

\* How far the process has come.
FilesInv ==
  /\ directory \in Projects \cup {{}}
  /\ unread \subseteq directory
  /\ files \in Seq(Sources)
  /\ Len(files) < FileModulus
CountsInv ==
  /\ stage \in Stages
  /\ compiled \in Nat /\ current \in Nat /\ IsSequence(buffers)
  /\ Len(buffers) <= Len(files) /\ compiled <= Len(buffers) /\ current <= Len(files)
  /\ stage = "discover" => buffers = <<>> /\ current = 0
  /\ stage = "lex" => Len(buffers) < Len(files)
  /\ stage \in {"compile", "parse", "lower", "generate"} => Len(buffers) = Len(files)
  /\ stage \in {"parse", "lower", "generate"} => compiled < Len(files) /\ current = compiled + 1
DiskInv == DOMAIN disk = {"s", "o", "out"} /\ failed \subseteq {"write", "as", "ld"}

\* What a pass finds, and what it leaves to the next.
LexInv == stage = "lex" => LXP!LexerInv /\ text = files[Len(buffers) + 1].text
BuffersInv == \A i \in 1 .. Len(buffers) : IsBuffer(buffers[i], files[i].text)
ParseInv ==
  stage = "parse" =>
    /\ tokens = [i \in DOMAIN Buffer |-> Buffer[i].kind]
    /\ IInv /\ TreesInv /\ ShapesInv /\ LiteralsInv(NumberTokens(Buffer))
AstInv == stage = "lower" => IsAst(ast)

DriverInv == FilesInv /\ CountsInv /\ DiskInv /\ LexInv /\ BuffersInv /\ ParseInv /\ AstInv

LEMMA InitDriver == DriverInit => DriverInv
<1> SUFFICES ASSUME DriverInit PROVE DriverInv
  OBVIOUS
<1>1. /\ stage \in {"discover", "test"} /\ files = <<>> /\ buffers = <<>>
      /\ compiled = 0 /\ current = 0 /\ unread = directory /\ failed = {}
      /\ DOMAIN disk = {"s", "o", "out"}
      /\ directory \in Projects \cup {{}}
  BY DEF DriverInit
<1>2. FilesInv
  BY <1>1, FileAssumption DEF FilesInv
<1>3. CountsInv
  BY <1>1 DEF CountsInv, Stages, IsSequence
<1>4. DiskInv /\ LexInv /\ BuffersInv /\ ParseInv /\ AstInv
  BY <1>1 DEF DiskInv, LexInv, BuffersInv, ParseInv, AstInv
<1> QED BY <1>2, <1>3, <1>4 DEF DriverInv

LEMMA RecordFact ==
  ASSUME NEW found, NEW then, Record(found, then)
  PROVE  stage' \in {"aborted", "assertion_failed", then}
BY DEF Record

LEMMA AppendFact ==
  ASSUME NEW s, IsSequence(s), NEW e
  PROVE  /\ Len(s) \in Nat
         /\ IsSequence(Append(s, e)) /\ Len(Append(s, e)) = Len(s) + 1
         /\ Append(s, e)[Len(s) + 1] = e
         /\ \A i \in 1 .. Len(s) : Append(s, e)[i] = s[i]
<1> DEFINE S == {s[i] : i \in DOMAIN s} \cup {e}
<1>1. s \in Seq(S)
  <2>1. \A T1, T2 : T1 \subseteq T2 => Seq(T1) \subseteq Seq(T2)
    OBVIOUS
  <2> QED BY <2>1 DEF IsSequence
<1>2. PICK t : t = Append(s, e)
  OBVIOUS
<1>3. PICK n \in Nat : n = Len(s) /\ DOMAIN s = 1 .. n
  BY <1>1
<1>4. /\ t \in Seq(S) /\ Len(t) = n + 1 /\ DOMAIN t = 1 .. n + 1 /\ t[n + 1] = e
      /\ \A i \in 1 .. n : t[i] = s[i]
  <2> HIDE DEF S
  <2>1. e \in S
    BY DEF S
  <2> QED BY <1>1, <1>2, <1>3, <2>1
<1>5. IsSequence(t)
  <2> DEFINE U == {t[i] : i \in DOMAIN t}
  <2>1. t \in [1 .. n + 1 -> U]
    <3> HIDE DEF S
    <3> QED BY <1>4
  <2> HIDE DEF U
  <2>2. t \in Seq(U)
    BY <1>3, <2>1
  <2> QED BY <2>2 DEF IsSequence, U
<1> QED BY <1>2, <1>3, <1>4, <1>5

LEMMA SameFiles ==
  ASSUME DriverInv, UNCHANGED project
  PROVE  FilesInv' /\ (UNCHANGED buffers => BuffersInv')
BY DEF DriverInv, FilesInv, BuffersInv, project

LEMMA ReadStep == DriverInv /\ ReadEntry => DriverInv'
<1> SUFFICES ASSUME DriverInv, ReadEntry PROVE DriverInv'
  OBVIOUS
<1>1. PICK entry \in unread :
        /\ unread' = unread \ {entry}
        /\ files' = IF ~IsSource(entry) THEN files
                    ELSE IF Len(files) + 1 = FileModulus THEN <<>>
                    ELSE Append(files, [name |-> entry.name, text |-> entry.text])
  BY DEF ReadEntry
<1>2. /\ stage = "discover" /\ stage' = stage /\ directory' = directory
      /\ buffers' = buffers /\ compiled' = compiled /\ current' = current
      /\ disk' = disk /\ failed' = failed
  BY DEF ReadEntry, linking
<1>3. entry \in UNION Projects
  BY <1>1 DEF DriverInv, FilesInv
<1>4. PICK source : source = [name |-> entry.name, text |-> entry.text]
  OBVIOUS
<1>5. source \in Sources
  BY <1>3, <1>4 DEF Sources
<1>6. PICK n \in Nat : n = Len(files)
  BY DEF DriverInv, FilesInv
<1>7. files' \in Seq(Sources) /\ Len(files') < FileModulus /\ Len(files') \in Nat
  <2>1. files \in Seq(Sources) /\ n < FileModulus
    BY <1>6 DEF DriverInv, FilesInv
  <2>2. CASE files' = files
    BY <2>1, <2>2, <1>6
  <2>3. CASE files' = <<>>
    BY <2>3, FileAssumption
  <2>4. CASE files' = Append(files, source) /\ n + 1 # FileModulus
    <3>1. files' \in Seq(Sources) /\ Len(files') = n + 1
      BY <2>1, <2>4, <1>5, <1>6
    <3> QED BY <2>1, <2>4, <3>1, FileAssumption
  <2> QED BY <1>1, <1>4, <1>6, <2>2, <2>3, <2>4
<1>8. FilesInv'
  BY <1>1, <1>2, <1>7 DEF DriverInv, FilesInv
<1>9. CountsInv'
  BY <1>2, <1>7 DEF DriverInv, CountsInv
<1>10. BuffersInv' /\ LexInv' /\ ParseInv' /\ AstInv' /\ DiskInv'
  <2>1. buffers' = <<>>
    BY <1>2 DEF DriverInv, CountsInv
  <2> QED BY <1>2, <2>1 DEF DriverInv, BuffersInv, LexInv, ParseInv, AstInv, DiskInv
<1> QED BY <1>8, <1>9, <1>10 DEF DriverInv

LEMMA BeginLexingStep == DriverInv /\ BeginLexing => DriverInv'
<1> SUFFICES ASSUME DriverInv, BeginLexing PROVE DriverInv'
  OBVIOUS
<1>1. PICK n \in Nat : n = Len(buffers)
  BY DEF DriverInv, CountsInv, IsSequence
<1>2. /\ n < Len(files) /\ current' = n + 1 /\ text' = files[n + 1].text
      /\ offset' = 0 /\ lexed' = <<>> /\ invalid' = <<>>
      /\ stage' = "lex" /\ buffers' = buffers /\ compiled' = compiled
      /\ files' = files /\ disk' = disk /\ failed' = failed
      /\ UNCHANGED project
  BY <1>1 DEF BeginLexing, SetCurrentFile, project, linking
<1>3. Len(files) \in Nat /\ files[n + 1] \in Sources
  BY <1>1, <1>2 DEF DriverInv, FilesInv
<1>4. text' \in Texts
  <2>1. PICK entry \in UNION Projects :
          files[n + 1] = [name |-> entry.name, text |-> entry.text]
    BY <1>3 DEF Sources
  <2>2. entry.text \in Texts
    BY ProjectsAssumption
  <2> QED BY <1>2, <2>1, <2>2
<1>5. LXP!LexerInv'
  <2>1. (text \in Texts /\ LX!Begin)' => LXP!LexerInv'
    BY BeginLexer, PTL
  <2> QED BY <1>2, <1>4, <2>1 DEF LX!Begin
<1>6. FilesInv' /\ BuffersInv'
  BY <1>2, SameFiles
<1>7. CountsInv'
  BY <1>1, <1>2, <1>3 DEF DriverInv, CountsInv, Stages
<1>8. LexInv' /\ ParseInv' /\ AstInv' /\ DiskInv'
  BY <1>1, <1>2, <1>5 DEF DriverInv, LexInv, ParseInv, AstInv, DiskInv
<1> QED BY <1>6, <1>7, <1>8 DEF DriverInv

LEMMA LexStep == DriverInv /\ Lex => DriverInv'
<1> SUFFICES ASSUME DriverInv, Lex PROVE DriverInv'
  OBVIOUS
<1>1. /\ stage = "lex" /\ stage' = stage /\ LX!Next
      /\ buffers' = buffers /\ compiled' = compiled /\ current' = current
      /\ UNCHANGED project /\ files' = files /\ disk' = disk /\ failed' = failed
  BY DEF Lex, project, linking
<1>2. FilesInv' /\ BuffersInv'
  BY <1>1, SameFiles
<1>3. CountsInv' /\ ParseInv' /\ AstInv' /\ DiskInv'
  BY <1>1 DEF DriverInv, CountsInv, ParseInv, AstInv, DiskInv
<1>4. LXP!LexerInv'
  BY <1>1, NextLexer DEF DriverInv, LexInv
<1>5. text' = text
  BY <1>1, Zenon DEF LX!Next, LX!SkipWhitespace, LX!Number, LX!Identifier, LX!TwoChars, LX!OneChar,
     LX!Invalid, LX!Push
<1>6. LexInv'
  BY <1>1, <1>4, <1>5 DEF DriverInv, LexInv
<1> QED BY <1>2, <1>3, <1>6 DEF DriverInv

LEMMA EndLexingStep == DriverInv /\ EndLexing => DriverInv'
<1> SUFFICES ASSUME DriverInv, EndLexing PROVE DriverInv'
  OBVIOUS
<1>1. /\ stage = "lex" /\ buffers' = Append(buffers, LX!Tokens)
      /\ compiled' = compiled /\ current' = current
      /\ UNCHANGED project /\ files' = files /\ disk' = disk /\ failed' = failed
  BY DEF EndLexing, project, linking
<1>2. stage' \in {"aborted", "assertion_failed", "read"}
  BY RecordFact DEF EndLexing
<1>3. PICK n \in Nat : n = Len(buffers)
  BY DEF DriverInv, CountsInv, IsSequence
<1>4. /\ IsSequence(buffers') /\ Len(buffers') = n + 1
      /\ buffers'[n + 1] = LX!Tokens /\ \A i \in 1 .. n : buffers'[i] = buffers[i]
  BY <1>1, <1>3, AppendFact DEF DriverInv, CountsInv
<1>5. CountsInv'
  <2>1. Len(files) \in Nat /\ n < Len(files)
    BY <1>1, <1>3 DEF DriverInv, FilesInv, CountsInv
  <2> QED BY <1>1, <1>2, <1>3, <1>4, <2>1 DEF DriverInv, CountsInv, Stages
<1>6. IsBuffer(LX!Tokens, files[n + 1].text)
  BY <1>1, <1>3, LexerMakesTokens DEF DriverInv, LexInv
<1>7. ASSUME NEW i \in 1 .. n + 1 PROVE IsBuffer(buffers'[i], files[i].text)
  <2>1. CASE i = n + 1
    BY <1>4, <1>6, <2>1
  <2>2. CASE i # n + 1
    <3>1. i \in 1 .. n
      BY <2>2
    <3>2. buffers'[i] = buffers[i] /\ IsBuffer(buffers[i], files[i].text)
      BY <1>3, <1>4, <3>1 DEF DriverInv, BuffersInv
    <3> QED BY <3>2
  <2> QED BY <2>1, <2>2
<1>8. BuffersInv'
  BY <1>1, <1>4, <1>7 DEF BuffersInv
<1>9. FilesInv' /\ LexInv' /\ ParseInv' /\ AstInv' /\ DiskInv'
  BY <1>1, <1>2, SameFiles DEF DriverInv, LexInv, ParseInv, AstInv, DiskInv
<1> QED BY <1>5, <1>8, <1>9 DEF DriverInv

--------------------------------------------------------------------------------
(* Parsing.                                                                *)

LEMMA CommitTokens ==
  \A to, errors, exprs, stmts : Commit(to, errors, exprs, stmts) => tokens' = tokens
BY DEF Commit

\* No step changes the tokens.
LEMMA NextTokens == Next => tokens' = tokens
<1> USE CommitTokens
<1> USE DEF Stay, Advance, AllocateExpressions, AllocateStatement
<1>1. CASE Expressions
  <2>1. CASE Literal \/ BeginPrefix \/ EndPrefix \/ BeginParentheses \/ EndParentheses
    BY <2>1, Zenon DEF Literal, BeginPrefix, EndPrefix, BeginParentheses, EndParentheses
  <2>2. CASE BeginIndex \/ EndIndex \/ EndOperand \/ MissingOperand
    BY <2>2, Zenon DEF BeginIndex, EndIndex, EndOperand, MissingOperand
  <2>3. CASE BeginArray \/ BeginElement \/ EndElement \/ EndArray
    BY <2>3, Zenon DEF BeginArray, BeginElement, EndElement, EndArray
  <2>4. CASE BeginRhs \/ EndRhs \/ EndExpression
    BY <2>4, Zenon DEF BeginRhs, EndRhs, EndExpression
  <2> QED BY <1>1, <2>1, <2>2, <2>3, <2>4, Zenon DEF Expressions
<1>2. CASE Statements
  <2>1. CASE BeginBlock \/ BeginBlockStatement \/ EndBlockStatement \/ EndBlock
    BY <2>1, Zenon DEF BeginBlock, BeginBlockStatement, EndBlockStatement, EndBlock
  <2>2. CASE BeginNotABlock \/ EndNotABlock \/ BeginStatement \/ EndReturn \/ BeginSetValue
    BY <2>2, Zenon DEF BeginNotABlock, EndNotABlock, BeginStatement, EndReturn, BeginSetValue
  <2>3. CASE EndSet \/ BeginTrueBranch \/ BeginFalseBranch \/ EndIfWithoutElse \/ EndIfElse
    BY <2>3, Zenon DEF EndSet, BeginTrueBranch, BeginFalseBranch, EndIfWithoutElse, EndIfElse
  <2>4. CASE UnmatchedElse \/ BeginWhileBody \/ EndWhile \/ StatementIsBlock
    BY <2>4, Zenon DEF UnmatchedElse, BeginWhileBody, EndWhile, StatementIsBlock
  <2>5. CASE BeginDefinition \/ EndDefinition \/ MissingStatement
    BY <2>5, Zenon DEF BeginDefinition, EndDefinition, MissingStatement
  <2> QED BY <1>2, <2>1, <2>2, <2>3, <2>4, <2>5, Zenon DEF Statements
<1>3. CASE BeginFunction \/ EndFunction \/ NotAFunction \/ EndParse
  BY <1>3, Zenon DEF BeginFunction, EndFunction, NotAFunction, EndParse
<1> QED BY <1>1, <1>2, <1>3, Zenon DEF Next
LEMMA BufferFact ==
  ASSUME DriverInv, stage = "compile" \/ stage = "parse", compiled < Len(files)
  PROVE  /\ IsBuffer(Buffer, Content)
         /\ \E n \in Nat : n = Len(Buffer) /\ DOMAIN Buffer = 1 .. n
<1>1. compiled + 1 \in 1 .. Len(buffers)
  BY DEF DriverInv, CountsInv, IsSequence
<1>2. IsBuffer(Buffer, Content)
  BY <1>1 DEF DriverInv, BuffersInv, Buffer, Content
<1>3. PICK b : b = Buffer
  OBVIOUS
<1>4. b \in Seq({b[i] : i \in DOMAIN b})
  BY <1>2, <1>3 DEF IsBuffer, IsSequence
<1>5. \E n \in Nat : n = Len(b) /\ DOMAIN b = 1 .. n
  BY <1>4
<1> QED BY <1>2, <1>3, <1>5

LEMMA BeginParser == tokens \in Seq(Kinds) /\ Begin => IInv /\ TreesInv /\ ShapesInv
BY BeginInv, BeginForest, BeginShapes

LEMMA NoLiteralsYet ==
  ASSUME NEW P, (tokens \in Seq(Kinds))', Begin', (IInv)',
         \A i \in 1 .. Len(tokens') : tokens'[i] = "number" => i \in P
  PROVE  LiteralsInv(P)'
<1>1. /\ calls' = <<>> /\ temp' = <<>> /\ expressions' = <<>>
      /\ result' = Node("missing", <<>>, 0, 0)
  BY DEF Begin
<1>2. result' \in Literals(P)
  <2>1. result' \in Nodes
    BY DEF IInv, TypeOK
  <2>2. result'.kind = "missing"
    BY <1>1, NodeKind
  <2> QED BY <2>1, <2>2 DEF Literals
<1> QED BY <1>1, <1>2, NoLiterals DEF LiteralsInv

LEMMA BeginParsingStep == DriverInv /\ BeginParsing => DriverInv'
<1> SUFFICES ASSUME DriverInv, BeginParsing PROVE DriverInv'
  OBVIOUS
<1>1. /\ stage = "compile" /\ compiled < Len(files) /\ current' = compiled + 1
      /\ tokens' = [i \in DOMAIN Buffer |-> Buffer[i].kind]
      /\ stage' = "parse" /\ buffers' = buffers /\ compiled' = compiled
      /\ files' = files /\ disk' = disk /\ failed' = failed
      /\ UNCHANGED project
  BY DEF BeginParsing, SetCurrentFile, project, linking
<1>2. Begin'
  BY DEF BeginParsing, BeginPass, Begin
<1>3. PICK b : b = Buffer
  OBVIOUS
<1>4. IsBuffer(b, Content) /\ \E n \in Nat : n = Len(b) /\ DOMAIN b = 1 .. n
  BY <1>1, <1>3, BufferFact
<1>5. PICK n \in Nat : n = Len(b) /\ DOMAIN b = 1 .. n
  BY <1>4
<1>6. \A i \in 1 .. n : b[i].kind \in Kinds
  BY <1>4, <1>5 DEF IsBuffer, IsToken
<1>7. tokens' = [i \in 1 .. n |-> b[i].kind]
  BY <1>1, <1>3, <1>5
<1>8. tokens' \in Seq(Kinds) /\ Len(tokens') = n
  BY <1>6, <1>7
<1>9. IInv' /\ TreesInv' /\ ShapesInv'
  <2>1. (tokens \in Seq(Kinds) /\ Begin)' => (IInv /\ TreesInv /\ ShapesInv)'
    BY BeginParser, PTL
  <2> QED BY <1>2, <1>8, <2>1
<1>10. Buffer' = b
  BY <1>1, <1>3 DEF Buffer
<1>11. PICK P : P = NumberTokens(b)
  OBVIOUS
<1>12. LiteralsInv(P)'
  <2>1. \A i \in 1 .. Len(tokens') : tokens'[i] = "number" => i \in P
    BY <1>5, <1>7, <1>8, <1>11 DEF NumberTokens
  <2> QED BY <1>2, <1>8, <1>9, <2>1, NoLiteralsYet
<1>13. LiteralsInv(NumberTokens(Buffer))'
  BY <1>10, <1>11, <1>12 DEF LiteralsInv, NumberTokens
<1>14. ParseInv'
  BY <1>1, <1>3, <1>9, <1>10, <1>13 DEF ParseInv
<1>15. FilesInv' /\ BuffersInv'
  BY <1>1, SameFiles
<1>16. CountsInv'
  <2>1. Len(files) \in Nat
    BY DEF DriverInv, FilesInv
  <2> QED BY <1>1, <2>1 DEF DriverInv, CountsInv, Stages
<1>17. LexInv' /\ AstInv' /\ DiskInv'
  BY <1>1 DEF DriverInv, LexInv, AstInv, DiskInv
<1> QED BY <1>14, <1>15, <1>16, <1>17 DEF DriverInv

LEMMA ParseStep == DriverInv /\ Parse => DriverInv'
<1> SUFFICES ASSUME DriverInv, Parse PROVE DriverInv'
  OBVIOUS
<1>1. /\ stage = "parse" /\ stage' = stage /\ Next
      /\ buffers' = buffers /\ compiled' = compiled /\ current' = current
      /\ UNCHANGED project /\ files' = files /\ disk' = disk /\ failed' = failed
  BY DEF Parse, project, linking
<1>2. IInv /\ TreesInv /\ ShapesInv /\ LiteralsInv(NumberTokens(Buffer))
  BY <1>1 DEF DriverInv, ParseInv
<1>3. IInv' /\ TreesInv' /\ ShapesInv'
  <2>1. IInv'
    BY <1>1, <1>2, NextInv
  <2> QED BY <1>1, <1>2, <2>1, NextTrees, NextShapes
<1>4. PICK P : P = NumberTokens(Buffer)
  OBVIOUS
<1>5. LiteralsInv(P)
  BY <1>2, <1>4
<1>6. LiteralsInv(P)'
  BY <1>1, <1>2, <1>3, <1>5, NextLiterals
<1>7. Buffer' = Buffer
  BY <1>1 DEF Buffer
<1>8. LiteralsInv(NumberTokens(Buffer))'
  BY <1>4, <1>6, <1>7 DEF LiteralsInv, NumberTokens
<1>9. tokens' = tokens
  BY <1>1, <1>2, NextTokens
<1>10. ParseInv'
  BY <1>1, <1>3, <1>7, <1>8, <1>9 DEF DriverInv, ParseInv
<1>11. FilesInv' /\ BuffersInv'
  BY <1>1, SameFiles
<1>12. CountsInv' /\ LexInv' /\ AstInv' /\ DiskInv'
  BY <1>1 DEF DriverInv, CountsInv, LexInv, AstInv, DiskInv
<1> QED BY <1>10, <1>11, <1>12 DEF DriverInv

--------------------------------------------------------------------------------
(* The AST with names and values.                                          *)

LEMMA SpellingOfNumber ==
  ASSUME IsBuffer(Buffer, Content), Content \in Texts, NEW i \in NumberTokens(Buffer)
  PROVE  ValueOf(Spelling(i)) \in Nat
<1>1. PICK token : token = Buffer[i]
  OBVIOUS
<1>2. IsToken(token, Content) /\ token.kind = "number"
  BY <1>1 DEF IsBuffer, NumberTokens
<1>3. PICK from, to \in Nat : from = token.start /\ to = token.end
  BY <1>2 DEF IsToken
<1>4. /\ from < to /\ to <= Len(Content)
      /\ \A k \in from + 1 .. to : Content[k] \in Digits
  BY <1>2, <1>3 DEF IsToken
<1>5. PICK content : content = Content
  OBVIOUS
<1>6. PICK size \in Nat : size = Len(content) /\ DOMAIN content = 1 .. size
  BY <1>5, TextsAssumption
<1>7. PICK s : s = Spelling(i)
  OBVIOUS
<1>8. s = SubSeq(content, from + 1, to)
  BY <1>1, <1>3, <1>5, <1>7 DEF Spelling
<1>9. Len(s) = to - from /\ \A j \in 1 .. to - from : s[j] = content[from + j]
  <2>1. content \in Seq({content[j] : j \in DOMAIN content} \ {Nul})
    BY <1>5, TextsAssumption
  <2>2. from + 1 \in 1 .. size + 1 /\ to \in from .. size
    BY <1>4, <1>5, <1>6
  <2> QED BY <1>6, <1>8, <2>1, <2>2
<1>10. \A j \in 1 .. to - from : s[j] \in Digits
  <2>1. \A j \in 1 .. to - from : from + j \in from + 1 .. to
    OBVIOUS
  <2> QED BY <1>4, <1>5, <1>9, <2>1
<1>11. to - from \in Nat
  BY <1>4
<1> QED BY <1>7, <1>9, <1>10, <1>11, ValueIsNatural

LEMMA SpelledNode ==
  ASSUME NEW n \in Nodes
  PROVE  /\ Spelled(n).kind = n.kind
         /\ n.kind \notin {"variable", "int_literal", "local_definition"} => Spelled(n).data = n.data
         /\ n.kind = "int_literal" => Spelled(n).data = <<ValueOf(Spelling(n.data[1]))>>
         /\ n.kind = "local_definition" => Spelled(n).data[2] = n.data[2]
<1>1. DOMAIN n = {"kind", "data", "start", "end"}
  BY DEF Nodes
<1> QED BY <1>1 DEF Spelled

LEMMA SpelledExpression ==
  ASSUME NEW n \in Nodes, NEW exprs, IsExpression(n, exprs),
         n.kind = "int_literal" => ValueOf(Spelling(n.data[1])) \in Nat
  PROVE  IsExpression(Spelled(n), exprs)
<1>1. PICK s : s = Spelled(n)
  OBVIOUS
<1>2. s.kind = n.kind
  BY <1>1, SpelledNode
<1>3. ASSUME n.kind \in {"missing", "variable"} PROVE IsExpression(s, exprs)
  BY <1>2, <1>3 DEF IsExpression, BinaryOperators
<1>4. ASSUME n.kind = "int_literal" PROVE IsExpression(s, exprs)
  <2>1. s.data = <<ValueOf(Spelling(n.data[1]))>>
    BY <1>1, <1>4, SpelledNode
  <2>2. s.data \in Seq(Int)
    BY <1>4, <2>1
  <2> QED BY <1>2, <1>4, <2>2 DEF IsExpression, BinaryOperators
<1>5. ASSUME n.kind \notin {"missing", "variable", "int_literal"} PROVE IsExpression(s, exprs)
  <2>1. n.kind # "local_definition"
    BY <1>5 DEF IsExpression, BinaryOperators
  <2>2. s.data = n.data
    BY <1>1, <1>5, <2>1, SpelledNode
  <2> QED BY <1>2, <2>2, Zenon DEF IsExpression
<1> QED BY <1>1, <1>3, <1>4, <1>5

LEMMA SpelledStatement ==
  ASSUME NEW n \in Nodes, NEW exprs, NEW stmts, IsStatement(n, exprs, stmts)
  PROVE  IsStatement(Spelled(n), exprs, stmts)
<1>1. PICK s : s = Spelled(n)
  OBVIOUS
<1>2. s.kind = n.kind
  BY <1>1, SpelledNode
<1>3. ASSUME n.kind = "local_definition" PROVE IsStatement(s, exprs, stmts)
  <2>1. s.data[2] = n.data[2]
    BY <1>1, <1>3, SpelledNode
  <2>2. n.data[2] \in exprs
    BY <1>3 DEF IsStatement
  <2> QED BY <1>2, <1>3, <2>1, <2>2 DEF IsStatement
<1>4. ASSUME n.kind # "local_definition" PROVE IsStatement(s, exprs, stmts)
  <2>1. n.kind \notin {"variable", "int_literal"}
    BY <1>4 DEF IsStatement
  <2>2. s.data = n.data
    BY <1>1, <1>4, <2>1, SpelledNode
  <2> QED BY <1>2, <2>2, Zenon DEF IsStatement
<1> QED BY <1>1, <1>3, <1>4

LEMMA SpelledAstIsAst ==
  ASSUME IInv, TreesInv, ShapesInv, LiteralsInv(NumberTokens(Buffer)),
         IsBuffer(Buffer, Content), Content \in Texts
  PROVE  IsAst(SpelledAst)
<1>1. AstIsComplete
  BY ShapesComplete DEF IInv
<1>2. /\ expressions \in Seq(Nodes) /\ statements \in Seq(Nodes)
      /\ functions \in Seq([name : Nat, body : Nat])
  BY DEF IInv, TypeOK
<1>3. PICK exprs, stmts : exprs = DOMAIN expressions /\ stmts = DOMAIN statements
  OBVIOUS
<1>4. /\ \A i \in exprs : IsExpression(expressions[i], exprs)
      /\ \A i \in stmts : IsStatement(statements[i], exprs, stmts)
      /\ \A i \in DOMAIN functions : functions[i].body \in stmts
  BY <1>1, <1>3 DEF AstIsComplete, IsAst
<1>5. PICK root : root = SpelledAst
  OBVIOUS
<1>6. /\ root.expressions = [i \in exprs |-> Spelled(expressions[i])]
      /\ root.statements = [i \in stmts |-> Spelled(statements[i])]
      /\ root.functions = [i \in DOMAIN functions |->
           [functions[i] EXCEPT !.name = IF functions[i].name = NoName THEN <<>>
                                         ELSE Spelling(functions[i].name)]]
  BY <1>3, <1>5 DEF SpelledAst
<1>7. ASSUME NEW i \in exprs PROVE IsExpression(Spelled(expressions[i]), exprs)
  <2>1. PICK n \in Nodes : n = expressions[i]
    BY <1>2, <1>3
  <2>2. IsExpression(n, exprs)
    BY <1>4, <2>1
  <2>3. n.kind = "int_literal" => n.data[1] \in NumberTokens(Buffer)
    <3>1. n \in Literals(NumberTokens(Buffer))
      BY <1>3, <2>1 DEF LiteralsInv
    <3> QED BY <3>1 DEF Literals
  <2>4. n.kind = "int_literal" => ValueOf(Spelling(n.data[1])) \in Nat
    BY <2>3, SpellingOfNumber
  <2> QED BY <2>1, <2>2, <2>4, SpelledExpression
<1>8. ASSUME NEW i \in stmts PROVE IsStatement(Spelled(statements[i]), exprs, stmts)
  <2>1. PICK n \in Nodes : n = statements[i]
    BY <1>2, <1>3
  <2> QED BY <1>4, <2>1, SpelledStatement
<1>9. \A i \in DOMAIN functions : root.functions[i].body = functions[i].body
  <2>1. \A i \in DOMAIN functions : functions[i] \in [name : Nat, body : Nat]
    <3> DEFINE S == [name : Nat, body : Nat]
    <3>1. functions \in Seq(S)
      BY <1>2
    <3> HIDE DEF S
    <3>2. \A i \in DOMAIN functions : functions[i] \in S
      BY <3>1
    <3> QED BY <3>2 DEF S
  <2> QED BY <1>6, <2>1
<1>10. IsSequence(root.functions)
  <2>1. PICK k \in Nat : DOMAIN functions = 1 .. k
    BY <1>2
  <2>2. PICK fs : fs = root.functions
    OBVIOUS
  <2>3. DOMAIN fs = 1 .. k /\ fs = [i \in 1 .. k |-> fs[i]]
    BY <1>6, <2>1, <2>2
  <2> DEFINE S == {fs[i] : i \in DOMAIN fs}
  <2>4. fs \in [1 .. k -> S]
    BY <2>3
  <2> HIDE DEF S
  <2>5. fs \in Seq(S)
    BY <2>4
  <2> QED BY <2>2, <2>5 DEF IsSequence, S
<1>11. /\ DOMAIN root.expressions = exprs /\ DOMAIN root.statements = stmts
       /\ DOMAIN root.functions = DOMAIN functions
       /\ \A i \in exprs : root.expressions[i] = Spelled(expressions[i])
       /\ \A i \in stmts : root.statements[i] = Spelled(statements[i])
  BY <1>6
<1>12. IsAst(root)
  BY <1>4, <1>7, <1>8, <1>9, <1>10, <1>11 DEF IsAst
<1> QED BY <1>5, <1>12

LEMMA EndParsingStep == DriverInv /\ EndParsing => DriverInv'
<1> SUFFICES ASSUME DriverInv, EndParsing PROVE DriverInv'
  OBVIOUS
<1>1. /\ stage = "parse" /\ ast' = SpelledAst
      /\ buffers' = buffers /\ compiled' = compiled /\ current' = current
      /\ UNCHANGED project /\ files' = files /\ disk' = disk /\ failed' = failed
  BY DEF EndParsing, project, linking
<1>2. stage' \in {"aborted", "assertion_failed", "lower"}
  BY RecordFact DEF EndParsing
<1>3. Content \in Texts
  <2>1. compiled + 1 \in 1 .. Len(files) /\ files \in Seq(Sources)
    BY <1>1 DEF DriverInv, CountsInv, FilesInv
  <2>2. PICK source \in Sources : source = files[compiled + 1]
    BY <2>1
  <2>3. PICK entry \in UNION Projects : source = [name |-> entry.name, text |-> entry.text]
    BY DEF Sources
  <2>4. entry.text \in Texts
    BY ProjectsAssumption
  <2> QED BY <2>2, <2>3, <2>4 DEF Content
<1>4. IsAst(SpelledAst)
  <2>1. IsBuffer(Buffer, Content)
    BY <1>1, BufferFact DEF DriverInv, CountsInv
  <2> QED BY <1>1, <1>3, <2>1, SpelledAstIsAst DEF DriverInv, ParseInv
<1>5. AstInv'
  BY <1>1, <1>4 DEF AstInv
<1>6. FilesInv' /\ BuffersInv'
  BY <1>1, SameFiles
<1>7. CountsInv' /\ LexInv' /\ ParseInv' /\ DiskInv'
  BY <1>1, <1>2 DEF DriverInv, CountsInv, LexInv, ParseInv, DiskInv, Stages
<1> QED BY <1>5, <1>6, <1>7 DEF DriverInv

--------------------------------------------------------------------------------
(* Lowering only reads the AST.                                            *)

LEMMA CommitAst ==
  \A more_nodes, more_locals, errors, typing :
    L!Commit(more_nodes, more_locals, errors, typing) => ast' = ast
BY DEF L!Commit

LEMMA ReturnAst ==
  /\ \A kind, data, more_nodes, errors : L!ReturnVoid(kind, data, more_nodes, errors) => ast' = ast
  /\ \A errors : L!ReturnMissing(errors) => ast' = ast
  /\ \A what, at, words, shown : L!ReturnMistyped(what, at, words, shown) => ast' = ast
  /\ L!MessageTooLong => ast' = ast
  /\ L!Stay => ast' = ast
<1>1. \A kind, data, more_nodes, errors : L!ReturnVoid(kind, data, more_nodes, errors) => ast' = ast
  BY CommitAst, Zenon DEF L!ReturnVoid
<1>2. \A errors : L!ReturnMissing(errors) => ast' = ast
  BY <1>1, Zenon DEF L!ReturnMissing
<1>3. L!MessageTooLong => ast' = ast
  BY DEF L!MessageTooLong
<1>4. \A what, at, words, shown : L!ReturnMistyped(what, at, words, shown) => ast' = ast
  BY <1>2, <1>3, Zenon DEF L!ReturnMistyped
<1>5. L!Stay => ast' = ast
  BY CommitAst, Zenon DEF L!Stay
<1> QED BY <1>1, <1>2, <1>3, <1>4, <1>5

LEMMA NextAst == L!Next => ast' = ast
<1> USE CommitAst, ReturnAst
<1>1. CASE L!Expressions
  <2>1. CASE L!LowerMissing \/ L!LowerLiteral \/ L!LowerVariable \/ L!UndefinedVariable
    BY <2>1, Zenon DEF L!LowerMissing, L!LowerLiteral, L!LowerVariable, L!UndefinedVariable
  <2>2. CASE L!BeginOperands \/ L!AllocateOperand \/ L!FinishBinaryOperation \/ L!FinishAddressOf
    BY <2>2, Zenon DEF L!BeginOperands, L!AllocateOperand, L!FinishBinaryOperation, L!FinishAddressOf
  <2>3. CASE L!FinishDereference \/ L!DereferenceOfNonPointer \/ L!FinishIndex
             \/ L!IndexIsNotAnInteger \/ L!IndexOfNonArray
    BY <2>3, Zenon DEF L!FinishDereference, L!DereferenceOfNonPointer, L!FinishIndex,
                       L!IndexIsNotAnInteger, L!IndexOfNonArray
  <2>4. CASE L!BeginArray \/ L!BeginElement \/ L!EndElement \/ L!MistypedElement \/ L!EndArray
    BY <2>4, Zenon DEF L!BeginArray, L!BeginElement, L!EndElement, L!MistypedElement, L!EndArray
  <2> QED BY <1>1, <2>1, <2>2, <2>3, <2>4, Zenon DEF L!Expressions
<1>2. CASE L!Statements
  <2>1. CASE L!BeginControlFlow \/ L!FinishControlFlow \/ L!ShadowingDefinition
             \/ L!BeginDefinition \/ L!FinishDefinition
    BY <2>1, Zenon DEF L!BeginControlFlow, L!FinishControlFlow, L!ShadowingDefinition,
                       L!BeginDefinition, L!FinishDefinition
  <2>2. CASE L!BeginAssign \/ L!BeginAssignedValue \/ L!FinishAssign \/ L!MismatchedAssign
    BY <2>2, Zenon DEF L!BeginAssign, L!BeginAssignedValue, L!FinishAssign, L!MismatchedAssign
  <2>3. CASE L!BeginBlock \/ L!BeginBlockStatement \/ L!EndBlockStatement \/ L!EndBlock
    BY <2>3, Zenon DEF L!BeginBlock, L!BeginBlockStatement, L!EndBlockStatement, L!EndBlock
  <2> QED BY <1>2, <2>1, <2>2, <2>3, Zenon DEF L!Statements
<1>3. CASE L!SkipFunction \/ L!BeginFunction \/ L!EndFunction \/ L!EndLower
  BY <1>3, Zenon DEF L!SkipFunction, L!BeginFunction, L!EndFunction, L!EndLower
<1> QED BY <1>1, <1>2, <1>3, Zenon DEF L!Next

--------------------------------------------------------------------------------
(* The rest of the process.                                                *)

LEMMA LowerStep == DriverInv /\ LowerAst => DriverInv'
<1> SUFFICES ASSUME DriverInv, LowerAst PROVE DriverInv'
  OBVIOUS
<1>1. /\ stage = "lower" /\ stage' = stage /\ ast' = ast
      /\ buffers' = buffers /\ compiled' = compiled /\ current' = current
      /\ UNCHANGED project /\ files' = files /\ disk' = disk /\ failed' = failed
  BY NextAst DEF LowerAst, project, linking
<1>2. FilesInv' /\ BuffersInv'
  BY <1>1, SameFiles
<1> QED BY <1>1, <1>2 DEF DriverInv, CountsInv, DiskInv, LexInv, ParseInv, AstInv

\* A step to a stage that is not of a pass of which the invariant says
\* something, and with no file left to compile if it is the last.
LEMMA StageStep ==
  ASSUME DriverInv, UNCHANGED project, UNCHANGED buffers, UNCHANGED current,
         stage' \in Stages \ {"discover", "lex", "parse", "lower"},
         compiled' \in Nat, compiled' <= Len(files),
         stage' = "compile" => Len(buffers) = Len(files),
         Len(buffers) = Len(files) \/ compiled' = compiled,
         stage' = "generate" => stage \in {"lower", "generate"} /\ compiled' = compiled,
         DiskInv'
  PROVE  DriverInv'
<1>1. FilesInv' /\ BuffersInv'
  BY SameFiles
<1>2. CountsInv'
  BY DEF DriverInv, CountsInv, project
<1>3. LexInv' /\ ParseInv' /\ AstInv'
  BY DEF LexInv, ParseInv, AstInv
<1> QED BY <1>1, <1>2, <1>3 DEF DriverInv

LEMMA PassSteps == DriverInv /\ (EndLowering \/ Generate \/ EndGenerating) => DriverInv'
<1> SUFFICES ASSUME DriverInv, EndLowering \/ Generate \/ EndGenerating PROVE DriverInv'
  OBVIOUS
<1>1. /\ UNCHANGED project /\ UNCHANGED buffers /\ UNCHANGED current
      /\ UNCHANGED linking /\ stage \in {"lower", "generate"}
  BY DEF EndLowering, Generate, EndGenerating
<1>2. DiskInv'
  BY <1>1 DEF DriverInv, DiskInv, linking
<1>3. /\ compiled \in Nat /\ compiled < Len(files) /\ Len(files) \in Nat
      /\ Len(buffers) = Len(files)
  BY <1>1 DEF DriverInv, CountsInv, FilesInv
<1>4. CASE EndLowering
  <2>1. compiled' = compiled /\ stage' \in {"aborted", "assertion_failed", "generate"}
    BY <1>4, RecordFact DEF EndLowering
  <2> QED BY <1>1, <1>2, <1>3, <2>1, StageStep DEF Stages
<1>5. CASE Generate
  <2>1. compiled' = compiled /\ stage' = stage /\ stage = "generate"
    BY <1>5 DEF Generate
  <2> QED BY <1>1, <1>2, <1>3, <2>1, StageStep DEF Stages
<1>6. CASE EndGenerating
  <2>1. compiled' = compiled + 1 /\ stage' \in {"aborted", "assertion_failed", "compile"}
    BY <1>6, RecordFact DEF EndGenerating
  <2> QED BY <1>1, <1>2, <1>3, <2>1, StageStep DEF Stages
<1> QED BY <1>4, <1>5, <1>6

LEMMA MakesFact ==
  ASSUME DiskInv, NEW tool \in {"write", "as", "ld"}, NEW name, NEW wanted, NEW possible, NEW others,
         Makes(tool, name, wanted, possible, others)
  PROVE  DiskInv'
BY DEF DiskInv, Makes

LEMMA OtherSteps ==
  DriverInv /\ (\/ EndDiscovery \/ InternAll \/ AbortPass \/ ShowDiagnostics
                \/ WriteAssembly \/ Assemble \/ Link \/ Test) => DriverInv'
<1> SUFFICES ASSUME DriverInv, \/ EndDiscovery \/ InternAll \/ AbortPass \/ ShowDiagnostics
                               \/ WriteAssembly \/ Assemble \/ Link \/ Test
             PROVE  DriverInv'
  OBVIOUS
<1>1. /\ UNCHANGED project /\ UNCHANGED buffers /\ UNCHANGED current
      /\ UNCHANGED compiled
  BY DEF EndDiscovery, InternAll, AbortPass, ShowDiagnostics, WriteAssembly, Assemble, Link, Test
<1>2. DiskInv'
  <2>1. CASE UNCHANGED linking
    BY <2>1 DEF DriverInv, DiskInv, linking
  <2>2. CASE WriteAssembly \/ Assemble \/ Link
    BY <2>2, MakesFact DEF DriverInv, WriteAssembly, Assemble, Link
  <2> QED BY <2>1, <2>2 DEF EndDiscovery, InternAll, AbortPass, ShowDiagnostics, Test
<1>3. /\ stage' \in {"read", "compile", "aborted", "assertion_failed", "exit_1", "write",
                     "assemble", "link", "exit_0", "test"}
      /\ stage' = "compile" => Len(buffers) = Len(files)
  BY DEF EndDiscovery, InternAll, AbortPass, ShowDiagnostics, WriteAssembly, Assemble, Link, Test
<1>4. compiled' \in Nat /\ compiled' <= Len(files)
  BY <1>1 DEF DriverInv, CountsInv, FilesInv, IsSequence
<1> QED BY <1>1, <1>2, <1>3, <1>4, StageStep DEF Stages

LEMMA NoStep == DriverInv /\ UNCHANGED driverVars => DriverInv'
<1> SUFFICES ASSUME DriverInv, UNCHANGED driverVars PROVE DriverInv'
  OBVIOUS
<1>1. /\ UNCHANGED <<stage, buffers, compiled, current, files, disk, failed, ast>>
      /\ UNCHANGED project /\ UNCHANGED lexing /\ UNCHANGED vars
  BY DEF driverVars, project, linking, lowering, lexing, parsing, pass, vars
<1>2. LXP!LexerInv => LXP!LexerInv'
  BY <1>1, NextLexer
<1>3. IInv /\ TreesInv /\ ShapesInv => IInv' /\ TreesInv' /\ ShapesInv'
  BY <1>1, NextInv, NextTrees, NextShapes
<1>4. ParseInv'
  BY <1>1, <1>3 DEF DriverInv, ParseInv, vars, LiteralsInv, Buffer, NumberTokens
<1>5. FilesInv' /\ BuffersInv'
  BY <1>1, SameFiles
<1> QED BY <1>1, <1>2, <1>4, <1>5 DEF DriverInv, CountsInv, DiskInv, LexInv, AstInv, lexing

LEMMA NextDriver == DriverInv /\ [DriverNext]_driverVars => DriverInv'
BY ReadStep, BeginLexingStep, LexStep, EndLexingStep, BeginParsingStep, ParseStep, EndParsingStep,
   LowerStep, PassSteps, OtherSteps, NoStep DEF DriverNext, Stop

LEMMA DriverInvHolds == DriverSpec => []DriverInv
BY InitDriver, NextDriver, PTL DEF DriverSpec

(* Whatever the files say, the process goes through its stages in order,   *)
(* the file that is compiled is the current one, and the AST that lower()  *)
(* is given, with the names and values that its tokens have, is all that   *)
(* lower() takes for granted of it: of known kinds, a forest, and complete *)
(* (main.c:28-57, parse.c:50, 226-236).                                    *)
THEOREM DriverTypeCorrect == DriverSpec => []DriverTypeOK
<1>1. DriverInv => DriverTypeOK
  BY DEF DriverInv, FilesInv, CountsInv, DiskInv, AstInv, DriverTypeOK, Stages, Ended
<1> QED BY <1>1, DriverInvHolds, PTL

(* In every file main() lexes, the tokens are the longest lexemes of its   *)
(* text, in order, and nothing but whitespace is between them or invalid   *)
(* without having been reported (main.c:30-36, lex.c:91-153).              *)
THEOREM FilesAreLexed == DriverSpec => []TokensAreLongestLexemes
<1>1. DriverInv => TokensAreLongestLexemes
  BY LexerTells DEF DriverInv, LexInv, TokensAreLongestLexemes
<1> QED BY <1>1, DriverInvHolds, PTL

================================================================================
