----------------------------- MODULE ParserProofs -----------------------------
(***************************************************************************)
(* Proofs about Parser, for every sequence of tokens and whatever the      *)
(* limits: the type invariant, that there always is a previous token to    *)
(* report an error at, that recovery loses no function, that builders      *)
(* share the arena, and that every diagnostic marks some text of the file. *)
(***************************************************************************)
EXTENDS Parser, SequenceTheorems, FiniteSetTheorems, TLAPS

Spans == [start : Nat, end : Nat]

\* The frames of array literals and blocks, which use the arena.
BuilderFrame == [at : BuilderLabels, start : Nat, base : Nat, count : Nat]

\* The frames that neither do nor are the function at the bottom.
PlainFrames == {f \in Frames : f.at # "function" /\ ~IsBuilder(f)}

\* The elements a builder has counted are in the arena, below those of the
\* builders nested in it.  (The count may be too small, as it is a u16.)
BuildersFit ==
  \A j \in 1 .. Len(calls) : IsBuilder(calls[j]) =>
    /\ calls[j].base + calls[j].count <= Len(temp)
    /\ \A i \in 1 .. j - 1 : IsBuilder(calls[i]) =>
         calls[j].base + calls[j].count <= calls[i].base

\* The error path looks at the token before the cursor (parse.c:145), and every
\* span ends with it (parse.c:325, 477, 594): while any function of the parser
\* is active there is one.
PreviousTokenExists == calls # <<>> => cursor > 0

\* function() is at the bottom of the stack, and nowhere else.
StackInv == \A i \in 1 .. Len(calls) : calls[i].at = "function" <=> i = Len(calls)

IInv ==
  /\ TypeOK
  /\ PreviousTokenExists
  /\ StackInv
  /\ BuildersFit
  /\ BuildersNested
  /\ EveryFunctionSurvives

\* Named, so that the provers take a tuple for a member of them as a whole.
Errors == Seq(Spans)
NodeSeqs == Seq(Nodes)
PlainCalls == Seq(PlainFrames)
Indices == Seq(Nat)

\* From c to d, there are only tokens other than func.
Passes(c, d) ==
  /\ d \in c .. Len(tokens)
  /\ \A i \in c + 1 .. d : tokens[i] # "func"

FunctionTokens(c) == {i \in 1 .. c : tokens[i] = "func"}
------------------------------------------------------------------------------
(* Tokens and errors.                                                      *)

LEMMA KindFact ==
  ASSUME tokens \in Seq(Kinds), NEW c \in 0 .. Len(tokens)
  PROVE  /\ Kind(c) = "eof" => c = Len(tokens)
         /\ Kind(c) # "eof" => /\ c < Len(tokens) /\ c + 1 \in 1 .. Len(tokens)
                               /\ Kind(c) = tokens[c + 1] /\ Kind(c) \in Kinds
<1>1. "eof" \notin Kinds
  BY DEF Kinds, BinaryOperators
<1> QED BY <1>1 DEF Kind

LEMMA PassesOne ==
  ASSUME tokens \in Seq(Kinds), NEW c \in 0 .. Len(tokens), Kind(c) \notin {"eof", "func"}
  PROVE  Passes(c, c + 1)
<1>1. c < Len(tokens) /\ Kind(c) = tokens[c + 1]
  BY KindFact
<1> QED BY <1>1 DEF Passes

LEMMA PassesNone ==
  ASSUME tokens \in Seq(Kinds), NEW c \in 0 .. Len(tokens)
  PROVE  Passes(c, c)
BY DEF Passes

LEMMA PassesMore ==
  ASSUME tokens \in Seq(Kinds), NEW c \in 0 .. Len(tokens), NEW d, NEW e,
         Passes(c, d), Passes(d, e)
  PROVE  Passes(c, e)
BY DEF Passes

\* error() never eats a func token unless it is told to eat anything.
LEMMA ErrorFact ==
  ASSUME tokens \in Seq(Kinds), NEW c \in 0 .. Len(tokens), NEW mode,
         mode \in {"recover", "eat_none"} \/ (mode = "eat_all" /\ Kind(c) # "func")
  PROVE  /\ Passes(c, Error(c, mode).to)
         /\ Error(c, mode).to \in 0 .. Len(tokens)
         /\ Error(c, mode).errors \in Errors
<1>0. c \in Nat /\ Len(tokens) \in Nat
  OBVIOUS
<1>1. CASE Skips(c, mode)
  <2>1. Kind(c) \notin {"eof", "func"}
    BY <1>1 DEF Skips, AtEof, AtRecovery
  <2>2. Passes(c, c + 1)
    BY <2>1, PassesOne
  <2>3. c < Len(tokens)
    BY <2>1, KindFact
  <2>4. [start |-> StartOf(c + 1), end |-> EndOf(c + 1)] \in Spans
    BY <1>0 DEF StartOf, EndOf, Spans
  <2>5. /\ Error(c, mode).to = c + 1
        /\ Error(c, mode).errors = <<[start |-> StartOf(c + 1), end |-> EndOf(c + 1)]>>
    BY <1>1 DEF Error
  <2>6. Error(c, mode).errors \in Errors
    BY <2>4, <2>5 DEF Errors
  <2> QED BY <1>0, <2>2, <2>3, <2>5, <2>6
<1>2. CASE ~Skips(c, mode)
  <2>1. [start |-> EndOf(c), end |-> EndOf(c) + 1] \in Spans
    BY <1>0 DEF EndOf, Spans
  <2>2. /\ Error(c, mode).to = c
        /\ Error(c, mode).errors = <<[start |-> EndOf(c), end |-> EndOf(c) + 1]>>
    BY <1>2 DEF Error
  <2>3. Error(c, mode).errors \in Errors
    BY <2>1, <2>2 DEF Errors
  <2> QED BY <2>2, <2>3, PassesNone
<1> QED BY <1>1, <1>2

LEMMA ExpectFact ==
  ASSUME tokens \in Seq(Kinds), NEW c \in 0 .. Len(tokens),
         NEW kind \in Kinds, kind # "func", NEW mode \in {"recover", "eat_none"}
  PROVE  /\ Passes(c, Expect(c, kind, mode).to)
         /\ Expect(c, kind, mode).to \in 0 .. Len(tokens)
         /\ Expect(c, kind, mode).errors \in Errors
<1>1. CASE Kind(c) = kind
  <2>1. Kind(c) \notin {"eof", "func"}
    BY <1>1 DEF Kinds, BinaryOperators
  <2>2. Passes(c, c + 1)
    BY <2>1, PassesOne
  <2>3. c < Len(tokens)
    BY <2>1, KindFact
  <2>4. Expect(c, kind, mode).to = c + 1 /\ Expect(c, kind, mode).errors = <<>>
    BY <1>1 DEF Expect
  <2> QED BY <2>2, <2>3, <2>4 DEF Errors
<1>2. CASE Kind(c) # kind
  <2>1. Expect(c, kind, mode) = Error(c, mode)
    BY <1>2 DEF Expect
  <2> QED BY <2>1, ErrorFact
<1> QED BY <1>1, <1>2

\* Tokens other than func do not change which functions have begun.
LEMMA SameFunctionTokens ==
  ASSUME tokens \in Seq(Kinds), NEW c \in 0 .. Len(tokens), NEW d, Passes(c, d)
  PROVE  FunctionTokens(d) = FunctionTokens(c)
BY DEF Passes, FunctionTokens

LEMMA OneMoreFunctionToken ==
  ASSUME tokens \in Seq(Kinds), NEW c \in 0 .. Len(tokens), Kind(c) = "func"
  PROVE  Cardinality(FunctionTokens(c + 1)) = Cardinality(FunctionTokens(c)) + 1
<1>1. c < Len(tokens) /\ tokens[c + 1] = "func"
  BY KindFact
<1>2. FunctionTokens(c + 1) = FunctionTokens(c) \cup {c + 1} /\ c + 1 \notin FunctionTokens(c)
  BY <1>1 DEF FunctionTokens
<1>3. IsFiniteSet(1 .. c)
  BY FS_Interval
<1>4. IsFiniteSet(FunctionTokens(c))
  BY <1>3, FS_Subset DEF FunctionTokens
<1> QED BY <1>2, <1>4, FS_AddElement

\* The name of a function is a position, or missing.
LEMMA ExpectIdentifierFact ==
  ASSUME tokens \in Seq(Kinds), NEW c \in 0 .. Len(tokens)
  PROVE  /\ Passes(c, ExpectIdentifier(c).to)
         /\ ExpectIdentifier(c).to \in 0 .. Len(tokens)
         /\ ExpectIdentifier(c).errors \in Errors
         /\ ExpectIdentifier(c).name \in Nat
<1>1. "identifier" \in Kinds
  BY DEF Kinds
<1>2. /\ Passes(c, Expect(c, "identifier", "recover").to)
      /\ Expect(c, "identifier", "recover").to \in 0 .. Len(tokens)
      /\ Expect(c, "identifier", "recover").errors \in Errors
  BY <1>1, ExpectFact
<1>3. /\ ExpectIdentifier(c).to = Expect(c, "identifier", "recover").to
      /\ ExpectIdentifier(c).errors = Expect(c, "identifier", "recover").errors
      /\ ExpectIdentifier(c).name \in {c + 1, NoName}
  BY DEF ExpectIdentifier
<1> QED BY <1>2, <1>3 DEF NoName

\* Spans start and end at a natural number.
LEMMA PositionFact ==
  ASSUME NEW c \in 0 .. Len(tokens), tokens \in Seq(Kinds)
  PROVE  SpanStart(c) \in Nat /\ EndOf(c) \in Nat /\ StartOf(c) \in Nat /\ c + 1 \in Nat
BY DEF SpanStart, StartOf, EndOf

LEMMA IndicesFact ==
  /\ <<>> \in Indices
  /\ \A i \in Nat : <<i>> \in Indices
  /\ \A i, j \in Nat : <<i, j>> \in Indices
  /\ \A i, j, k \in Nat : <<i, j, k>> \in Indices
BY DEF Indices

LEMMA NodeFact ==
  ASSUME NEW kind \in NodeKinds, NEW data \in Indices, NEW start \in Nat, NEW end \in Nat
  PROVE  Node(kind, data, start, end) \in Nodes
BY DEF Node, Nodes, Indices
------------------------------------------------------------------------------
(* Frames.                                                                 *)

\* The fields of a frame of each kind.
LEMMA FrameFields ==
  ASSUME NEW f \in Frames
  PROVE  /\ f.at = "function" => f.name \in Nat
         /\ f.at = "prefix" => f.start \in Nat /\ f.kind \in NodeKinds
         /\ f.at = "index" => f.array \in Nodes
         /\ f.at = "operators" => f.min \in Nat
         /\ f.at = "rhs" => f.min \in Nat /\ f.lhs \in Nodes /\ f.op \in BinaryOperators
         /\ IsBuilder(f) => f \in BuilderFrame
         /\ f.at \in {"return", "set", "if", "while", "not_a_block", "set_value",
                      "true_branch", "while_body", "false_branch", "definition"}
              => f.start \in Nat
         /\ f.at = "set_value" => f.lhs \in Nat
         /\ f.at \in {"true_branch", "while_body", "false_branch"} => f.condition \in Nat
         /\ f.at = "false_branch" => f.true_block \in Nat
         /\ f.at = "definition" => f.name \in Nat
<1>1. f.at = "function" => f.name \in Nat
  BY DEF Frames
<1>2. f.at = "prefix" => f.start \in Nat /\ f.kind \in NodeKinds
  BY DEF Frames, NodeKinds
<1>3. /\ f.at = "index" => f.array \in Nodes
      /\ f.at = "operators" => f.min \in Nat
  BY DEF Frames
<1>4. f.at = "rhs" => f.min \in Nat /\ f.lhs \in Nodes /\ f.op \in BinaryOperators
  BY DEF Frames
<1>5. IsBuilder(f) => f \in BuilderFrame
  BY DEF Frames, IsBuilder, BuilderLabels, BuilderFrame
<1>6. f.at \in {"return", "set", "if", "while", "not_a_block"} => f.start \in Nat
  BY DEF Frames
<1>7. f.at \in {"set_value", "true_branch", "while_body", "false_branch", "definition"}
        => f.start \in Nat
  BY DEF Frames
<1>8. /\ f.at = "set_value" => f.lhs \in Nat
      /\ f.at = "definition" => f.name \in Nat
  BY DEF Frames
<1>9. /\ f.at \in {"true_branch", "while_body", "false_branch"} => f.condition \in Nat
      /\ f.at = "false_branch" => f.true_block \in Nat
  BY DEF Frames
<1> QED BY <1>1, <1>2, <1>3, <1>4, <1>5, <1>6, <1>7, <1>8, <1>9

LEMMA BuilderIsFrame ==
  ASSUME NEW f \in BuilderFrame
  PROVE  f \in Frames /\ IsBuilder(f) /\ f.at # "function"
BY DEF Frames, IsBuilder, BuilderLabels, BuilderFrame
------------------------------------------------------------------------------
(* Builders on the stack.                                                  *)

\* A stack of frames put on another.
LEMMA ConcatFact ==
  ASSUME NEW s \in Seq(Frames), NEW t \in Seq(Frames)
  PROVE  /\ s \o t \in Seq(Frames)
         /\ Len(s \o t) = Len(s) + Len(t)
         /\ \A i \in 1 .. Len(s) : (s \o t)[i] = s[i]
         /\ \A i \in 1 .. Len(t) : (s \o t)[i + Len(s)] = t[i]
OBVIOUS
\* From its frame d + 1 on, the stack s is t.
EndsWith(s, t, d) == Len(s) = Len(t) + d /\ \A k \in 1 .. Len(t) : s[k + d] = t[k]

\* A part of a stack in another has the same builders.
LEMMA SameBuilders ==
  ASSUME NEW s \in Seq(Frames), NEW t \in Seq(Frames), NEW d \in Nat, EndsWith(s, t, d),
         NEW i \in Nat \ {0}, NEW j \in Nat, j <= Len(t)
  PROVE  NoBuilder(t, i, j) <=> NoBuilder(s, i + d, j + d)
<1> DEFINE a == i + d
           b == j + d
           n == Len(t)
<1>0. /\ a = i + d /\ b = j + d /\ a \in Nat /\ b \in Nat /\ n \in Nat /\ j <= n /\ i \in Nat
      /\ i >= 1 /\ \A k \in 1 .. n : s[k + d] = t[k]
  BY DEF EndsWith
<1> HIDE DEF a, b, n
<1>1. ASSUME NoBuilder(t, i, j), NEW k \in a .. b PROVE ~IsBuilder(s[k])
  <2>1. k - d \in i .. j /\ k - d \in 1 .. n /\ k = (k - d) + d
    BY <1>0
  <2>2. PICK h \in 1 .. n : h \in i .. j /\ k = h + d
    BY <2>1
  <2> QED BY <1>0, <1>1, <2>2 DEF NoBuilder
<1>2. ASSUME NoBuilder(s, a, b), NEW k \in i .. j PROVE ~IsBuilder(t[k])
  <2>1. k + d \in a .. b /\ k \in 1 .. n
    BY <1>0
  <2> QED BY <1>0, <1>2, <2>1 DEF NoBuilder
<1> QED BY <1>1, <1>2 DEF NoBuilder, a, b

\* What is left of a stack of builders without its first frame.
LEMMA NestedBelow ==
  ASSUME NEW s \in Seq(Frames), s # <<>>, NEW t, t = Tail(s), NEW size \in Nat,
         Nested(s, size)
  PROVE  /\ IsBuilder(s[1]) => Holds(s[1], size) /\ Nested(t, s[1].base)
         /\ ~IsBuilder(s[1]) => Nested(t, size)
<1> DEFINE n == Len(t)
<1>1. /\ t \in Seq(Frames) /\ n \in Nat /\ Len(s) = n + 1
      /\ \A k \in 1 .. n : t[k] = s[k + 1] /\ k + 1 \in 1 .. n + 1
  OBVIOUS
<1>2. ASSUME NEW i \in Nat \ {0}, NEW j \in Nat, j <= n
      PROVE  NoBuilder(t, i, j) <=> NoBuilder(s, i + 1, j + 1)
  <2>1. EndsWith(s, t, 1)
    BY <1>1 DEF EndsWith
  <2> QED BY <1>1, <1>2, <2>1, SameBuilders
<1> HIDE DEF n
<1>3. NoBuilder(s, 1, 0)
  BY DEF NoBuilder
<1>4. ASSUME NEW j \in Nat, j <= n
      PROVE  NoBuilder(s, 1, j + 1) <=> NoBuilder(t, 1, j) /\ ~IsBuilder(s[1])
  <2>1. NoBuilder(s, 1, j + 1) <=> NoBuilder(s, 2, j + 1) /\ ~IsBuilder(s[1])
    BY DEF NoBuilder
  <2>2. NoBuilder(t, 1, j) <=> NoBuilder(s, 1 + 1, j + 1)
    BY <1>2, <1>4
  <2> QED BY <2>1, <2>2
<1>5. ASSUME NEW i \in 1 .. n, IsBuilder(t[i])
      PROVE  /\ \A j \in 1 .. i - 1 : IsBuilder(t[j]) /\ NoBuilder(t, j + 1, i - 1) =>
                  Holds(t[i], t[j].base)
             /\ NoBuilder(t, i + 1, n) => t[i].base = 0
             /\ NoBuilder(t, 1, i - 1) /\ ~IsBuilder(s[1]) => Holds(t[i], size)
             /\ NoBuilder(t, 1, i - 1) /\ IsBuilder(s[1]) => Holds(t[i], s[1].base)
  <2>1. i + 1 \in 1 .. Len(s) /\ t[i] = s[i + 1] /\ IsBuilder(s[i + 1])
    BY <1>1, <1>5
  <2>2. /\ NoBuilder(s, 1, (i + 1) - 1) => Holds(t[i], size)
        /\ \A j \in 1 .. (i + 1) - 1 :
             IsBuilder(s[j]) /\ NoBuilder(s, j + 1, (i + 1) - 1) => Holds(t[i], s[j].base)
        /\ NoBuilder(s, (i + 1) + 1, Len(s)) => t[i].base = 0
    BY <2>1 DEF Nested
  <2>3. ASSUME NEW j \in 1 .. i - 1, IsBuilder(t[j]), NoBuilder(t, j + 1, i - 1)
        PROVE  Holds(t[i], t[j].base)
    <3>1. j + 1 \in 1 .. (i + 1) - 1 /\ t[j] = s[j + 1]
      BY <1>1
    <3>2. j + 1 \in Nat \ {0} /\ i - 1 \in Nat /\ i - 1 <= n
      BY <1>1
    <3>3. NoBuilder(s, (j + 1) + 1, (i - 1) + 1)
      BY <1>2, <2>3, <3>2
    <3>4. (i - 1) + 1 = (i + 1) - 1
      OBVIOUS
    <3> QED BY <2>2, <2>3, <3>1, <3>3, <3>4
  <2>4. NoBuilder(t, i + 1, n) => t[i].base = 0
    <3>1. NoBuilder(t, i + 1, n) <=> NoBuilder(s, (i + 1) + 1, n + 1)
      BY <1>1, <1>2
    <3> QED BY <1>1, <2>2, <3>1
  <2>5. i - 1 \in Nat /\ i - 1 <= n /\ (i - 1) + 1 = i /\ (i + 1) - 1 = i
    BY <1>1
  <2>6. NoBuilder(t, 1, i - 1) /\ ~IsBuilder(s[1]) => Holds(t[i], size)
    BY <1>4, <2>2, <2>5
  <2>7. NoBuilder(t, 1, i - 1) /\ IsBuilder(s[1]) => Holds(t[i], s[1].base)
    <3>1. NoBuilder(t, 1, i - 1) <=> NoBuilder(s, 1 + 1, i)
      BY <1>2, <2>5
    <3>2. 1 \in 1 .. i
      OBVIOUS
    <3> QED BY <2>2, <2>5, <3>1, <3>2
  <2> QED BY <2>3, <2>4, <2>6, <2>7
<1>6. ASSUME IsBuilder(s[1]) PROVE Holds(s[1], size) /\ Nested(t, s[1].base)
  <2>1. 1 \in 1 .. Len(s)
    BY <1>1
  <2>2. /\ NoBuilder(s, 1, 1 - 1) => Holds(s[1], size)
        /\ NoBuilder(s, 1 + 1, Len(s)) => s[1].base = 0
    BY <1>6, <2>1 DEF Nested
  <2>3. NoBuilder(t, 1, n) => s[1].base = 0
    BY <1>1, <1>2, <2>2
  <2> QED BY <1>1, <1>3, <1>5, <1>6, <2>2, <2>3 DEF Nested, n
<1>7. ASSUME ~IsBuilder(s[1]) PROVE Nested(t, size)
  <2>1. NoBuilder(t, 1, n) => size = 0
    <3>1. NoBuilder(s, 1, n + 1) <=> NoBuilder(t, 1, n)
      BY <1>1, <1>4, <1>7
    <3> QED BY <1>1, <3>1 DEF Nested
  <2> QED BY <1>1, <1>5, <1>7, <2>1 DEF Nested, n
<1> QED BY <1>6, <1>7

\* Frames without a builder leave the arena to those below them.
LEMMA NestedPlain ==
  ASSUME NEW frames \in Seq(Frames), NoBuilder(frames, 1, Len(frames)),
         NEW t \in Seq(Frames), NEW size \in Nat, Nested(t, size)
  PROVE  Nested(frames \o t, size)
<1> DEFINE s == frames \o t
           m == Len(frames)
           n == Len(t)
<1>1. /\ s \in Seq(Frames) /\ m \in Nat /\ n \in Nat /\ Len(s) = m + n
      /\ \A i \in 1 .. m : s[i] = frames[i]
      /\ \A i \in 1 .. n : s[i + m] = t[i]
  BY ConcatFact
<1>2. \A i \in 1 .. m : ~IsBuilder(s[i])
  BY <1>1 DEF NoBuilder
<1> HIDE DEF s
<1>3. ASSUME NEW i \in Nat \ {0}, NEW j \in Nat, j <= n
      PROVE  NoBuilder(t, i, j) <=> NoBuilder(s, i + m, j + m)
  <2>1. EndsWith(s, t, m)
    BY <1>1 DEF EndsWith
  <2> QED BY <1>1, <1>3, <2>1, SameBuilders
<1> HIDE DEF m, n
<1>4. ASSUME NEW j \in Nat, j <= n
      PROVE  NoBuilder(s, 1, j + m) <=> NoBuilder(t, 1, j)
  <2>1. NoBuilder(s, 1, j + m) <=> NoBuilder(s, 1 + m, j + m)
    BY <1>1, <1>2 DEF NoBuilder
  <2> QED BY <1>3, <1>4, <2>1
<1>5. NoBuilder(s, 1, Len(s)) => size = 0
  <2>1. NoBuilder(s, 1, n + m) <=> NoBuilder(t, 1, n)
    BY <1>1, <1>4
  <2>2. n + m = Len(s)
    BY <1>1
  <2> QED BY <2>1, <2>2 DEF Nested, n
<1>6. ASSUME NEW k \in 1 .. Len(s), IsBuilder(s[k])
      PROVE  /\ NoBuilder(s, 1, k - 1) => Holds(s[k], size)
             /\ \A j \in 1 .. k - 1 : IsBuilder(s[j]) /\ NoBuilder(s, j + 1, k - 1) =>
                  Holds(s[k], s[j].base)
             /\ NoBuilder(s, k + 1, Len(s)) => s[k].base = 0
  <2>1. k - m \in 1 .. n /\ k = (k - m) + m
    BY <1>1, <1>2, <1>6
  <2>2. PICK i \in 1 .. n : k = i + m
    BY <2>1
  <2>3. s[k] = t[i] /\ IsBuilder(t[i])
    BY <1>1, <1>6, <2>2
  <2>4. /\ NoBuilder(t, 1, i - 1) => Holds(t[i], size)
        /\ \A j \in 1 .. i - 1 : IsBuilder(t[j]) /\ NoBuilder(t, j + 1, i - 1) =>
             Holds(t[i], t[j].base)
        /\ NoBuilder(t, i + 1, n) => t[i].base = 0
    BY <2>3 DEF Nested, n
  <2>5. i - 1 \in Nat /\ i - 1 <= n /\ (i - 1) + m = k - 1 /\ i + 1 \in Nat \ {0}
        /\ (i + 1) + m = k + 1 /\ n + m = Len(s) /\ n <= n
    BY <1>1, <2>2
  <2>6. NoBuilder(s, 1, k - 1) => NoBuilder(t, 1, i - 1)
    BY <1>4, <2>5
  <2>7. NoBuilder(s, k + 1, Len(s)) => NoBuilder(t, i + 1, n)
    BY <1>1, <1>3, <2>5
  <2>8. ASSUME NEW j \in 1 .. k - 1, IsBuilder(s[j]), NoBuilder(s, j + 1, k - 1)
        PROVE  Holds(t[i], s[j].base)
    <3>1. j - m \in 1 .. i - 1 /\ j = (j - m) + m
      BY <1>1, <1>2, <2>2, <2>8
    <3>2. PICK h \in 1 .. i - 1 : j = h + m
      BY <3>1
    <3>3. h \in 1 .. n /\ s[j] = t[h]
      BY <1>1, <3>2
    <3>4. h + 1 \in Nat \ {0} /\ (h + 1) + m = j + 1
      BY <1>1, <3>2
    <3>5. NoBuilder(t, h + 1, i - 1)
      BY <1>3, <2>5, <2>8, <3>4
    <3> QED BY <2>4, <2>8, <3>2, <3>3, <3>5
  <2> QED BY <2>3, <2>4, <2>6, <2>7, <2>8
<1> QED BY <1>5, <1>6 DEF Nested, s

\* A builder has the end of the arena, from its base.
LEMMA NestedBuilder ==
  ASSUME NEW f \in Frames, IsBuilder(f), NEW t \in Seq(Frames), NEW base, f.base = base,
         NEW size \in Nat, Holds(f, size), Nested(t, base)
  PROVE  Nested(<<f>> \o t, size)
<1> DEFINE s == <<f>> \o t
           n == Len(t)
<1>1. /\ s \in Seq(Frames) /\ n \in Nat /\ Len(s) = n + 1 /\ s[1] = f
      /\ \A i \in 1 .. n : s[i + 1] = t[i]
  OBVIOUS
<1> HIDE DEF s
<1>2. ASSUME NEW i \in Nat \ {0}, NEW j \in Nat, j <= n
      PROVE  NoBuilder(t, i, j) <=> NoBuilder(s, i + 1, j + 1)
  <2>1. EndsWith(s, t, 1)
    BY <1>1 DEF EndsWith
  <2> QED BY <1>1, <1>2, <2>1, SameBuilders
<1> HIDE DEF n
<1>3. ~NoBuilder(s, 1, Len(s))
  BY <1>1 DEF NoBuilder
<1>4. ASSUME NEW k \in 2 .. Len(s), IsBuilder(s[k])
      PROVE  /\ NoBuilder(s, 1, k - 1) => Holds(s[k], size)
             /\ \A j \in 1 .. k - 1 : IsBuilder(s[j]) /\ NoBuilder(s, j + 1, k - 1) =>
                  Holds(s[k], s[j].base)
             /\ NoBuilder(s, k + 1, Len(s)) => s[k].base = 0
  <2>1. k - 1 \in 1 .. n /\ k = (k - 1) + 1
    BY <1>1
  <2>2. PICK i \in 1 .. n : k = i + 1
    BY <2>1
  <2>3. s[k] = t[i] /\ IsBuilder(t[i])
    BY <1>1, <1>4, <2>2
  <2>4. /\ NoBuilder(t, 1, i - 1) => Holds(t[i], base)
        /\ \A j \in 1 .. i - 1 : IsBuilder(t[j]) /\ NoBuilder(t, j + 1, i - 1) =>
             Holds(t[i], t[j].base)
        /\ NoBuilder(t, i + 1, n) => t[i].base = 0
    BY <2>3 DEF Nested, n
  <2>5. i - 1 \in Nat /\ i - 1 <= n /\ (i - 1) + 1 = k - 1 /\ i + 1 \in Nat \ {0}
        /\ (i + 1) + 1 = k + 1 /\ n + 1 = Len(s) /\ n <= n
    BY <1>1, <2>2
  <2>6. ~NoBuilder(s, 1, k - 1)
    BY <1>1 DEF NoBuilder
  <2>7. NoBuilder(s, k + 1, Len(s)) => NoBuilder(t, i + 1, n)
    BY <1>1, <1>2, <2>5
  <2>8. ASSUME NEW j \in 1 .. k - 1, IsBuilder(s[j]), NoBuilder(s, j + 1, k - 1)
        PROVE  Holds(t[i], s[j].base)
    <3>1. CASE j = 1
      <4>1. NoBuilder(t, 1, i - 1) <=> NoBuilder(s, 1 + 1, (i - 1) + 1)
        BY <1>2, <2>5
      <4>2. NoBuilder(t, 1, i - 1)
        BY <2>5, <2>8, <3>1, <4>1
      <4> QED BY <1>1, <2>4, <3>1, <4>2
    <3>2. CASE j # 1
      <4>1. j - 1 \in 1 .. i - 1 /\ j = (j - 1) + 1
        BY <2>2, <3>2
      <4>2. PICK h \in 1 .. i - 1 : j = h + 1
        BY <4>1
      <4>3. h \in 1 .. n /\ s[j] = t[h] /\ h + 1 \in Nat \ {0}
        BY <1>1, <4>2
      <4>4. NoBuilder(t, h + 1, i - 1)
        BY <1>2, <2>5, <2>8, <4>2, <4>3
      <4> QED BY <2>4, <2>8, <4>3, <4>4
    <3> QED BY <3>1, <3>2
  <2> QED BY <2>3, <2>4, <2>6, <2>7, <2>8
<1>5. NoBuilder(s, 2, Len(s)) => f.base = 0
  <2>1. NoBuilder(s, 1 + 1, n + 1) <=> NoBuilder(t, 1, n)
    BY <1>1, <1>2
  <2> QED BY <1>1, <2>1 DEF Nested, n
<1>6. \A j \in 1 .. 1 - 1 : FALSE
  OBVIOUS
<1>7. ASSUME NEW k \in 1 .. Len(s), IsBuilder(s[k])
      PROVE  /\ NoBuilder(s, 1, k - 1) => Holds(s[k], size)
             /\ \A j \in 1 .. k - 1 : IsBuilder(s[j]) /\ NoBuilder(s, j + 1, k - 1) =>
                  Holds(s[k], s[j].base)
             /\ NoBuilder(s, k + 1, Len(s)) => s[k].base = 0
  <2>1. CASE k = 1
    BY <1>1, <1>5, <1>6, <2>1
  <2>2. CASE k # 1
    <3>1. k \in 2 .. Len(s)
      BY <1>1, <2>2
    <3> QED BY <1>4, <1>7, <3>1
  <2> QED BY <2>1, <2>2
<1> QED BY <1>3, <1>7 DEF Nested, s
------------------------------------------------------------------------------
(* Steps of the functions above function().                                *)

\* Frames that may be pushed: a builder only below the others.
Pushable(frames) ==
  /\ frames \in Seq(Frames)
  /\ \A i \in 1 .. Len(frames) :
       frames[i].at # "function" /\ (IsBuilder(frames[i]) => i = Len(frames))

\* What Commit does to types, and that it passes no function.
LEMMA CommitFact ==
  ASSUME TypeOK, NEW to, Passes(cursor, to),
         NEW errors \in Errors, NEW exprs \in NodeSeqs, NEW stmts \in NodeSeqs,
         Commit(to, errors, exprs, stmts),
         calls' \in Seq(Frames), result' \in Nodes, temp' \in Seq(Nodes),
         functions' \in Seq([name : Nat, body : Nat])
  PROVE  /\ TypeOK'
         /\ cursor' >= cursor
         /\ FunctionTokens(cursor)' = FunctionTokens(cursor)
<1>0. tokens' = tokens /\ cursor' = to
  BY DEF Commit
<1>1. tokens' \in Seq(Kinds) /\ cursor' \in 0 .. Len(tokens')
  BY <1>0 DEF TypeOK, Passes
<1>2. diagnostics' \in Seq([start : Nat, end : Nat])
  BY DEF Commit, TypeOK, Errors, Spans
<1>3. expressions' \in Seq(Nodes) /\ statements' \in Seq(Nodes)
  BY DEF Commit, TypeOK, NodeSeqs
<1>4. status' \in {"running", "too_many_diagnostics", "too_many_expressions",
                   "too_many_statements"}
  BY DEF Commit
<1>5. cursor' >= cursor
  BY <1>0 DEF Passes, TypeOK
<1>6. FunctionTokens(cursor)' = FunctionTokens(to)
  BY <1>0 DEF FunctionTokens
<1>7. FunctionTokens(to) = FunctionTokens(cursor)
  BY SameFunctionTokens DEF TypeOK
<1> QED BY <1>1, <1>2, <1>3, <1>4, <1>5, <1>6, <1>7 DEF TypeOK

\* Where the frames of the stack come from when the top one is replaced.
LEMMA StackFact ==
  ASSUME NEW old \in Seq(Frames), old # <<>>, NEW frames \in Seq(Frames),
         NEW new, new = frames \o Tail(old)
  PROVE  /\ new \in Seq(Frames)
         /\ Len(new) = Len(frames) + Len(old) - 1
         /\ \A i \in 1 .. Len(new) :
              \/ i \in 1 .. Len(frames) /\ new[i] = frames[i]
              \/ /\ i - Len(frames) + 1 \in 2 .. Len(old)
                 /\ new[i] = old[i - Len(frames) + 1]
<1>1. Tail(old) \in Seq(Frames) /\ Len(Tail(old)) = Len(old) - 1
  OBVIOUS
<1>2. \A i \in 1 .. Len(old) - 1 : Tail(old)[i] = old[i + 1]
  OBVIOUS
<1>3. /\ new \in Seq(Frames)
      /\ Len(new) = Len(frames) + Len(old) - 1
      /\ \A i \in 1 .. Len(new) :
           new[i] = IF i <= Len(frames) THEN frames[i] ELSE Tail(old)[i - Len(frames)]
  BY <1>1
<1>4. ASSUME NEW i \in 1 .. Len(new)
      PROVE  \/ i \in 1 .. Len(frames) /\ new[i] = frames[i]
             \/ /\ i - Len(frames) + 1 \in 2 .. Len(old)
                /\ new[i] = old[i - Len(frames) + 1]
  <2>1. CASE i <= Len(frames)
    BY <1>3, <2>1
  <2>2. CASE i > Len(frames)
    <3>1. i - Len(frames) \in 1 .. Len(old) - 1
      BY <1>3, <2>2
    <3>2. new[i] = Tail(old)[i - Len(frames)]
      BY <1>3, <2>2
    <3> QED BY <1>2, <3>1, <3>2
  <2> QED BY <1>3, <2>1, <2>2
<1> QED BY <1>3, <1>4

LEMMA StackInvFact ==
  ASSUME calls \in Seq(Frames), calls # <<>>, Top.at # "function", StackInv,
         NEW frames, Pushable(frames), Become(frames)
  PROVE  StackInv' /\ calls' # <<>>
<1>1. frames \in Seq(Frames) /\ Len(frames) \in Nat /\ Len(calls) \in Nat
  BY DEF Pushable
<1>2. calls' = frames \o Tail(calls)
  BY DEF Become
<1>3. /\ calls' \in Seq(Frames)
      /\ Len(calls') = Len(frames) + Len(calls) - 1
      /\ \A i \in 1 .. Len(calls') :
           \/ i \in 1 .. Len(frames) /\ calls'[i] = frames[i]
           \/ /\ i - Len(frames) + 1 \in 2 .. Len(calls)
              /\ calls'[i] = calls[i - Len(frames) + 1]
  BY <1>1, <1>2, StackFact
<1>4. Len(calls) >= 2
  BY DEF StackInv, Top
<1>5. ASSUME NEW i \in 1 .. Len(calls')
      PROVE  calls'[i].at = "function" <=> i = Len(calls')
  <2>1. CASE i \in 1 .. Len(frames) /\ calls'[i] = frames[i]
    BY <1>1, <1>3, <1>4, <2>1 DEF Pushable
  <2>2. CASE i - Len(frames) + 1 \in 2 .. Len(calls) /\ calls'[i] = calls[i - Len(frames) + 1]
    <3>1. PICK k \in 2 .. Len(calls) : k = i - Len(frames) + 1 /\ calls'[i] = calls[k]
      BY <2>2
    <3>2. calls[k].at = "function" <=> k = Len(calls)
      BY <1>1, <3>1 DEF StackInv
    <3> QED BY <1>1, <1>3, <3>1, <3>2
  <2> QED BY <1>3, <2>1, <2>2
<1> QED BY <1>1, <1>3, <1>4, <1>5 DEF StackInv

\* A builder that may be pushed on those below it.
Above(frames) ==
  /\ \A i \in 1 .. Len(frames) : IsBuilder(frames[i]) =>
       frames[i].base + frames[i].count <= Len(temp')
  /\ \A j \in 2 .. Len(calls) : IsBuilder(calls[j]) =>
       /\ calls[j].base + calls[j].count <= Len(temp')
       /\ \A i \in 1 .. Len(frames) : IsBuilder(frames[i]) =>
            calls[j].base + calls[j].count <= frames[i].base

LEMMA BuildersFitFact ==
  ASSUME calls \in Seq(Frames), calls # <<>>, BuildersFit,
         NEW frames, Pushable(frames), Become(frames), Above(frames)
  PROVE  BuildersFit'
<1>1. frames \in Seq(Frames) /\ Len(frames) \in Nat /\ Len(calls) \in Nat
  BY DEF Pushable
<1>2. calls' = frames \o Tail(calls)
  BY DEF Become
<1>3. /\ calls' \in Seq(Frames)
      /\ Len(calls') = Len(frames) + Len(calls) - 1
      /\ \A i \in 1 .. Len(calls') :
           \/ i \in 1 .. Len(frames) /\ calls'[i] = frames[i]
           \/ /\ i - Len(frames) + 1 \in 2 .. Len(calls)
              /\ calls'[i] = calls[i - Len(frames) + 1]
  BY <1>1, <1>2, StackFact
<1>4. ASSUME NEW j \in 1 .. Len(calls'), IsBuilder(calls'[j])
      PROVE  /\ calls'[j].base + calls'[j].count <= Len(temp')
             /\ \A i \in 1 .. j - 1 : IsBuilder(calls'[i]) =>
                  calls'[j].base + calls'[j].count <= calls'[i].base
  <2>1. CASE j \in 1 .. Len(frames) /\ calls'[j] = frames[j]
    <3>1. j = Len(frames)
      BY <1>4, <2>1 DEF Pushable
    <3>2. \A i \in 1 .. j - 1 : ~IsBuilder(calls'[i])
      <4>1. SUFFICES ASSUME NEW i \in 1 .. j - 1 PROVE ~IsBuilder(calls'[i])
        OBVIOUS
      <4>2. i \in 1 .. Len(calls') /\ i \in 1 .. Len(frames) /\ i # Len(frames)
        BY <1>1, <1>3, <3>1
      <4>3. calls'[i] = frames[i]
        BY <1>1, <1>3, <4>2
      <4> QED BY <4>2, <4>3 DEF Pushable
    <3> QED BY <1>4, <2>1, <3>2 DEF Above
  <2>2. CASE j - Len(frames) + 1 \in 2 .. Len(calls) /\ calls'[j] = calls[j - Len(frames) + 1]
    <3>1. PICK k \in 2 .. Len(calls) : k = j - Len(frames) + 1 /\ calls'[j] = calls[k]
      BY <2>2
    <3>2. IsBuilder(calls[k])
      BY <1>4, <3>1
    <3>3. ASSUME NEW i \in 1 .. j - 1, IsBuilder(calls'[i])
          PROVE  calls[k].base + calls[k].count <= calls'[i].base
      <4>1. i \in 1 .. Len(calls')
        BY <1>1, <1>3
      <4>2. CASE i \in 1 .. Len(frames) /\ calls'[i] = frames[i]
        BY <3>2, <3>3, <4>2 DEF Above
      <4>3. CASE i - Len(frames) + 1 \in 2 .. Len(calls) /\ calls'[i] = calls[i - Len(frames) + 1]
        <5>1. i - Len(frames) + 1 \in 1 .. k - 1
          BY <1>1, <1>3, <3>1, <4>3
        <5>2. k \in 1 .. Len(calls)
          BY <1>1
        <5> QED BY <3>2, <3>3, <4>3, <5>1, <5>2 DEF BuildersFit
      <4> QED BY <1>3, <4>1, <4>2, <4>3
    <3>4. calls[k].base + calls[k].count <= Len(temp')
      BY <3>2 DEF Above
    <3> QED BY <3>1, <3>3, <3>4
  <2> QED BY <1>3, <2>1, <2>2
<1> QED BY <1>4 DEF BuildersFit, IsBuilder

\* What the builders below the top frame have.
LEMMA TopNested ==
  ASSUME calls \in Seq(Frames), calls # <<>>, temp \in Seq(Nodes), BuildersNested
  PROVE  /\ Tail(calls) \in Seq(Frames)
         /\ IsBuilder(Top) => Holds(Top, Len(temp)) /\ Nested(Tail(calls), Top.base)
         /\ ~IsBuilder(Top) => Nested(Tail(calls), Len(temp))
<1> DEFINE t == Tail(calls)
<1>1. t \in Seq(Frames) /\ Len(temp) \in Nat
  OBVIOUS
<1> QED BY <1>1, NestedBelow DEF Top, BuildersNested

LEMMA PlainNested ==
  ASSUME calls \in Seq(Frames), calls # <<>>, temp \in Seq(Nodes), BuildersNested,
         ~IsBuilder(Top), UNCHANGED temp,
         NEW frames \in Seq(Frames), NoBuilder(frames, 1, Len(frames)), Become(frames)
  PROVE  BuildersNested'
<1> DEFINE t == Tail(calls)
<1>1. t \in Seq(Frames) /\ Len(temp) \in Nat /\ Nested(t, Len(temp))
  BY TopNested
<1> HIDE DEF t
<1>2. Nested(frames \o t, Len(temp))
  BY <1>1, NestedPlain
<1>3. calls' = frames \o t /\ temp' = temp
  BY DEF Become, t
<1> QED BY <1>2, <1>3 DEF BuildersNested

\* The step lemma: a function above function() goes on, calls or returns.
LEMMA Step ==
  ASSUME IInv, calls # <<>>, Top.at # "function",
         NEW to, Passes(cursor, to),
         NEW errors \in Errors, NEW exprs \in NodeSeqs, NEW stmts \in NodeSeqs,
         Commit(to, errors, exprs, stmts),
         NEW frames, Pushable(frames), Become(frames), Above(frames),
         BuildersNested',
         result' \in Nodes, temp' \in Seq(Nodes), UNCHANGED functions
  PROVE  IInv'
<1>1. /\ frames \in Seq(Frames) /\ calls \in Seq(Frames)
      /\ functions' \in Seq([name : Nat, body : Nat])
  BY DEF Pushable, IInv, TypeOK
<1>2. StackInv' /\ calls' # <<>>
  BY <1>1, StackInvFact DEF IInv
<1>3. BuildersFit'
  BY <1>1, BuildersFitFact DEF IInv
<1>4. calls' \in Seq(Frames)
  BY <1>1, StackFact DEF Become
<1>5. /\ TypeOK'
      /\ cursor' >= cursor
      /\ FunctionTokens(cursor)' = FunctionTokens(cursor)
  BY <1>1, <1>4, CommitFact DEF IInv
<1>6. PreviousTokenExists'
  BY <1>5 DEF PreviousTokenExists, IInv, TypeOK
<1>7. EveryFunctionSurvives'
  BY <1>2, <1>5 DEF EveryFunctionSurvives, IInv, FunctionTokens
<1> QED BY <1>2, <1>3, <1>5, <1>6, <1>7 DEF IInv

\* The same when no builder is pushed, and the arena is left alone.
LEMMA PlainStep ==
  ASSUME IInv, calls # <<>>, Top.at # "function", ~IsBuilder(Top),
         NEW to, Passes(cursor, to),
         NEW errors \in Errors, NEW exprs \in NodeSeqs, NEW stmts \in NodeSeqs,
         Commit(to, errors, exprs, stmts),
         NEW frames \in PlainCalls, Become(frames),
         result' \in Nodes, UNCHANGED <<temp, functions>>
  PROVE  IInv'
<1>1. \A i \in 1 .. Len(frames) : frames[i].at # "function" /\ ~IsBuilder(frames[i])
  BY DEF PlainCalls, PlainFrames
<1>2. frames \in Seq(Frames)
  BY DEF PlainCalls, PlainFrames
<1>3. Pushable(frames)
  BY <1>1, <1>2 DEF Pushable
<1>4. \A j \in 2 .. Len(calls) : IsBuilder(calls[j]) =>
        calls[j].base + calls[j].count <= Len(temp)
  BY DEF IInv, BuildersFit
<1>5. Above(frames)
  BY <1>1, <1>4 DEF Above
<1>6. temp' \in Seq(Nodes)
  BY DEF IInv, TypeOK
<1>7. NoBuilder(frames, 1, Len(frames))
  BY <1>1 DEF NoBuilder
<1>8. BuildersNested'
  BY <1>2, <1>7, PlainNested DEF IInv, TypeOK
<1> QED BY <1>3, <1>5, <1>6, <1>8, Step

\* What the invariant says where a function other than function() is on top.
LEMMA AtFact ==
  ASSUME IInv, NEW label, At(label), label # "function"
  PROVE  /\ calls # <<>> /\ Top.at = label /\ Top \in Frames /\ Top.at # "function"
         /\ label \notin {"array", "element", "statements", "block_statement"} => ~IsBuilder(Top)
         /\ tokens \in Seq(Kinds) /\ cursor \in 0 .. Len(tokens)
         /\ result \in Nodes /\ <<result>> \in NodeSeqs
         /\ NextExpression \in Nat /\ NextExpression + 1 \in Nat /\ NextStatement \in Nat
         /\ SpanStart(cursor) \in Nat /\ EndOf(cursor) \in Nat
         /\ Passes(cursor, cursor)
         /\ Kind(cursor) \notin {"eof", "func"} =>
              /\ cursor + 1 \in 0 .. Len(tokens)
              /\ Passes(cursor, cursor + 1)
<1>1. /\ calls # <<>> /\ Top.at = label
      /\ tokens \in Seq(Kinds) /\ cursor \in 0 .. Len(tokens)
      /\ result \in Nodes
  BY DEF At, IInv, TypeOK
<1>2. Top \in Frames /\ <<result>> \in NodeSeqs
  BY <1>1 DEF Top, NodeSeqs, IInv, TypeOK
<1>3. NextExpression \in Nat /\ NextExpression + 1 \in Nat /\ NextStatement \in Nat
  BY DEF NextExpression, NextStatement, IInv, TypeOK
<1>4. SpanStart(cursor) \in Nat /\ EndOf(cursor) \in Nat
  BY <1>1, PositionFact
<1>5. Passes(cursor, cursor)
  BY <1>1, PassesNone
<1>6. ASSUME Kind(cursor) \notin {"eof", "func"}
      PROVE  cursor + 1 \in 0 .. Len(tokens) /\ Passes(cursor, cursor + 1)
  <2>1. Passes(cursor, cursor + 1)
    BY <1>1, <1>6, PassesOne
  <2> QED BY <1>1, <2>1 DEF Passes
<1>7. label \notin {"array", "element", "statements", "block_statement"} => ~IsBuilder(Top)
  BY <1>1 DEF IsBuilder, BuilderLabels
<1> QED BY <1>1, <1>2, <1>3, <1>4, <1>5, <1>6, <1>7

\* The calls of expression(), of statement() and of blockStatement().
LEMMA ExpressionCallFact ==
  ASSUME NEW min \in Nat, NEW f \in PlainFrames
  PROVE  ExpressionCall(min) \o <<f>> \in PlainCalls
<1>1. [at |-> "operand"] \in PlainFrames /\ [at |-> "operators", min |-> min] \in PlainFrames
  BY DEF PlainFrames, Frames, IsBuilder, BuilderLabels
<1> QED BY <1>1 DEF ExpressionCall, PlainCalls

LEMMA StatementCallFact ==
  ASSUME NEW f \in PlainFrames
  PROVE  /\ StatementCall \o <<f>> \in PlainCalls
         /\ BlockCall \o <<f>> \in PlainCalls
<1>1. [at |-> "statement"] \in PlainFrames /\ [at |-> "block"] \in PlainFrames
  BY DEF PlainFrames, Frames, IsBuilder, BuilderLabels
<1> QED BY <1>1 DEF StatementCall, BlockCall, PlainCalls

\* Some frames have no fields but their label.
LEMMA EmptyFact == <<>> \in Errors /\ <<>> \in NodeSeqs /\ <<>> \in Indices
BY DEF Errors, NodeSeqs, Indices

LEMMA LabelFact ==
  /\ [at |-> "operand"] \in PlainFrames
  /\ [at |-> "postfix"] \in PlainFrames
  /\ [at |-> "parentheses"] \in PlainFrames
  /\ <<[at |-> "postfix"]>> \in PlainCalls
  /\ <<>> \in PlainCalls
  /\ BlockCall \in PlainCalls
<1>1. \A l \in {"operand", "postfix", "parentheses", "block"} : [at |-> l] \in PlainFrames
  BY DEF PlainFrames, Frames, IsBuilder, BuilderLabels
<1> QED BY <1>1 DEF BlockCall, PlainCalls

\* The three ways in which most steps end.
LEMMA OperandFact ==
  ASSUME IInv, calls # <<>>, Top.at # "function", ~IsBuilder(Top),
         NEW to, Passes(cursor, to),
         NEW errors \in Errors, NEW exprs \in NodeSeqs, NEW stmts \in NodeSeqs,
         Commit(to, errors, exprs, stmts), NEW value \in Nodes, Operand(value)
  PROVE  IInv'
BY LabelFact, PlainStep DEF Operand, ReturnTo

LEMMA ReturnFact ==
  ASSUME IInv, calls # <<>>, Top.at # "function", ~IsBuilder(Top),
         NEW to, Passes(cursor, to),
         NEW errors \in Errors, NEW exprs \in NodeSeqs, NEW stmts \in NodeSeqs,
         Commit(to, errors, exprs, stmts), NEW value \in Nodes, Return(value)
  PROVE  IInv'
BY LabelFact, PlainStep DEF Return, ReturnTo

LEMMA CallFact ==
  ASSUME IInv, calls # <<>>, Top.at # "function", ~IsBuilder(Top),
         NEW to, Passes(cursor, to),
         NEW errors \in Errors, NEW exprs \in NodeSeqs, NEW stmts \in NodeSeqs,
         Commit(to, errors, exprs, stmts), NEW frames \in PlainCalls, Call(frames)
  PROVE  IInv'
<1>1. result' \in Nodes
  BY DEF Call, IInv, TypeOK
<1> QED BY <1>1, PlainStep DEF Call
------------------------------------------------------------------------------
(* Expressions, but for the builders of array literals.                    *)

LEMMA LiteralStep == IInv /\ Literal => IInv'
<1> SUFFICES ASSUME IInv, Literal PROVE IInv'
  OBVIOUS
<1>1. At("operand") /\ Kind(cursor) \in {"number", "identifier"}
  BY DEF Literal
<1>2. /\ cursor \in 0 .. Len(tokens) /\ cursor + 1 \in 0 .. Len(tokens)
      /\ Passes(cursor, cursor + 1) /\ SpanStart(cursor) \in Nat /\ tokens \in Seq(Kinds)
      /\ calls # <<>> /\ ~IsBuilder(Top) /\ Top.at # "function"
  BY <1>1, AtFact
<1>3. EndOf(cursor + 1) \in Nat /\ cursor + 1 \in Nat
  BY <1>2, PositionFact
<1>4. Node(IF Kind(cursor) = "number" THEN "int_literal" ELSE "variable",
           <<cursor + 1>>, SpanStart(cursor), EndOf(cursor + 1)) \in Nodes
  BY <1>2, <1>3, NodeFact, IndicesFact DEF NodeKinds
<1> QED BY <1>2, <1>4, EmptyFact, OperandFact DEF Literal, Advance

LEMMA BeginPrefixStep == IInv /\ BeginPrefix => IInv'
<1> SUFFICES ASSUME IInv, BeginPrefix PROVE IInv'
  OBVIOUS
<1> DEFINE kind == IF Kind(cursor) = "&" THEN "address_of" ELSE "dereference"
           frame == [at |-> "prefix", start |-> SpanStart(cursor), kind |-> kind]
<1>1. At("operand") /\ Kind(cursor) \in {"&", "*"}
  BY DEF BeginPrefix
<1>2. /\ Passes(cursor, cursor + 1) /\ SpanStart(cursor) \in Nat
      /\ calls # <<>> /\ ~IsBuilder(Top) /\ Top.at # "function"
  BY <1>1, AtFact
<1>3. frame \in PlainFrames
  BY <1>2 DEF PlainFrames, Frames, IsBuilder, BuilderLabels
<1>4. <<[at |-> "operand"], frame>> \in PlainCalls
  BY <1>3, LabelFact DEF PlainCalls
<1> QED BY <1>2, <1>4, EmptyFact, CallFact DEF BeginPrefix, Advance

LEMMA EndPrefixStep == IInv /\ EndPrefix => IInv'
<1> SUFFICES ASSUME IInv, EndPrefix PROVE IInv'
  OBVIOUS
<1>1. At("prefix")
  BY DEF EndPrefix
<1>2. /\ Passes(cursor, cursor) /\ EndOf(cursor) \in Nat /\ NextExpression \in Nat
      /\ calls # <<>> /\ ~IsBuilder(Top) /\ Top.at = "prefix" /\ Top \in Frames /\ <<result>> \in NodeSeqs
  BY <1>1, AtFact
<1>3. Top.start \in Nat /\ Top.kind \in NodeKinds
  BY <1>2, FrameFields
<1>4. Node(Top.kind, <<NextExpression>>, Top.start, EndOf(cursor)) \in Nodes
  BY <1>2, <1>3, NodeFact, IndicesFact DEF NodeKinds
<1> QED BY <1>2, <1>4, EmptyFact, OperandFact DEF EndPrefix, AllocateExpressions

LEMMA ParenthesesStep == IInv /\ (BeginParentheses \/ EndParentheses) => IInv'
<1>1. ASSUME IInv, BeginParentheses PROVE IInv'
  <2>1. At("operand") /\ Kind(cursor) = "("
    BY <1>1 DEF BeginParentheses
  <2>2. Passes(cursor, cursor + 1) /\ calls # <<>> /\ ~IsBuilder(Top) /\ Top.at # "function"
    BY <1>1, <2>1, AtFact
  <2>3. ExpressionCall(0) \o <<[at |-> "parentheses"]>> \in PlainCalls
    BY LabelFact, ExpressionCallFact
  <2> QED BY <1>1, <2>2, <2>3, EmptyFact, CallFact DEF BeginParentheses, Advance
<1>2. ASSUME IInv, EndParentheses PROVE IInv'
  <2> DEFINE close == Expect(cursor, ")", "recover")
  <2>1. At("parentheses")
    BY <1>2 DEF EndParentheses
  <2>2. /\ tokens \in Seq(Kinds) /\ cursor \in 0 .. Len(tokens)
        /\ calls # <<>> /\ ~IsBuilder(Top) /\ Top.at # "function" /\ result \in Nodes
    BY <1>2, <2>1, AtFact
  <2>3. /\ Passes(cursor, close.to) /\ close.to \in 0 .. Len(tokens)
        /\ close.errors \in Errors
    BY <2>2, ExpectFact DEF Kinds
  <2>4. EndOf(close.to) \in Nat
    BY <2>2, <2>3, PositionFact
  <2>5. [result EXCEPT !.end = EndOf(close.to)] \in Nodes
    BY <2>2, <2>4 DEF Nodes
  <2> QED BY <1>2, <2>2, <2>3, <2>5, EmptyFact, OperandFact DEF EndParentheses
<1> QED BY <1>1, <1>2

LEMMA IndexStep == IInv /\ (BeginIndex \/ EndIndex) => IInv'
<1>1. ASSUME IInv, BeginIndex PROVE IInv'
  <2>1. At("postfix") /\ Kind(cursor) = "["
    BY <1>1 DEF BeginIndex
  <2>2. /\ Passes(cursor, cursor + 1)
        /\ calls # <<>> /\ ~IsBuilder(Top) /\ Top.at # "function" /\ result \in Nodes
    BY <1>1, <2>1, AtFact
  <2>3. [at |-> "index", array |-> result] \in PlainFrames
    BY <2>2 DEF PlainFrames, Frames, IsBuilder, BuilderLabels
  <2>4. ExpressionCall(0) \o <<[at |-> "index", array |-> result]>> \in PlainCalls
    BY <2>3, ExpressionCallFact
  <2> QED BY <1>1, <2>2, <2>4, EmptyFact, CallFact DEF BeginIndex, Advance
<1>2. ASSUME IInv, EndIndex PROVE IInv'
  <2> DEFINE close == Expect(cursor, "]", "recover")
  <2>1. At("index")
    BY <1>2 DEF EndIndex
  <2>2. /\ tokens \in Seq(Kinds) /\ cursor \in 0 .. Len(tokens)
        /\ NextExpression \in Nat /\ NextExpression + 1 \in Nat
        /\ calls # <<>> /\ ~IsBuilder(Top) /\ Top.at = "index" /\ Top \in Frames /\ result \in Nodes
    BY <1>2, <2>1, AtFact
  <2>3. /\ Passes(cursor, close.to) /\ close.to \in 0 .. Len(tokens)
        /\ close.errors \in Errors
    BY <2>2, ExpectFact DEF Kinds
  <2>4. EndOf(close.to) \in Nat
    BY <2>2, <2>3, PositionFact
  <2>5. Top.array \in Nodes
    BY <2>2, FrameFields
  <2>6. Top.array.start \in Nat
    BY <2>5 DEF Nodes
  <2>7. Node("index", <<NextExpression + 1, NextExpression>>,
             Top.array.start, EndOf(close.to)) \in Nodes
    BY <2>2, <2>4, <2>6, NodeFact, IndicesFact DEF NodeKinds
  <2>8. <<result, Top.array>> \in NodeSeqs
    BY <2>2, <2>5 DEF NodeSeqs
  <2> QED BY <1>2, <2>2, <2>3, <2>7, <2>8, EmptyFact, OperandFact DEF EndIndex
<1> QED BY <1>1, <1>2

LEMMA EndOperandStep == IInv /\ (EndOperand \/ MissingOperand) => IInv'
<1>1. ASSUME IInv, EndOperand PROVE IInv'
  <2>1. At("postfix")
    BY <1>1 DEF EndOperand
  <2>2. /\ Passes(cursor, cursor)
        /\ calls # <<>> /\ ~IsBuilder(Top) /\ Top.at # "function" /\ result \in Nodes
    BY <1>1, <2>1, AtFact
  <2> QED BY <1>1, <2>2, EmptyFact, ReturnFact DEF EndOperand, Stay
<1>2. ASSUME IInv, MissingOperand PROVE IInv'
  <2> DEFINE mode == IF Kind(cursor) \in {")", "]", ",", "="} THEN "eat_none" ELSE "recover"
             e == Error(cursor, mode)
  <2>1. At("operand")
    BY <1>2 DEF MissingOperand
  <2>2. /\ tokens \in Seq(Kinds) /\ cursor \in 0 .. Len(tokens) /\ SpanStart(cursor) \in Nat
        /\ calls # <<>> /\ ~IsBuilder(Top) /\ Top.at # "function"
    BY <1>2, <2>1, AtFact
  <2>3. Passes(cursor, e.to) /\ e.to \in 0 .. Len(tokens) /\ e.errors \in Errors
    BY <2>2, ErrorFact
  <2>4. EndOf(e.to) \in Nat
    BY <2>2, <2>3, PositionFact
  <2>5. Node("missing", <<>>, SpanStart(cursor), EndOf(e.to)) \in Nodes
    BY <2>2, <2>4, NodeFact, IndicesFact DEF NodeKinds
  <2> QED BY <1>2, <2>2, <2>3, <2>5, EmptyFact, OperandFact DEF MissingOperand
<1> QED BY <1>1, <1>2

LEMMA OperatorStep == IInv /\ (BeginRhs \/ EndRhs \/ EndExpression) => IInv'
<1>1. ASSUME IInv, BeginRhs PROVE IInv'
  <2> DEFINE power == BindingPower[Kind(cursor)]
             frame == [at |-> "rhs", min |-> Top.min, lhs |-> result, op |-> Kind(cursor)]
  <2>1. At("operators") /\ Kind(cursor) \in BinaryOperators
    BY <1>1 DEF BeginRhs
  <2>2. Kind(cursor) \notin {"eof", "func"} /\ power \in Nat
    BY <2>1 DEF BinaryOperators, BindingPower
  <2>3. /\ Passes(cursor, cursor + 1)
        /\ calls # <<>> /\ ~IsBuilder(Top) /\ Top.at = "operators" /\ Top \in Frames /\ result \in Nodes
    BY <1>1, <2>1, <2>2, AtFact
  <2>4. Top.min \in Nat
    BY <2>3, FrameFields
  <2>5. frame \in PlainFrames
    BY <2>1, <2>3, <2>4 DEF PlainFrames, Frames, IsBuilder, BuilderLabels
  <2>6. ExpressionCall(power + 1) \o <<frame>> \in PlainCalls
    BY <2>2, <2>5, ExpressionCallFact
  <2> QED BY <1>1, <2>3, <2>6, EmptyFact, CallFact DEF BeginRhs, Advance
<1>2. ASSUME IInv, EndRhs PROVE IInv'
  <2>1. At("rhs")
    BY <1>2 DEF EndRhs
  <2>2. /\ Passes(cursor, cursor) /\ EndOf(cursor) \in Nat
        /\ NextExpression \in Nat /\ NextExpression + 1 \in Nat
        /\ calls # <<>> /\ ~IsBuilder(Top) /\ Top.at = "rhs" /\ Top \in Frames /\ result \in Nodes
    BY <1>2, <2>1, AtFact
  <2>3. Top.min \in Nat /\ Top.lhs \in Nodes /\ Top.op \in NodeKinds
    BY <2>2, FrameFields DEF NodeKinds
  <2>4. Top.lhs.start \in Nat
    BY <2>3 DEF Nodes
  <2>5. Node(Top.op, <<NextExpression, NextExpression + 1>>, Top.lhs.start, EndOf(cursor))
          \in Nodes
    BY <2>2, <2>3, <2>4, NodeFact, IndicesFact
  <2>6. <<[at |-> "operators", min |-> Top.min]>> \in PlainCalls
    BY <2>3 DEF PlainCalls, PlainFrames, Frames, IsBuilder, BuilderLabels
  <2>7. <<Top.lhs, result>> \in NodeSeqs
    BY <2>2, <2>3 DEF NodeSeqs
  <2> QED BY <1>2, <2>2, <2>5, <2>6, <2>7, EmptyFact, PlainStep DEF EndRhs, AllocateExpressions
<1>3. ASSUME IInv, EndExpression PROVE IInv'
  <2>1. At("operators")
    BY <1>3 DEF EndExpression
  <2>2. /\ Passes(cursor, cursor)
        /\ calls # <<>> /\ ~IsBuilder(Top) /\ Top.at # "function" /\ result \in Nodes
    BY <1>3, <2>1, AtFact
  <2> QED BY <1>3, <2>2, EmptyFact, ReturnFact DEF EndExpression, Stay
<1> QED BY <1>1, <1>2, <1>3
------------------------------------------------------------------------------
(* Statements, but for the builders of blocks.                             *)

LEMMA NotABlockStep == IInv /\ (BeginNotABlock \/ EndNotABlock) => IInv'
<1>1. ASSUME IInv, BeginNotABlock PROVE IInv'
  <2> DEFINE frame == [at |-> "not_a_block", start |-> SpanStart(cursor)]
  <2>1. At("block")
    BY <1>1 DEF BeginNotABlock
  <2>2. /\ Passes(cursor, cursor) /\ SpanStart(cursor) \in Nat
        /\ calls # <<>> /\ ~IsBuilder(Top) /\ Top.at # "function"
    BY <1>1, <2>1, AtFact
  <2>3. frame \in PlainFrames
    BY <2>2 DEF PlainFrames, Frames, IsBuilder, BuilderLabels
  <2>4. StatementCall \o <<frame>> \in PlainCalls
    BY <2>3, StatementCallFact
  <2> QED BY <1>1, <2>2, <2>4, EmptyFact, CallFact DEF BeginNotABlock, Stay
<1>2. ASSUME IInv, EndNotABlock PROVE IInv'
  <2> DEFINE span == [start |-> result.start, end |-> result.end]
             errors == IF result.kind = "missing" THEN <<>> ELSE <<span>>
  <2>1. At("not_a_block")
    BY <1>2 DEF EndNotABlock
  <2>2. /\ Passes(cursor, cursor) /\ result \in Nodes
        /\ calls # <<>> /\ ~IsBuilder(Top) /\ Top.at = "not_a_block" /\ Top \in Frames
    BY <1>2, <2>1, AtFact
  <2>3. span \in Spans
    BY <2>2 DEF Nodes, Spans
  <2>4. errors \in Errors
    BY <2>3 DEF Errors
  <2>5. Top.start \in Nat
    BY <2>2, FrameFields
  <2>6. Node("missing", <<>>, Top.start, 0) \in Nodes
    BY <2>5, NodeFact, IndicesFact DEF NodeKinds
  <2> QED BY <1>2, <2>2, <2>4, <2>6, EmptyFact, ReturnFact DEF EndNotABlock
<1> QED BY <1>1, <1>2

LEMMA BeginStatementStep == IInv /\ BeginStatement => IInv'
<1> SUFFICES ASSUME IInv, BeginStatement PROVE IInv'
  OBVIOUS
<1> DEFINE frame == [at |-> Kind(cursor), start |-> SpanStart(cursor)]
<1>1. At("statement") /\ Kind(cursor) \in {"return", "set", "if", "while"}
  BY DEF BeginStatement
<1>2. /\ Passes(cursor, cursor + 1) /\ SpanStart(cursor) \in Nat
      /\ calls # <<>> /\ ~IsBuilder(Top) /\ Top.at # "function"
  BY <1>1, AtFact
<1>3. frame \in PlainFrames
  BY <1>1, <1>2 DEF PlainFrames, Frames, IsBuilder, BuilderLabels
<1>4. ExpressionCall(0) \o <<frame>> \in PlainCalls
  BY <1>3, ExpressionCallFact
<1> QED BY <1>2, <1>4, EmptyFact, CallFact DEF BeginStatement, Advance

LEMMA EndReturnStep == IInv /\ EndReturn => IInv'
<1> SUFFICES ASSUME IInv, EndReturn PROVE IInv'
  OBVIOUS
<1>1. At("return")
  BY DEF EndReturn
<1>2. /\ Passes(cursor, cursor) /\ EndOf(cursor) \in Nat /\ NextExpression \in Nat
      /\ calls # <<>> /\ ~IsBuilder(Top) /\ Top.at = "return" /\ Top \in Frames /\ <<result>> \in NodeSeqs
  BY <1>1, AtFact
<1>3. Top.start \in Nat
  BY <1>2, FrameFields
<1>4. Node("return", <<NextExpression>>, Top.start, EndOf(cursor)) \in Nodes
  BY <1>2, <1>3, NodeFact, IndicesFact DEF NodeKinds
<1> QED BY <1>2, <1>4, EmptyFact, ReturnFact DEF EndReturn, AllocateExpressions

LEMMA SetStep == IInv /\ (BeginSetValue \/ EndSet) => IInv'
<1>1. ASSUME IInv, BeginSetValue PROVE IInv'
  <2> DEFINE equal == Expect(cursor, "=", "recover")
             frame == [at |-> "set_value", start |-> Top.start, lhs |-> NextExpression]
  <2>1. At("set")
    BY <1>1 DEF BeginSetValue
  <2>2. /\ tokens \in Seq(Kinds) /\ cursor \in 0 .. Len(tokens) /\ NextExpression \in Nat
        /\ calls # <<>> /\ ~IsBuilder(Top) /\ Top.at = "set" /\ Top \in Frames /\ <<result>> \in NodeSeqs
    BY <1>1, <2>1, AtFact
  <2>3. Passes(cursor, equal.to) /\ equal.errors \in Errors
    BY <2>2, ExpectFact DEF Kinds
  <2>4. Top.start \in Nat
    BY <2>2, FrameFields
  <2>5. frame \in PlainFrames
    BY <2>2, <2>4 DEF PlainFrames, Frames, IsBuilder, BuilderLabels
  <2>6. ExpressionCall(0) \o <<frame>> \in PlainCalls
    BY <2>5, ExpressionCallFact
  <2> QED BY <1>1, <2>2, <2>3, <2>6, EmptyFact, CallFact DEF BeginSetValue
<1>2. ASSUME IInv, EndSet PROVE IInv'
  <2>1. At("set_value")
    BY <1>2 DEF EndSet
  <2>2. /\ Passes(cursor, cursor) /\ EndOf(cursor) \in Nat /\ NextExpression \in Nat
        /\ calls # <<>> /\ ~IsBuilder(Top) /\ Top.at = "set_value" /\ Top \in Frames /\ <<result>> \in NodeSeqs
    BY <1>2, <2>1, AtFact
  <2>3. Top.start \in Nat /\ Top.lhs \in Nat
    BY <2>2, FrameFields
  <2>4. Node("assign", <<Top.lhs, NextExpression>>, Top.start, EndOf(cursor)) \in Nodes
    BY <2>2, <2>3, NodeFact, IndicesFact DEF NodeKinds
  <2> QED BY <1>2, <2>2, <2>4, EmptyFact, ReturnFact DEF EndSet, AllocateExpressions
<1> QED BY <1>1, <1>2

LEMMA BranchStep == IInv /\ (BeginTrueBranch \/ BeginFalseBranch) => IInv'
<1>1. ASSUME IInv, BeginTrueBranch PROVE IInv'
  <2> DEFINE frame == [at |-> "true_branch", start |-> Top.start,
                       condition |-> NextExpression]
  <2>1. At("if")
    BY <1>1 DEF BeginTrueBranch
  <2>2. /\ Passes(cursor, cursor) /\ NextExpression \in Nat
        /\ calls # <<>> /\ ~IsBuilder(Top) /\ Top.at = "if" /\ Top \in Frames /\ <<result>> \in NodeSeqs
    BY <1>1, <2>1, AtFact
  <2>3. Top.start \in Nat
    BY <2>2, FrameFields
  <2>4. frame \in PlainFrames
    BY <2>2, <2>3 DEF PlainFrames, Frames, IsBuilder, BuilderLabels
  <2>5. BlockCall \o <<frame>> \in PlainCalls
    BY <2>4, StatementCallFact
  <2> QED BY <1>1, <2>2, <2>5, EmptyFact, CallFact DEF BeginTrueBranch, AllocateExpressions
<1>2. ASSUME IInv, BeginFalseBranch PROVE IInv'
  <2> DEFINE frame == [at |-> "false_branch", start |-> Top.start,
                       condition |-> Top.condition, true_block |-> NextStatement]
  <2>1. At("true_branch") /\ Kind(cursor) = "else"
    BY <1>2 DEF BeginFalseBranch
  <2>2. /\ Passes(cursor, cursor + 1) /\ NextStatement \in Nat
        /\ calls # <<>> /\ ~IsBuilder(Top) /\ Top.at = "true_branch" /\ Top \in Frames
        /\ <<result>> \in NodeSeqs
    BY <1>2, <2>1, AtFact
  <2>3. Top.start \in Nat /\ Top.condition \in Nat
    BY <2>2, FrameFields
  <2>4. frame \in PlainFrames
    BY <2>2, <2>3 DEF PlainFrames, Frames, IsBuilder, BuilderLabels
  <2>5. BlockCall \o <<frame>> \in PlainCalls
    BY <2>4, StatementCallFact
  <2> QED BY <1>2, <2>2, <2>5, EmptyFact, CallFact DEF BeginFalseBranch
<1> QED BY <1>1, <1>2

LEMMA EndIfStep == IInv /\ (EndIfWithoutElse \/ EndIfElse) => IInv'
<1>1. ASSUME IInv, EndIfWithoutElse PROVE IInv'
  <2>1. At("true_branch")
    BY <1>1 DEF EndIfWithoutElse
  <2>2. /\ Passes(cursor, cursor) /\ EndOf(cursor) \in Nat /\ NextStatement \in Nat
        /\ calls # <<>> /\ ~IsBuilder(Top) /\ Top.at = "true_branch" /\ Top \in Frames
        /\ <<result>> \in NodeSeqs
    BY <1>1, <2>1, AtFact
  <2>3. Top.start \in Nat /\ Top.condition \in Nat /\ NoNode \in Nat
    BY <2>2, FrameFields DEF NoNode
  <2>4. Node("if", <<Top.condition, NextStatement, NoNode>>, Top.start, EndOf(cursor)) \in Nodes
    BY <2>2, <2>3, NodeFact, IndicesFact DEF NodeKinds
  <2> QED BY <1>1, <2>2, <2>4, EmptyFact, ReturnFact DEF EndIfWithoutElse, AllocateStatement
<1>2. ASSUME IInv, EndIfElse PROVE IInv'
  <2>1. At("false_branch")
    BY <1>2 DEF EndIfElse
  <2>2. /\ Passes(cursor, cursor) /\ EndOf(cursor) \in Nat /\ NextStatement \in Nat
        /\ calls # <<>> /\ ~IsBuilder(Top) /\ Top.at = "false_branch" /\ Top \in Frames
        /\ <<result>> \in NodeSeqs
    BY <1>2, <2>1, AtFact
  <2>3. Top.start \in Nat /\ Top.condition \in Nat /\ Top.true_block \in Nat
    BY <2>2, FrameFields
  <2>4. Node("if", <<Top.condition, Top.true_block, NextStatement>>, Top.start, EndOf(cursor))
          \in Nodes
    BY <2>2, <2>3, NodeFact, IndicesFact DEF NodeKinds
  <2> QED BY <1>2, <2>2, <2>4, EmptyFact, ReturnFact DEF EndIfElse, AllocateStatement
<1> QED BY <1>1, <1>2

LEMMA UnmatchedElseStep == IInv /\ UnmatchedElse => IInv'
<1> SUFFICES ASSUME IInv, UnmatchedElse PROVE IInv'
  OBVIOUS
<1> DEFINE span == [start |-> StartOf(cursor + 1), end |-> EndOf(cursor + 1)]
<1>1. At("statement") /\ Kind(cursor) = "else"
  BY DEF UnmatchedElse, AtStatement
<1>2. /\ tokens \in Seq(Kinds) /\ cursor + 1 \in 0 .. Len(tokens)
      /\ Passes(cursor, cursor + 1) /\ SpanStart(cursor) \in Nat
      /\ calls # <<>> /\ ~IsBuilder(Top) /\ Top.at # "function"
  BY <1>1, AtFact
<1>3. StartOf(cursor + 1) \in Nat /\ EndOf(cursor + 1) \in Nat
  BY <1>2, PositionFact
<1>4. <<span>> \in Errors
  BY <1>3 DEF Errors, Spans
<1>5. Node("missing", <<>>, SpanStart(cursor), EndOf(cursor + 1)) \in Nodes
  BY <1>2, <1>3, NodeFact, IndicesFact DEF NodeKinds
<1> QED BY <1>2, <1>4, <1>5, EmptyFact, ReturnFact DEF UnmatchedElse

LEMMA WhileStep == IInv /\ (BeginWhileBody \/ EndWhile) => IInv'
<1>1. ASSUME IInv, BeginWhileBody PROVE IInv'
  <2> DEFINE frame == [at |-> "while_body", start |-> Top.start,
                       condition |-> NextExpression]
  <2>1. At("while")
    BY <1>1 DEF BeginWhileBody
  <2>2. /\ Passes(cursor, cursor) /\ NextExpression \in Nat
        /\ calls # <<>> /\ ~IsBuilder(Top) /\ Top.at = "while" /\ Top \in Frames /\ <<result>> \in NodeSeqs
    BY <1>1, <2>1, AtFact
  <2>3. Top.start \in Nat
    BY <2>2, FrameFields
  <2>4. frame \in PlainFrames
    BY <2>2, <2>3 DEF PlainFrames, Frames, IsBuilder, BuilderLabels
  <2>5. BlockCall \o <<frame>> \in PlainCalls
    BY <2>4, StatementCallFact
  <2> QED BY <1>1, <2>2, <2>5, EmptyFact, CallFact DEF BeginWhileBody, AllocateExpressions
<1>2. ASSUME IInv, EndWhile PROVE IInv'
  <2>1. At("while_body")
    BY <1>2 DEF EndWhile
  <2>2. /\ Passes(cursor, cursor) /\ EndOf(cursor) \in Nat /\ NextStatement \in Nat
        /\ calls # <<>> /\ ~IsBuilder(Top) /\ Top.at = "while_body" /\ Top \in Frames /\ <<result>> \in NodeSeqs
    BY <1>2, <2>1, AtFact
  <2>3. Top.start \in Nat /\ Top.condition \in Nat
    BY <2>2, FrameFields
  <2>4. Node("while", <<Top.condition, NextStatement>>, Top.start, EndOf(cursor)) \in Nodes
    BY <2>2, <2>3, NodeFact, IndicesFact DEF NodeKinds
  <2> QED BY <1>2, <2>2, <2>4, EmptyFact, ReturnFact DEF EndWhile, AllocateStatement
<1> QED BY <1>1, <1>2

LEMMA StatementIsBlockStep == IInv /\ StatementIsBlock => IInv'
<1> SUFFICES ASSUME IInv, StatementIsBlock PROVE IInv'
  OBVIOUS
<1>1. At("statement")
  BY DEF StatementIsBlock, AtStatement
<1>2. Passes(cursor, cursor) /\ calls # <<>> /\ ~IsBuilder(Top) /\ Top.at # "function"
  BY <1>1, AtFact
<1> QED BY <1>2, LabelFact, EmptyFact, CallFact DEF StatementIsBlock, Stay

LEMMA DefinitionStep == IInv /\ (BeginDefinition \/ EndDefinition) => IInv'
<1>1. ASSUME IInv, BeginDefinition PROVE IInv'
  <2> DEFINE equal == Expect(cursor + 1, ":=", "recover")
             frame == [at |-> "definition", start |-> SpanStart(cursor), name |-> cursor + 1]
  <2>1. At("statement") /\ Kind(cursor) = "identifier"
    BY <1>1 DEF BeginDefinition, AtStatement
  <2>2. /\ tokens \in Seq(Kinds) /\ cursor \in 0 .. Len(tokens)
        /\ cursor + 1 \in 0 .. Len(tokens)
        /\ Passes(cursor, cursor + 1) /\ SpanStart(cursor) \in Nat
        /\ calls # <<>> /\ ~IsBuilder(Top) /\ Top.at # "function"
    BY <1>1, <2>1, AtFact
  <2>3. Passes(cursor + 1, equal.to) /\ equal.errors \in Errors
    BY <2>2, ExpectFact DEF Kinds
  <2>4. Passes(cursor, equal.to)
    BY <2>2, <2>3, PassesMore
  <2>5. frame \in PlainFrames
    BY <2>2 DEF PlainFrames, Frames, IsBuilder, BuilderLabels
  <2>6. ExpressionCall(0) \o <<frame>> \in PlainCalls
    BY <2>5, ExpressionCallFact
  <2> QED BY <1>1, <2>2, <2>3, <2>4, <2>6, EmptyFact, CallFact DEF BeginDefinition
<1>2. ASSUME IInv, EndDefinition PROVE IInv'
  <2>1. At("definition")
    BY <1>2 DEF EndDefinition
  <2>2. /\ Passes(cursor, cursor) /\ EndOf(cursor) \in Nat /\ NextExpression \in Nat
        /\ calls # <<>> /\ ~IsBuilder(Top) /\ Top.at = "definition" /\ Top \in Frames
        /\ <<result>> \in NodeSeqs
    BY <1>2, <2>1, AtFact
  <2>3. Top.start \in Nat /\ Top.name \in Nat
    BY <2>2, FrameFields
  <2>4. Node("local_definition", <<Top.name, NextExpression>>, Top.start, EndOf(cursor))
          \in Nodes
    BY <2>2, <2>3, NodeFact, IndicesFact DEF NodeKinds
  <2> QED BY <1>2, <2>2, <2>4, EmptyFact, ReturnFact DEF EndDefinition, AllocateExpressions
<1> QED BY <1>1, <1>2

LEMMA MissingStatementStep == IInv /\ MissingStatement => IInv'
<1> SUFFICES ASSUME IInv, MissingStatement PROVE IInv'
  OBVIOUS
<1> DEFINE e == Error(cursor, "recover")
<1>1. At("statement")
  BY DEF MissingStatement
<1>2. /\ tokens \in Seq(Kinds) /\ cursor \in 0 .. Len(tokens) /\ SpanStart(cursor) \in Nat
      /\ calls # <<>> /\ ~IsBuilder(Top) /\ Top.at # "function"
  BY <1>1, AtFact
<1>3. Passes(cursor, e.to) /\ e.to \in 0 .. Len(tokens) /\ e.errors \in Errors
  BY <1>2, ErrorFact
<1>4. EndOf(e.to) \in Nat
  BY <1>2, <1>3, PositionFact
<1>5. Node("missing", <<>>, SpanStart(cursor), EndOf(e.to)) \in Nodes
  BY <1>2, <1>4, NodeFact, IndicesFact DEF NodeKinds
<1> QED BY <1>2, <1>3, <1>5, EmptyFact, ReturnFact DEF MissingStatement
------------------------------------------------------------------------------
(* Builders.                                                               *)

\* What the invariant says of the builders when one of them is on top.
LEMMA TopBuilderFact ==
  ASSUME IInv, calls # <<>>, IsBuilder(Top)
  PROVE  /\ Top \in BuilderFrame
         /\ Top.base \in Nat /\ Top.count \in Nat /\ Top.start \in Nat
         /\ temp \in Seq(Nodes) /\ Len(temp) \in Nat
         /\ Top.base + Top.count <= Len(temp)
         /\ Built(Top) \in NodeSeqs
         /\ \A j \in 2 .. Len(calls) : IsBuilder(calls[j]) =>
              calls[j].base + calls[j].count <= Top.base
<1>1. calls \in Seq(Frames) /\ temp \in Seq(Nodes) /\ Len(temp) \in Nat /\ Len(calls) \in Nat
  BY DEF IInv, TypeOK
<1>2. 1 \in 1 .. Len(calls) /\ calls[1] \in Frames
  BY <1>1
<1>3. Top \in BuilderFrame
  BY <1>2, FrameFields DEF Top
<1>4. Top.base \in Nat /\ Top.count \in Nat /\ Top.start \in Nat
  BY <1>3 DEF BuilderFrame
<1>5. Top.base + Top.count <= Len(temp)
  BY <1>2 DEF IInv, BuildersFit, Top
<1>6. ASSUME NEW j \in 2 .. Len(calls), IsBuilder(calls[j])
      PROVE  calls[j].base + calls[j].count <= Top.base
  <2>1. j \in 1 .. Len(calls) /\ 1 \in 1 .. j - 1
    BY <1>1
  <2> QED BY <1>6, <2>1 DEF IInv, BuildersFit, Top
<1>7. Built(Top) \in Seq(Nodes)
  BY <1>1, <1>4, <1>5 DEF Built
<1> QED BY <1>1, <1>3, <1>4, <1>5, <1>6, <1>7 DEF NodeSeqs

\* A new builder begins at the end of the arena.
LEMMA BeginBuilderFact ==
  ASSUME IInv, calls # <<>>, Top.at # "function", ~IsBuilder(Top),
         NEW to, Passes(cursor, to),
         NEW errors \in Errors, NEW exprs \in NodeSeqs, NEW stmts \in NodeSeqs,
         Commit(to, errors, exprs, stmts),
         NEW label \in BuilderLabels, NEW start \in Nat, Call(<<Builder(label, start)>>)
  PROVE  IInv'
<1> DEFINE f == Builder(label, start)
           frames == <<f>>
<1>1. /\ temp \in Seq(Nodes) /\ Len(temp) \in Nat
      /\ temp' = temp /\ result' \in Nodes /\ UNCHANGED functions /\ Become(frames)
  BY DEF Call, IInv, TypeOK
<1>2. f \in BuilderFrame /\ f.base = Len(temp) /\ f.count = 0
  BY <1>1 DEF Builder, BuilderFrame
<1>3. frames \in Seq(Frames) /\ Len(frames) = 1 /\ frames[1] = f /\ f.at # "function"
  BY <1>2, BuilderIsFrame
<1>4. Pushable(frames)
  BY <1>3 DEF Pushable
<1>5. \A j \in 2 .. Len(calls) : IsBuilder(calls[j]) =>
        calls[j].base + calls[j].count <= Len(temp)
  BY DEF IInv, BuildersFit
<1>6. Above(frames)
  BY <1>1, <1>2, <1>3, <1>5 DEF Above
<1>7. BuildersNested'
  <2> DEFINE t == Tail(calls)
  <2>1. t \in Seq(Frames) /\ Nested(t, Len(temp))
    BY TopNested DEF IInv, TypeOK
  <2>2. Holds(f, Len(temp))
    BY <1>1, <1>2, LimitsAssumption DEF Holds
  <2>3. f \in Frames /\ IsBuilder(f)
    BY <1>2, BuilderIsFrame
  <2>4. calls' = <<f>> \o t
    BY <1>1 DEF Become
  <2> HIDE DEF f, t
  <2>5. Nested(<<f>> \o t, Len(temp))
    BY <1>1, <1>2, <2>1, <2>2, <2>3, NestedBuilder
  <2> QED BY <1>1, <2>4, <2>5 DEF BuildersNested
<1> QED BY <1>1, <1>4, <1>6, <1>7, Step

\* A builder waits for an element.
LEMMA WaitFact ==
  ASSUME IInv, calls # <<>>, IsBuilder(Top),
         NEW to, Passes(cursor, to),
         NEW errors \in Errors, NEW exprs \in NodeSeqs, NEW stmts \in NodeSeqs,
         Commit(to, errors, exprs, stmts),
         NEW f \in BuilderFrame, f.base = Top.base, f.count = Top.count,
         NEW call \in PlainCalls, Call(call \o <<f>>), Pushable(call \o <<f>>),
         \A i \in 1 .. Len(call \o <<f>>) :
           IsBuilder((call \o <<f>>)[i]) => (call \o <<f>>)[i] = f
  PROVE  IInv'
<1> DEFINE frames == call \o <<f>>
<1>0. \A i \in 1 .. Len(frames) : IsBuilder(frames[i]) => frames[i] = f
  OBVIOUS
<1>1. /\ temp \in Seq(Nodes) /\ temp' = temp
      /\ result' \in Nodes /\ UNCHANGED functions /\ Become(frames)
  BY DEF Call, IInv, TypeOK
<1>2. /\ f.base + f.count <= Len(temp)
      /\ \A j \in 2 .. Len(calls) : IsBuilder(calls[j]) =>
           /\ calls[j].base + calls[j].count <= f.base
           /\ calls[j].base + calls[j].count <= Len(temp)
  BY TopBuilderFact DEF IInv, BuildersFit
<1>3. Above(frames)
  BY <1>1, <1>2 DEF Above
<1>4. Top.at # "function"
  BY DEF IsBuilder, BuilderLabels
<1>5. BuildersNested'
  <2> DEFINE t == Tail(calls)
  <2>1. t \in Seq(Frames) /\ Holds(Top, Len(temp)) /\ Nested(t, Top.base)
    BY TopNested DEF IInv, TypeOK
  <2>2. Holds(f, Len(temp))
    BY <2>1 DEF Holds
  <2>3. f \in Frames /\ IsBuilder(f) /\ Len(temp) \in Nat
    BY <1>1, BuilderIsFrame
  <2> HIDE DEF t
  <2>4. Nested(<<f>> \o t, Len(temp)) /\ <<f>> \o t \in Seq(Frames)
    BY <2>1, <2>2, <2>3, NestedBuilder
  <2>5. call \in Seq(Frames) /\ NoBuilder(call, 1, Len(call))
    BY DEF PlainCalls, PlainFrames, NoBuilder
  <2>6. PICK u \in Seq(Frames) : u = <<f>> \o t
    BY <2>4
  <2>7. Nested(call \o u, Len(temp))
    BY <2>3, <2>4, <2>5, <2>6, NestedPlain
  <2>8. calls' = (call \o <<f>>) \o t
    BY <1>1 DEF Become, t
  <2>9. calls' = call \o u
    BY <2>1, <2>3, <2>5, <2>6, <2>8
  <2> QED BY <1>1, <2>7, <2>9 DEF BuildersNested
<1> QED BY <1>1, <1>3, <1>4, <1>5, Step

\* The count, a u16, is never more than the elements pushed.
LEMMA PushedFact ==
  ASSUME NEW f \in BuilderFrame, NEW label \in BuilderLabels
  PROVE  /\ Pushed(f, label) \in BuilderFrame
         /\ Pushed(f, label).base = f.base
         /\ Pushed(f, label).count <= f.count + 1
<1>1. CountModulus \in Nat \ {0} /\ f.count \in Nat
  BY LimitsAssumption DEF BuilderFrame
<1>2. /\ (f.count + 1) % CountModulus \in Nat
      /\ (f.count + 1) % CountModulus <= f.count + 1
  BY <1>1
<1> QED BY <1>2 DEF Pushed, BuilderFrame

\* Counting modulo m.
LEMMA Remainder ==
  ASSUME NEW m \in Nat \ {0}, NEW q \in Int, NEW r \in 0 .. m - 1
  PROVE  (m * q + r) % m = r
OBVIOUS

LEMMA ModuloSuccessor ==
  ASSUME NEW m \in Nat \ {0}, NEW x \in Nat
  PROVE  ((x % m) + 1) % m = (x + 1) % m
<1>1. x % m \in 0 .. m - 1
  OBVIOUS
<1>2. x = m * (x \div m) + (x % m) /\ x \div m \in Int
  OBVIOUS
<1>3. PICK q \in Int, r \in 0 .. m - 1 : x = m * q + r /\ r = x % m
  BY <1>1, <1>2
<1>4. CASE r = m - 1
  <2>1. PICK p \in Int : p = q + 1
    OBVIOUS
  <2>2. m * p = m * q + m
    BY <2>1
  <2>3. PICK z \in 0 .. m - 1 : z = 0
    OBVIOUS
  <2>4. (m * p + z) % m = z
    BY Remainder
  <2>5. x + 1 = m * p + z
    BY <1>3, <1>4, <2>2, <2>3
  <2>6. (x + 1) % m = 0
    BY <2>3, <2>4, <2>5
  <2>7. (r + 1) % m = 0
    <3>1. PICK one \in Int : one = 1
      OBVIOUS
    <3>2. (m * one + z) % m = z
      BY Remainder
    <3>3. m * one + z = r + 1
      BY <1>4, <2>3, <3>1
    <3> QED BY <2>3, <3>2, <3>3
  <2> QED BY <1>3, <2>6, <2>7
<1>5. CASE r # m - 1
  <2>1. PICK s \in 0 .. m - 1 : s = r + 1
    BY <1>5
  <2>2. (m * q + s) % m = s
    BY Remainder
  <2>3. (x + 1) % m = s
    BY <1>3, <2>1, <2>2
  <2>4. (r + 1) % m = s
    BY <2>1
  <2> QED BY <1>3, <2>3, <2>4
<1> QED BY <1>4, <1>5

LEMMA PushedHolds ==
  ASSUME NEW f \in BuilderFrame, NEW label, NEW size \in Nat, Holds(f, size)
  PROVE  Holds(Pushed(f, label), size + 1)
<1>1. f.base \in Nat /\ f.base <= size /\ f.count = (size - f.base) % CountModulus
  BY DEF Holds, BuilderFrame
<1>2. CountModulus \in Nat \ {0}
  BY LimitsAssumption
<1>3. PICK x \in Nat : x = size - f.base
  BY <1>1
<1>4. (f.count + 1) % CountModulus = (x + 1) % CountModulus
  BY <1>1, <1>2, <1>3, ModuloSuccessor
<1>5. Pushed(f, label).base = f.base /\ Pushed(f, label).count = (f.count + 1) % CountModulus
  BY DEF Pushed, BuilderFrame
<1>6. (size + 1) - f.base = x + 1
  BY <1>1, <1>3
<1> QED BY <1>1, <1>4, <1>5, <1>6 DEF Holds

\* A builder takes the element that was returned.
LEMMA PushFact ==
  ASSUME IInv, calls # <<>>, IsBuilder(Top),
         NEW to, Passes(cursor, to),
         NEW errors \in Errors, NEW exprs \in NodeSeqs, NEW stmts \in NodeSeqs,
         Commit(to, errors, exprs, stmts),
         NEW label \in BuilderLabels, Become(<<Pushed(Top, label)>>),
         temp' = Append(temp, result), UNCHANGED <<result, functions>>
  PROVE  IInv'
<1> DEFINE f == Pushed(Top, label)
           frames == <<f>>
<1>1. /\ Top \in BuilderFrame /\ temp \in Seq(Nodes) /\ Len(temp) \in Nat
      /\ Top.base \in Nat /\ Top.count \in Nat
      /\ Top.base + Top.count <= Len(temp)
      /\ \A j \in 2 .. Len(calls) : IsBuilder(calls[j]) =>
           calls[j].base + calls[j].count <= Top.base
  BY TopBuilderFact
<1>2. result \in Nodes /\ result' \in Nodes
  BY DEF IInv, TypeOK
<1>3. temp' \in Seq(Nodes) /\ Len(temp') = Len(temp) + 1
  BY <1>1, <1>2
<1>4. f \in BuilderFrame /\ f.base = Top.base /\ f.count <= Top.count + 1 /\ f.count \in Nat
  BY <1>1, PushedFact DEF BuilderFrame
<1>5. frames \in Seq(Frames) /\ Len(frames) = 1 /\ frames[1] = f /\ f.at # "function"
  BY <1>4, BuilderIsFrame
<1>6. Pushable(frames)
  BY <1>5 DEF Pushable
<1>7. \A j \in 2 .. Len(calls) : IsBuilder(calls[j]) =>
        calls[j].base + calls[j].count <= Len(temp)
  BY DEF IInv, BuildersFit
<1>8. f.base + f.count <= Len(temp')
  BY <1>1, <1>3, <1>4
<1>9. ASSUME NEW j \in 2 .. Len(calls), IsBuilder(calls[j])
      PROVE  /\ calls[j].base + calls[j].count <= Len(temp')
             /\ calls[j].base + calls[j].count <= f.base
  <2>1. calls[j] \in BuilderFrame
    BY <1>9, FrameFields DEF IInv, TypeOK
  <2> QED BY <1>1, <1>3, <1>4, <1>7, <1>9, <2>1 DEF BuilderFrame
<1>10. Above(frames)
  BY <1>5, <1>8, <1>9 DEF Above
<1>11. Top.at # "function" /\ UNCHANGED functions
  BY DEF IsBuilder, BuilderLabels
<1>12. BuildersNested'
  <2> DEFINE t == Tail(calls)
  <2>1. t \in Seq(Frames) /\ Holds(Top, Len(temp)) /\ Nested(t, Top.base)
    BY TopNested DEF IInv, TypeOK
  <2>2. Holds(f, Len(temp'))
    BY <1>1, <1>3, <2>1, PushedHolds
  <2>3. f \in Frames /\ IsBuilder(f) /\ Len(temp') \in Nat
    BY <1>1, <1>3, <1>4, BuilderIsFrame
  <2>4. calls' = <<f>> \o t
    BY DEF Become
  <2> HIDE DEF f, t
  <2>5. Nested(<<f>> \o t, Len(temp'))
    BY <1>4, <2>1, <2>2, <2>3, NestedBuilder
  <2> QED BY <2>4, <2>5 DEF BuildersNested
<1> QED BY <1>2, <1>3, <1>6, <1>10, <1>11, <1>12, Step

\* A builder is done: the arena is as it was when it began.
LEMMA PopFact ==
  ASSUME IInv, calls # <<>>, IsBuilder(Top),
         NEW to, Passes(cursor, to),
         NEW errors \in Errors, NEW exprs \in NodeSeqs, NEW stmts \in NodeSeqs,
         Commit(to, errors, exprs, stmts),
         NEW frames \in PlainCalls, Become(frames),
         temp' = SubSeq(temp, 1, Top.base), result' \in Nodes, UNCHANGED functions
  PROVE  IInv'
<1>1. /\ temp \in Seq(Nodes) /\ Len(temp) \in Nat
      /\ Top.base \in Nat /\ Top.count \in Nat
      /\ Top.base + Top.count <= Len(temp)
      /\ \A j \in 2 .. Len(calls) : IsBuilder(calls[j]) =>
           calls[j].base + calls[j].count <= Top.base
  BY TopBuilderFact
<1>2. Top.base <= Len(temp)
  BY <1>1
<1>3. temp' \in Seq(Nodes) /\ Len(temp') = Top.base
  BY <1>1, <1>2
<1>4. \A i \in 1 .. Len(frames) : frames[i].at # "function" /\ ~IsBuilder(frames[i])
  BY DEF PlainCalls, PlainFrames
<1>5. frames \in Seq(Frames)
  BY DEF PlainCalls, PlainFrames
<1>6. Pushable(frames)
  BY <1>4, <1>5 DEF Pushable
<1>7. Above(frames)
  BY <1>1, <1>3, <1>4 DEF Above
<1>8. Top.at # "function"
  BY DEF IsBuilder, BuilderLabels
<1>9. BuildersNested'
  <2> DEFINE t == Tail(calls)
  <2>1. t \in Seq(Frames) /\ Nested(t, Top.base)
    BY TopNested DEF IInv, TypeOK
  <2>2. NoBuilder(frames, 1, Len(frames))
    BY <1>4 DEF NoBuilder
  <2>3. calls' = frames \o t
    BY DEF Become
  <2> HIDE DEF t
  <2>4. Nested(frames \o t, Top.base)
    BY <1>1, <1>5, <2>1, <2>2, NestedPlain
  <2> QED BY <1>3, <2>3, <2>4 DEF BuildersNested
<1> QED BY <1>3, <1>6, <1>7, <1>8, <1>9, Step

\* A builder under the call that is to return its next element.
LEMMA NestedFact ==
  ASSUME NEW f \in BuilderFrame
  PROVE  /\ ExpressionCall(0) \in PlainCalls /\ StatementCall \in PlainCalls
         /\ Pushable(ExpressionCall(0) \o <<f>>)
         /\ \A i \in 1 .. Len(ExpressionCall(0) \o <<f>>) :
              IsBuilder((ExpressionCall(0) \o <<f>>)[i]) => (ExpressionCall(0) \o <<f>>)[i] = f
         /\ Pushable(StatementCall \o <<f>>)
         /\ \A i \in 1 .. Len(StatementCall \o <<f>>) :
              IsBuilder((StatementCall \o <<f>>)[i]) => (StatementCall \o <<f>>)[i] = f
<1> DEFINE operand == [at |-> "operand"]
           operators == [at |-> "operators", min |-> 0]
           statement == [at |-> "statement"]
<1>1. f \in Frames /\ f.at # "function"
  BY BuilderIsFrame
<1>2. \A g \in {operand, operators, statement} :
        g \in Frames /\ g.at # "function" /\ ~IsBuilder(g)
  BY DEF Frames, IsBuilder, BuilderLabels
<1>3. /\ ExpressionCall(0) \o <<f>> \in Seq(Frames)
      /\ Len(ExpressionCall(0) \o <<f>>) = 3
      /\ (ExpressionCall(0) \o <<f>>)[1] = operand
      /\ (ExpressionCall(0) \o <<f>>)[2] = operators
      /\ (ExpressionCall(0) \o <<f>>)[3] = f
  BY <1>1, <1>2 DEF ExpressionCall
<1>4. /\ StatementCall \o <<f>> \in Seq(Frames)
      /\ Len(StatementCall \o <<f>>) = 2
      /\ (StatementCall \o <<f>>)[1] = statement
      /\ (StatementCall \o <<f>>)[2] = f
  BY <1>1, <1>2 DEF StatementCall
<1>5. Pushable(ExpressionCall(0) \o <<f>>) /\ Pushable(StatementCall \o <<f>>)
  BY <1>1, <1>2, <1>3, <1>4 DEF Pushable
<1>6. ExpressionCall(0) \in PlainCalls /\ StatementCall \in PlainCalls
  BY <1>2 DEF ExpressionCall, StatementCall, PlainCalls, PlainFrames
<1> QED BY <1>2, <1>3, <1>4, <1>5, <1>6

LEMMA BeginBuilderStep == IInv /\ (BeginArray \/ BeginBlock) => IInv'
<1>1. ASSUME IInv, BeginArray PROVE IInv'
  <2>1. At("operand") /\ Kind(cursor) = "["
    BY <1>1 DEF BeginArray
  <2>2. /\ Passes(cursor, cursor + 1) /\ SpanStart(cursor) \in Nat
        /\ calls # <<>> /\ ~IsBuilder(Top) /\ Top.at # "function"
    BY <1>1, <2>1, AtFact
  <2>3. "array" \in BuilderLabels
    BY DEF BuilderLabels
  <2> QED BY <1>1, <2>2, <2>3, EmptyFact, BeginBuilderFact DEF BeginArray, Advance
<1>2. ASSUME IInv, BeginBlock PROVE IInv'
  <2>1. At("block") /\ Kind(cursor) \notin {"eof", "func"}
    BY <1>2 DEF BeginBlock
  <2>2. /\ Passes(cursor, cursor + 1) /\ SpanStart(cursor) \in Nat
        /\ calls # <<>> /\ ~IsBuilder(Top) /\ Top.at # "function"
    BY <1>2, <2>1, AtFact
  <2>3. "statements" \in BuilderLabels
    BY DEF BuilderLabels
  <2> QED BY <1>2, <2>2, <2>3, EmptyFact, BeginBuilderFact DEF BeginBlock, Advance
<1> QED BY <1>1, <1>2

LEMMA WaitStep == IInv /\ (BeginElement \/ BeginBlockStatement) => IInv'
<1>1. ASSUME IInv, BeginElement PROVE IInv'
  <2> DEFINE f == [Top EXCEPT !.at = "element"]
  <2>1. At("array")
    BY <1>1 DEF BeginElement
  <2>2. Passes(cursor, cursor) /\ calls # <<>> /\ Top.at = "array"
    BY <1>1, <2>1, AtFact
  <2>3. IsBuilder(Top)
    BY <2>2 DEF IsBuilder, BuilderLabels
  <2>4. Top \in BuilderFrame
    BY <1>1, <2>2, <2>3, TopBuilderFact
  <2>5. f \in BuilderFrame /\ f.base = Top.base /\ f.count = Top.count
    BY <2>4 DEF BuilderFrame, BuilderLabels
  <2>6. /\ ExpressionCall(0) \in PlainCalls /\ Pushable(ExpressionCall(0) \o <<f>>)
        /\ \A i \in 1 .. Len(ExpressionCall(0) \o <<f>>) :
             IsBuilder((ExpressionCall(0) \o <<f>>)[i]) => (ExpressionCall(0) \o <<f>>)[i] = f
    BY <2>5, NestedFact
  <2>7. Commit(cursor, <<>>, <<>>, <<>>) /\ Call(ExpressionCall(0) \o <<f>>)
    BY <1>1 DEF BeginElement, Stay
  <2> HIDE DEF f
  <2> QED BY <1>1, <2>2, <2>3, <2>5, <2>6, <2>7, EmptyFact, WaitFact
<1>2. ASSUME IInv, BeginBlockStatement PROVE IInv'
  <2> DEFINE f == [Top EXCEPT !.at = "block_statement"]
  <2>1. At("statements")
    BY <1>2 DEF BeginBlockStatement
  <2>2. Passes(cursor, cursor) /\ calls # <<>> /\ Top.at = "statements"
    BY <1>2, <2>1, AtFact
  <2>3. IsBuilder(Top)
    BY <2>2 DEF IsBuilder, BuilderLabels
  <2>4. Top \in BuilderFrame
    BY <1>2, <2>2, <2>3, TopBuilderFact
  <2>5. f \in BuilderFrame /\ f.base = Top.base /\ f.count = Top.count
    BY <2>4 DEF BuilderFrame, BuilderLabels
  <2>6. /\ StatementCall \in PlainCalls /\ Pushable(StatementCall \o <<f>>)
        /\ \A i \in 1 .. Len(StatementCall \o <<f>>) :
             IsBuilder((StatementCall \o <<f>>)[i]) => (StatementCall \o <<f>>)[i] = f
    BY <2>5, NestedFact
  <2>7. Commit(cursor, <<>>, <<>>, <<>>) /\ Call(StatementCall \o <<f>>)
    BY <1>2 DEF BeginBlockStatement, Stay
  <2> HIDE DEF f
  <2> QED BY <1>2, <2>2, <2>3, <2>5, <2>6, <2>7, EmptyFact, WaitFact
<1> QED BY <1>1, <1>2

LEMMA PushStep == IInv /\ (EndElement \/ EndBlockStatement) => IInv'
<1>1. ASSUME IInv, EndElement PROVE IInv'
  <2> DEFINE comma == IF InArray(cursor) THEN Expect(cursor, ",", "eat_none")
                                         ELSE [to |-> cursor, errors |-> <<>>]
  <2>1. At("element")
    BY <1>1 DEF EndElement
  <2>2. /\ tokens \in Seq(Kinds) /\ cursor \in 0 .. Len(tokens)
        /\ Passes(cursor, cursor) /\ calls # <<>> /\ Top.at = "element"
    BY <1>1, <2>1, AtFact
  <2>3. /\ Passes(cursor, Expect(cursor, ",", "eat_none").to)
        /\ Expect(cursor, ",", "eat_none").errors \in Errors
    BY <2>2, ExpectFact DEF Kinds
  <2>4. Passes(cursor, comma.to) /\ comma.errors \in Errors
    BY <2>2, <2>3, EmptyFact
  <2>5. IsBuilder(Top) /\ "array" \in BuilderLabels
    BY <2>2 DEF IsBuilder, BuilderLabels
  <2> QED BY <1>1, <2>2, <2>4, <2>5, EmptyFact, PushFact DEF EndElement
<1>2. ASSUME IInv, EndBlockStatement PROVE IInv'
  <2>1. At("block_statement")
    BY <1>2 DEF EndBlockStatement
  <2>2. Passes(cursor, cursor) /\ calls # <<>> /\ Top.at = "block_statement"
    BY <1>2, <2>1, AtFact
  <2>3. IsBuilder(Top) /\ "statements" \in BuilderLabels
    BY <2>2 DEF IsBuilder, BuilderLabels
  <2> QED BY <1>2, <2>2, <2>3, EmptyFact, PushFact DEF EndBlockStatement, Stay
<1> QED BY <1>1, <1>2

LEMMA PopStep == IInv /\ (EndArray \/ EndBlock) => IInv'
<1>1. ASSUME IInv, EndArray PROVE IInv'
  <2> DEFINE close == Expect(cursor, "]", "recover")
             value == Node("array_literal", <<FirstOf(Top, NextExpression), Top.count>>,
                           Top.start, EndOf(close.to))
  <2>1. At("array")
    BY <1>1 DEF EndArray
  <2>2. /\ tokens \in Seq(Kinds) /\ cursor \in 0 .. Len(tokens) /\ NextExpression \in Nat
        /\ calls # <<>> /\ Top.at = "array"
    BY <1>1, <2>1, AtFact
  <2>3. IsBuilder(Top)
    BY <2>2 DEF IsBuilder, BuilderLabels
  <2>4. Top.start \in Nat /\ Top.count \in Nat /\ Built(Top) \in NodeSeqs
    BY <1>1, <2>2, <2>3, TopBuilderFact
  <2>5. /\ Passes(cursor, close.to) /\ close.to \in 0 .. Len(tokens)
        /\ close.errors \in Errors
    BY <2>2, ExpectFact DEF Kinds
  <2>6. EndOf(close.to) \in Nat /\ FirstOf(Top, NextExpression) \in Nat
    BY <2>2, <2>5, PositionFact DEF FirstOf, NoNode
  <2>7. value \in Nodes
    BY <2>4, <2>6, NodeFact, IndicesFact DEF NodeKinds
  <2>8. <<[at |-> "postfix"]>> \in PlainCalls
    BY LabelFact
  <2>9. /\ Commit(close.to, close.errors, Built(Top), <<>>)
        /\ Become(<<[at |-> "postfix"]>>) /\ result' = value /\ UNCHANGED functions
        /\ temp' = SubSeq(temp, 1, Top.base)
    BY <1>1 DEF EndArray, ReturnTo
  <2> HIDE DEF close, value
  <2> QED BY <1>1, <2>2, <2>3, <2>4, <2>5, <2>7, <2>8, <2>9, EmptyFact, PopFact
<1>2. ASSUME IInv, EndBlock PROVE IInv'
  <2> DEFINE close == Expect(cursor, "}", "recover")
             value == Node("block", <<FirstOf(Top, NextStatement), Top.count>>,
                           Top.start, EndOf(close.to))
  <2>1. At("statements")
    BY <1>2 DEF EndBlock
  <2>2. /\ tokens \in Seq(Kinds) /\ cursor \in 0 .. Len(tokens) /\ NextStatement \in Nat
        /\ calls # <<>> /\ Top.at = "statements"
    BY <1>2, <2>1, AtFact
  <2>3. IsBuilder(Top)
    BY <2>2 DEF IsBuilder, BuilderLabels
  <2>4. Top.start \in Nat /\ Top.count \in Nat /\ Built(Top) \in NodeSeqs
    BY <1>2, <2>2, <2>3, TopBuilderFact
  <2>5. /\ Passes(cursor, close.to) /\ close.to \in 0 .. Len(tokens)
        /\ close.errors \in Errors
    BY <2>2, ExpectFact DEF Kinds
  <2>6. EndOf(close.to) \in Nat /\ FirstOf(Top, NextStatement) \in Nat
    BY <2>2, <2>5, PositionFact DEF FirstOf, NoNode
  <2>7. value \in Nodes
    BY <2>4, <2>6, NodeFact, IndicesFact DEF NodeKinds
  <2>8. <<>> \in PlainCalls
    BY LabelFact
  <2>9. /\ Commit(close.to, close.errors, <<>>, Built(Top))
        /\ Become(<<>>) /\ result' = value /\ UNCHANGED functions
        /\ temp' = SubSeq(temp, 1, Top.base)
    BY <1>2 DEF EndBlock, ReturnTo
  <2> HIDE DEF close, value
  <2> QED BY <1>2, <2>2, <2>3, <2>4, <2>5, <2>7, <2>8, <2>9, EmptyFact, PopFact
<1> QED BY <1>1, <1>2
------------------------------------------------------------------------------
(* parse() and function().                                                 *)

LEMMA FunctionTokensFact ==
  ASSUME TypeOK
  PROVE  Cardinality(FunctionTokens(cursor)) \in Nat
<1>1. IsFiniteSet(1 .. cursor)
  BY FS_Interval DEF TypeOK
<1>2. IsFiniteSet(FunctionTokens(cursor))
  BY <1>1, FS_Subset DEF FunctionTokens
<1> QED BY <1>2, FS_CardinalityType

LEMMA BeginFunctionStep == IInv /\ BeginFunction => IInv'
<1> SUFFICES ASSUME IInv, BeginFunction PROVE IInv'
  OBVIOUS
<1> DEFINE name == ExpectIdentifier(cursor + 1)
           frame == [at |-> "function", name |-> name.name]
<1>1. /\ TypeOK /\ tokens \in Seq(Kinds) /\ cursor \in 0 .. Len(tokens)
      /\ calls = <<>> /\ Kind(cursor) = "func" /\ temp \in Seq(Nodes)
  BY DEF BeginFunction, TopLevel, IInv, TypeOK
<1>2. cursor + 1 \in 0 .. Len(tokens)
  BY <1>1, KindFact
<1>3. /\ Passes(cursor + 1, name.to) /\ name.to \in 0 .. Len(tokens)
      /\ name.errors \in Errors /\ name.name \in Nat
  BY <1>1, <1>2, ExpectIdentifierFact
<1>4. /\ tokens' = tokens /\ cursor' = name.to
      /\ diagnostics' = diagnostics \o name.errors
      /\ expressions' = expressions \o <<>> /\ statements' = statements \o <<>>
      /\ status' \in {"running", "too_many_diagnostics", "too_many_expressions",
                      "too_many_statements"}
      /\ UNCHANGED <<result, temp, functions>>
      /\ calls' = <<[at |-> "statement"]>> \o <<frame>>
  BY DEF BeginFunction, Commit, StatementCall
<1> HIDE DEF name
<1>5. [at |-> "statement"] \in Frames /\ frame \in Frames
  BY <1>3 DEF Frames
<1>6. calls' \in Seq(Frames) /\ Len(calls') = 2
  BY <1>4, <1>5
<1>7. calls'[1].at = "statement" /\ calls'[2].at = "function"
  BY <1>4, <1>5
<1>8. TypeOK'
  BY <1>1, <1>3, <1>4, <1>6 DEF TypeOK, Errors, Spans
<1>9. PreviousTokenExists'
  BY <1>1, <1>3, <1>4 DEF PreviousTokenExists, Passes
<1>10. StackInv'
  BY <1>6, <1>7 DEF StackInv
<1>11. BuildersFit'
  <2>1. \A i \in 1 .. 2 : ~IsBuilder(calls'[i])
    BY <1>7 DEF IsBuilder, BuilderLabels
  <2> QED BY <1>6, <2>1 DEF BuildersFit, IsBuilder
<1>13. BuildersNested'
  <2>1. temp = <<>>
    BY <1>1 DEF IInv, BuildersNested, Nested, NoBuilder
  <2>2. \A i \in 1 .. 2 : ~IsBuilder(calls'[i])
    BY <1>7 DEF IsBuilder, BuilderLabels
  <2>3. Len(temp') = 0
    BY <1>4, <2>1
  <2> QED BY <1>6, <2>2, <2>3 DEF BuildersNested, Nested
<1>12. EveryFunctionSurvives'
  <2>1. FunctionTokens(cursor)' = FunctionTokens(name.to)
    BY <1>4 DEF FunctionTokens
  <2>2. FunctionTokens(name.to) = FunctionTokens(cursor + 1)
    BY <1>1, <1>2, <1>3, SameFunctionTokens
  <2>3. Cardinality(FunctionTokens(cursor + 1)) = Cardinality(FunctionTokens(cursor)) + 1
    BY <1>1, OneMoreFunctionToken
  <2>4. Len(functions) = Cardinality(FunctionTokens(cursor)) /\ Len(functions) \in Nat
    BY <1>1 DEF IInv, EveryFunctionSurvives, FunctionTokens, TypeOK
  <2>5. Len(functions)' = Len(functions) /\ calls' # <<>>
    BY <1>4, <1>6
  <2> QED BY <2>1, <2>2, <2>3, <2>4, <2>5 DEF EveryFunctionSurvives, FunctionTokens
<1> QED BY <1>8, <1>9, <1>10, <1>11, <1>12, <1>13 DEF IInv

LEMMA EndFunctionStep == IInv /\ EndFunction => IInv'
<1> SUFFICES ASSUME IInv, EndFunction PROVE IInv'
  OBVIOUS
<1> DEFINE function == [name |-> Top.name, body |-> NextStatement]
<1>1. /\ TypeOK /\ tokens \in Seq(Kinds) /\ cursor \in 0 .. Len(tokens)
      /\ calls \in Seq(Frames) /\ calls # <<>> /\ Top.at = "function"
      /\ functions \in Seq([name : Nat, body : Nat])
      /\ Commit(cursor, <<>>, <<>>, <<result>>)
      /\ functions' = Append(functions, function)
      /\ calls' = Tail(calls) /\ UNCHANGED <<result, temp>>
  <2>1. calls' = <<>> \o Tail(calls)
    BY DEF EndFunction, Become
  <2>2. calls \in Seq(Frames) /\ calls # <<>>
    BY DEF EndFunction, At, IInv, TypeOK
  <2>3. Tail(calls) \in Seq(Frames)
    BY <2>2
  <2>4. calls' = Tail(calls)
    BY <2>1, <2>3
  <2> QED BY <2>2, <2>4 DEF EndFunction, At, AllocateStatement, IInv, TypeOK
<1>2. Top \in Frames
  BY <1>1 DEF Top
<1>3. function \in [name : Nat, body : Nat]
  BY <1>1, <1>2, FrameFields DEF NextStatement, TypeOK
<1>4. functions' \in Seq([name : Nat, body : Nat]) /\ Len(functions') = Len(functions) + 1
  BY <1>1, <1>3
<1>5. Len(calls) = 1
  <2>1. 1 \in 1 .. Len(calls)
    BY <1>1
  <2>2. calls[1].at = "function" <=> 1 = Len(calls)
    BY <2>1 DEF IInv, StackInv
  <2> QED BY <1>1, <2>2 DEF Top
<1>6. calls' = <<>> /\ Len(calls') = 0 /\ calls' \in Seq(Frames)
  BY <1>1, <1>5
<1>7. result' \in Nodes /\ temp' \in Seq(Nodes) /\ <<result>> \in NodeSeqs
  BY <1>1 DEF TypeOK, NodeSeqs
<1>8. Passes(cursor, cursor)
  BY <1>1, PassesNone
<1>9. TypeOK' /\ FunctionTokens(cursor)' = FunctionTokens(cursor)
  BY <1>1, <1>4, <1>6, <1>7, <1>8, EmptyFact, CommitFact
<1>10. PreviousTokenExists' /\ StackInv' /\ BuildersFit'
  BY <1>6 DEF PreviousTokenExists, StackInv, BuildersFit
<1>11. EveryFunctionSurvives'
  <2>1. Len(functions) + 1 = Cardinality(FunctionTokens(cursor))
    BY <1>1 DEF IInv, EveryFunctionSurvives, FunctionTokens
  <2>2. Len(functions') \in Nat /\ Len(functions') = Cardinality(FunctionTokens(cursor))
    BY <1>4, <2>1
  <2>3. Len(functions') = Cardinality(FunctionTokens(cursor)')
    BY <1>9, <2>2
  <2> QED BY <1>6, <2>2, <2>3 DEF EveryFunctionSurvives, FunctionTokens
<1>12. BuildersNested'
  <2>1. Nested(Tail(calls), Len(temp))
    BY <1>1, TopNested DEF IInv, TypeOK, IsBuilder, BuilderLabels
  <2> QED BY <1>1, <2>1 DEF BuildersNested
<1> QED BY <1>9, <1>10, <1>11, <1>12 DEF IInv

LEMMA NotAFunctionStep == IInv /\ NotAFunction => IInv'
<1> SUFFICES ASSUME IInv, NotAFunction PROVE IInv'
  OBVIOUS
<1> DEFINE e == Error(cursor, "eat_all")
<1>1. /\ TypeOK /\ tokens \in Seq(Kinds) /\ cursor \in 0 .. Len(tokens)
      /\ calls = <<>> /\ Kind(cursor) # "func"
      /\ Commit(e.to, e.errors, <<>>, <<>>)
      /\ UNCHANGED <<calls, result, temp, functions>>
  BY DEF NotAFunction, TopLevel, IInv, TypeOK
<1>2. Passes(cursor, e.to) /\ e.errors \in Errors
  BY <1>1, ErrorFact
<1>3. /\ calls' \in Seq(Frames) /\ result' \in Nodes /\ temp' \in Seq(Nodes)
      /\ functions' \in Seq([name : Nat, body : Nat])
  BY <1>1 DEF TypeOK
<1> HIDE DEF e
<1>4. TypeOK' /\ FunctionTokens(cursor)' = FunctionTokens(cursor)
  BY <1>1, <1>2, <1>3, EmptyFact, CommitFact
<1>5. PreviousTokenExists' /\ StackInv' /\ BuildersFit' /\ BuildersNested'
  BY <1>1 DEF PreviousTokenExists, StackInv, BuildersFit, BuildersNested, IInv
<1>6. EveryFunctionSurvives'
  BY <1>1, <1>4 DEF IInv, EveryFunctionSurvives, FunctionTokens
<1> QED BY <1>4, <1>5, <1>6 DEF IInv

LEMMA EndParseStep == IInv /\ EndParse => IInv'
BY DEF EndParse, IInv, TypeOK, PreviousTokenExists, StackInv, BuildersFit, BuildersNested,
       EveryFunctionSurvives
------------------------------------------------------------------------------
LEMMA BeginInv == tokens \in Seq(Kinds) /\ Begin => IInv
<1> SUFFICES ASSUME tokens \in Seq(Kinds), Begin PROVE IInv
  OBVIOUS
<1>1. TypeOK
  <2>1. Node("missing", <<>>, 0, 0) \in Nodes
    BY NodeFact, IndicesFact DEF NodeKinds
  <2>2. PICK n : n = Node("missing", <<>>, 0, 0)
    OBVIOUS
  <2>3. result = n /\ n \in Nodes
    BY <2>1, <2>2 DEF Begin
  <2>4. cursor \in 0 .. Len(tokens)
    BY DEF Begin
  <2> QED BY <2>3, <2>4 DEF Begin, TypeOK
<1>2. PreviousTokenExists /\ StackInv /\ BuildersFit /\ BuildersNested
  BY DEF Begin, PreviousTokenExists, StackInv, BuildersFit, BuildersNested, Nested
<1>3. EveryFunctionSurvives
  <2>1. {i \in 1 .. cursor : tokens[i] = "func"} = {}
    BY DEF Begin
  <2> QED BY <2>1, FS_EmptySet DEF Begin, EveryFunctionSurvives
<1> QED BY <1>1, <1>2, <1>3 DEF IInv

LEMMA InitInv == Init => IInv
BY BeginInv, InputsAssumption DEF Init

LEMMA ExpressionsInv == IInv /\ Expressions => IInv'
BY LiteralStep, BeginPrefixStep, EndPrefixStep, ParenthesesStep, IndexStep, EndOperandStep,
   OperatorStep, BeginBuilderStep, WaitStep, PushStep, PopStep DEF Expressions

LEMMA StatementsInv == IInv /\ Statements => IInv'
BY BeginBuilderStep, WaitStep, PushStep, PopStep, NotABlockStep, BeginStatementStep,
   EndReturnStep, SetStep, BranchStep, EndIfStep, UnmatchedElseStep, WhileStep,
   StatementIsBlockStep, DefinitionStep, MissingStatementStep DEF Statements

LEMMA NextInv == IInv /\ [Next]_vars => IInv'
<1>1. IInv /\ Next => IInv'
  BY BeginFunctionStep, EndFunctionStep, NotAFunctionStep, EndParseStep, ExpressionsInv,
     StatementsInv DEF Next
<1>2. IInv /\ UNCHANGED vars => IInv'
  BY DEF vars, IInv, TypeOK, PreviousTokenExists, StackInv, BuildersFit, BuildersNested,
         EveryFunctionSurvives
<1> QED BY <1>1, <1>2

LEMMA Invariance == Spec => []IInv
BY InitInv, NextInv, PTL DEF Spec

\* Whatever the tokens and the limits, every variable has its type; in
\* particular the cursor stays within the tokens (parse.c:50-92) and every
\* builder reads elements that are in the arena (parse.c:289-298, 479-488).
THEOREM TypeCorrect == Spec => []TypeOK
<1>1. IInv => TypeOK
  BY DEF IInv
<1> QED BY <1>1, Invariance, PTL

\* Whatever the tokens, no function of the parser asks for the token before
\* the cursor when there is none (parse.c:145, 325, 477, 594).
THEOREM AlwaysAPreviousToken == Spec => []PreviousTokenExists
<1>1. IInv => PreviousTokenExists
  BY DEF IInv
<1> QED BY <1>1, Invariance, PTL

\* Whatever the errors, every func token the parser passes starts a function:
\* error recovery (parse.c:94-132) never skips one.
THEOREM NoFunctionIsLost == Spec => []EveryFunctionSurvives
<1>1. IInv => EveryFunctionSurvives
  BY DEF IInv
<1> QED BY <1>1, Invariance, PTL

\* Whatever the tokens and the limits, the builders of array literals and
\* blocks divide the arena they share: each finds the elements it pushed, and
\* no others, between its base and that of the next (parse.c:275-298, 467-488).
THEOREM BuildersShareTheArena == Spec => []BuildersNested
<1>1. IInv => BuildersNested
  BY DEF IInv
<1> QED BY <1>1, Invariance, PTL
------------------------------------------------------------------------------
(* The spans of diagnostics: every diagnostic marks some text of the file. *)

\* The frames of the functions that parse expressions.
ExpressionLabels ==
  {"operand", "postfix", "prefix", "parentheses", "index", "operators", "rhs", "array",
   "element"}
ParsesExpression(f) == f.at \in ExpressionLabels

\* The frames of statements and blocks that have begun at their first token.
StatementLabels ==
  {"statements", "block_statement", "return", "set", "if", "while", "set_value",
   "true_branch", "while_body", "false_branch", "definition"}

\* They start at a token that has been consumed.
StartFits(f, c) == f.at \in StatementLabels => f.start \in 2 .. 2 * c

\* A span of one character or more after the first token.
MarksText(span) == span.start >= 2 /\ span.start < span.end
AllMarkText(errors) == \A i \in 1 .. Len(errors) : MarksText(errors[i])

\* What the parser drops is a statement, never an expression; it is missing or
\* it marks text.
Droppable(node) == node.kind = "missing" \/ MarksText(node)

SpansInv ==
  /\ \A i \in 1 .. Len(calls) : StartFits(calls[i], cursor)
  /\ \A i \in 1 .. Len(calls) - 1 :
       ParsesExpression(calls[i]) => calls[i + 1].at # "not_a_block"
  /\ calls # <<>> /\ Top.at = "not_a_block" => Droppable(result)
  /\ AllMarkText(diagnostics)
------------------------------------------------------------------------------
(* What one or two frames, or the frames of expression() and one that      *)
(* waits, put on the frames below the top one make of the stack.           *)

LEMMA ConcatAny ==
  ASSUME NEW S, NEW s \in Seq(S), NEW t \in Seq(S)
  PROVE  /\ Len(s \o t) = Len(s) + Len(t)
         /\ \A i \in 1 .. Len(s) + Len(t) :
              (s \o t)[i] = IF i <= Len(s) THEN s[i] ELSE t[i - Len(s)]
OBVIOUS

LEMMA NoneFact ==
  ASSUME calls \in Seq(Frames), calls # <<>>, Become(<<>>)
  PROVE  /\ Len(calls') = Len(calls) - 1
         /\ \A i \in 1 .. Len(calls') : calls'[i] = calls[i + 1]
<1>1. Tail(calls) \in Seq(Frames)
  OBVIOUS
<1>2. calls' = Tail(calls)
  BY <1>1 DEF Become
<1> QED BY <1>2

LEMMA OneFact ==
  ASSUME calls \in Seq(Frames), calls # <<>>, NEW f, Become(<<f>>)
  PROVE  /\ Len(calls') = Len(calls) /\ calls'[1] = f
         /\ \A i \in 2 .. Len(calls') : calls'[i] = calls[i]
<1> DEFINE S == Frames \cup {f}
           t == Tail(calls)
<1>1. t \in Seq(S) /\ Len(t) = Len(calls) - 1 /\ \A i \in 1 .. Len(t) : t[i] = calls[i + 1]
  OBVIOUS
<1>2. <<f>> \in Seq(S) /\ Len(<<f>>) = 1 /\ <<f>>[1] = f
  OBVIOUS
<1>3. calls' = <<f>> \o t
  BY DEF Become
<1> HIDE DEF S, t
<1>4. /\ Len(calls') = Len(t) + 1 /\ calls'[1] = f
      /\ \A i \in 2 .. Len(calls') : calls'[i] = t[i - 1]
  BY <1>1, <1>2, <1>3
<1> QED BY <1>1, <1>4

LEMMA TwoFact ==
  ASSUME calls \in Seq(Frames), calls # <<>>, NEW f, NEW g, Become(<<f, g>>)
  PROVE  /\ Len(calls') = Len(calls) + 1 /\ calls'[1] = f /\ calls'[2] = g
         /\ \A i \in 3 .. Len(calls') : calls'[i] = calls[i - 1]
<1> DEFINE S == Frames \cup {f, g}
           t == Tail(calls)
<1>1. t \in Seq(S) /\ Len(t) = Len(calls) - 1 /\ \A i \in 1 .. Len(t) : t[i] = calls[i + 1]
  OBVIOUS
<1>2. <<f, g>> \in Seq(S) /\ Len(<<f, g>>) = 2 /\ <<f, g>>[1] = f /\ <<f, g>>[2] = g
  OBVIOUS
<1>3. calls' = <<f, g>> \o t
  BY DEF Become
<1> HIDE DEF S, t
<1>4. /\ Len(calls') = Len(t) + 2 /\ calls'[1] = f /\ calls'[2] = g
      /\ \A i \in 3 .. Len(calls') : calls'[i] = t[i - 2]
  BY <1>1, <1>2, <1>3
<1> QED BY <1>1, <1>4

LEMMA ThreeFact ==
  ASSUME calls \in Seq(Frames), calls # <<>>, NEW f, NEW min, Become(ExpressionCall(min) \o <<f>>)
  PROVE  /\ Len(calls') = Len(calls) + 2
         /\ calls'[1] = [at |-> "operand"] /\ calls'[2] = [at |-> "operators", min |-> min]
         /\ calls'[3] = f
         /\ \A i \in 4 .. Len(calls') : calls'[i] = calls[i - 2]
<1> DEFINE g == [at |-> "operand"]
           h == [at |-> "operators", min |-> min]
           S == Frames \cup {f, g, h}
           t == Tail(calls)
           u == ExpressionCall(min) \o <<f>>
<1>1. t \in Seq(S) /\ Len(t) = Len(calls) - 1 /\ \A i \in 1 .. Len(t) : t[i] = calls[i + 1]
  OBVIOUS
<1>2. u \in Seq(S) /\ Len(u) = 3 /\ u[1] = g /\ u[2] = h /\ u[3] = f
  BY DEF ExpressionCall
<1>3. calls' = u \o t
  BY DEF Become
<1> HIDE DEF S, t, u, g, h
<1>4. /\ Len(calls') = Len(t) + 3
      /\ \A i \in 1 .. 3 : calls'[i] = u[i]
      /\ \A i \in 4 .. Len(calls') : calls'[i] = t[i - 3]
  <2>1. /\ Len(calls') = Len(u) + Len(t)
        /\ \A i \in 1 .. Len(u) + Len(t) :
             calls'[i] = IF i <= Len(u) THEN u[i] ELSE t[i - Len(u)]
    BY <1>1, <1>2, <1>3, ConcatAny
  <2> QED BY <1>1, <1>2, <2>1
<1>5. ASSUME NEW i \in 4 .. Len(calls') PROVE calls'[i] = calls[i - 2]
  <2>1. i - 3 \in 1 .. Len(t) /\ (i - 3) + 1 = i - 2
    BY <1>1, <1>4
  <2> QED BY <1>1, <1>4, <2>1
<1>6. Len(calls') = Len(calls) + 2
  BY <1>1, <1>4
<1> QED BY <1>2, <1>4, <1>5, <1>6 DEF g, h
------------------------------------------------------------------------------
(* Steps, by what they make of the stack.                                  *)

LEMMA CommitMarks ==
  ASSUME IInv, SpansInv, NEW to, NEW errors \in Errors, AllMarkText(errors),
         NEW exprs, NEW stmts, Commit(to, errors, exprs, stmts)
  PROVE  AllMarkText(diagnostics') /\ cursor' = to
<1>1. diagnostics \in Errors /\ AllMarkText(diagnostics)
  BY DEF IInv, TypeOK, Errors, Spans, SpansInv
<1>2. diagnostics' = diagnostics \o errors /\ cursor' = to
  BY DEF Commit
<1>3. ASSUME NEW i \in 1 .. Len(diagnostics \o errors)
      PROVE  MarksText((diagnostics \o errors)[i])
  <2>1. /\ Len(diagnostics \o errors) = Len(diagnostics) + Len(errors)
        /\ (diagnostics \o errors)[i] = IF i <= Len(diagnostics) THEN diagnostics[i]
                                        ELSE errors[i - Len(diagnostics)]
        /\ Len(diagnostics) \in Nat /\ Len(errors) \in Nat
    BY <1>1, ConcatAny DEF Errors
  <2>2. CASE i <= Len(diagnostics)
    BY <1>1, <2>1, <2>2 DEF AllMarkText
  <2>3. CASE i > Len(diagnostics)
    <3>1. i - Len(diagnostics) \in 1 .. Len(errors)
      BY <2>1, <2>3
    <3> QED BY <2>1, <2>3, <3>1 DEF AllMarkText
  <2> QED BY <2>1, <2>2, <2>3
<1> QED BY <1>2, <1>3 DEF AllMarkText

LEMMA FitsLater ==
  ASSUME NEW f, NEW c \in Nat, NEW d \in Nat, c <= d, StartFits(f, c)
  PROVE  StartFits(f, d)
BY DEF StartFits

\* A function returns.
LEMMA SpansReturn ==
  ASSUME IInv, SpansInv, calls # <<>>,
         NEW to \in Nat, cursor <= to, NEW errors \in Errors, AllMarkText(errors),
         NEW exprs, NEW stmts, Commit(to, errors, exprs, stmts),
         Become(<<>>), ParsesExpression(Top) \/ Droppable(result')
  PROVE  SpansInv'
<1>1. calls \in Seq(Frames) /\ cursor \in Nat /\ Len(calls) \in Nat
  BY DEF IInv, TypeOK
<1>2. /\ Len(calls') = Len(calls) - 1
      /\ \A i \in 1 .. Len(calls') : calls'[i] = calls[i + 1]
  BY <1>1, NoneFact
<1>3. AllMarkText(diagnostics') /\ cursor' = to
  BY CommitMarks
<1>4. ASSUME NEW i \in 1 .. Len(calls') PROVE StartFits(calls'[i], cursor')
  <2>1. i + 1 \in 1 .. Len(calls)
    BY <1>1, <1>2
  <2>2. StartFits(calls[i + 1], cursor)
    BY <2>1 DEF SpansInv
  <2> QED BY <1>1, <1>2, <1>3, <2>2, FitsLater
<1>5. ASSUME NEW i \in 1 .. Len(calls') - 1, ParsesExpression(calls'[i])
      PROVE  calls'[i + 1].at # "not_a_block"
  <2>1. /\ i + 1 \in 1 .. Len(calls) - 1 /\ i \in 1 .. Len(calls')
        /\ i + 1 \in 1 .. Len(calls')
    BY <1>1, <1>2
  <2> QED BY <1>2, <1>5, <2>1 DEF SpansInv
<1>6. ASSUME calls' # <<>>, calls'[1].at = "not_a_block" PROVE Droppable(result')
  <2>1. calls' \in Seq(Frames) /\ Len(calls') >= 1
    <3>1. calls' = <<>> \o Tail(calls)
      BY DEF Become
    <3> QED BY <1>1, <1>6, <3>1
  <2>2. calls'[1] = calls[2] /\ 1 \in 1 .. Len(calls) - 1
    BY <1>1, <1>2, <2>1
  <2>3. ParsesExpression(calls[1]) => calls[1 + 1].at # "not_a_block"
    BY <2>2 DEF SpansInv
  <2> QED BY <1>6, <2>2, <2>3 DEF Top
<1> QED BY <1>3, <1>4, <1>5, <1>6 DEF SpansInv, ParsesExpression, StartFits, AllMarkText,
           MarksText, Top, Droppable

\* A function goes on.
LEMMA SpansGoOn ==
  ASSUME IInv, SpansInv, calls # <<>>,
         NEW to \in Nat, cursor <= to, NEW errors \in Errors, AllMarkText(errors),
         NEW exprs, NEW stmts, Commit(to, errors, exprs, stmts),
         NEW f, Become(<<f>>), f.at # "not_a_block", StartFits(f, to),
         ParsesExpression(f) => ParsesExpression(Top)
  PROVE  SpansInv'
<1>1. calls \in Seq(Frames) /\ cursor \in Nat /\ Len(calls) \in Nat /\ Len(calls) >= 1
  BY DEF IInv, TypeOK
<1>2. /\ Len(calls') = Len(calls) /\ calls'[1] = f
      /\ \A i \in 2 .. Len(calls') : calls'[i] = calls[i]
  BY <1>1, OneFact
<1>3. AllMarkText(diagnostics') /\ cursor' = to
  BY CommitMarks
<1>4. ASSUME NEW i \in 1 .. Len(calls') PROVE StartFits(calls'[i], cursor')
  <2>1. CASE i = 1
    BY <1>2, <1>3, <2>1
  <2>2. CASE i # 1
    <3>1. i \in 2 .. Len(calls') /\ i \in 1 .. Len(calls)
      BY <1>1, <1>2, <2>2
    <3>2. StartFits(calls[i], cursor)
      BY <3>1 DEF SpansInv
    <3> QED BY <1>1, <1>2, <1>3, <3>1, <3>2, FitsLater
  <2> QED BY <2>1, <2>2
<1>5. ASSUME NEW i \in 1 .. Len(calls') - 1, ParsesExpression(calls'[i])
      PROVE  calls'[i + 1].at # "not_a_block"
  <2>1. /\ i \in 1 .. Len(calls) - 1 /\ i + 1 \in 2 .. Len(calls')
        /\ calls'[i + 1] = calls[i + 1]
    BY <1>1, <1>2
  <2>2. ParsesExpression(calls[i])
    BY <1>1, <1>2, <1>5 DEF Top
  <2> QED BY <2>1, <2>2 DEF SpansInv
<1> QED BY <1>2, <1>3, <1>4, <1>5 DEF SpansInv, ParsesExpression, StartFits, AllMarkText,
           MarksText, Top, Droppable

\* A function calls another.
LEMMA SpansCall ==
  ASSUME IInv, SpansInv, calls # <<>>,
         NEW to \in Nat, cursor <= to, NEW errors \in Errors, AllMarkText(errors),
         NEW exprs, NEW stmts, Commit(to, errors, exprs, stmts),
         NEW f, NEW g, Become(<<f, g>>), f.at # "not_a_block",
         StartFits(f, to), StartFits(g, to),
         ParsesExpression(f) => g.at # "not_a_block", ParsesExpression(g) => ParsesExpression(Top)
  PROVE  SpansInv'
<1>1. calls \in Seq(Frames) /\ cursor \in Nat /\ Len(calls) \in Nat /\ Len(calls) >= 1
  BY DEF IInv, TypeOK
<1>2. /\ Len(calls') = Len(calls) + 1 /\ calls'[1] = f /\ calls'[2] = g
      /\ \A i \in 3 .. Len(calls') : calls'[i] = calls[i - 1]
  BY <1>1, TwoFact
<1>3. AllMarkText(diagnostics') /\ cursor' = to
  BY CommitMarks
<1>4. ASSUME NEW i \in 1 .. Len(calls') PROVE StartFits(calls'[i], cursor')
  <2>1. CASE i \in {1, 2}
    BY <1>2, <1>3, <2>1
  <2>2. CASE i \notin {1, 2}
    <3>1. i \in 3 .. Len(calls') /\ i - 1 \in 1 .. Len(calls)
      BY <1>1, <1>2, <2>2
    <3>2. StartFits(calls[i - 1], cursor)
      BY <3>1 DEF SpansInv
    <3> QED BY <1>1, <1>2, <1>3, <3>1, <3>2, FitsLater
  <2> QED BY <2>1, <2>2
<1>5. ASSUME NEW i \in 1 .. Len(calls') - 1, ParsesExpression(calls'[i])
      PROVE  calls'[i + 1].at # "not_a_block"
  <2>1. CASE i = 1
    BY <1>2, <1>5, <2>1
  <2>2. CASE i # 1
    <3>1. /\ i - 1 \in 1 .. Len(calls) - 1 /\ i + 1 \in 3 .. Len(calls')
          /\ calls'[i + 1] = calls[(i - 1) + 1]
      BY <1>1, <1>2, <2>2
    <3>2. ParsesExpression(calls[i - 1])
      <4>1. CASE i = 2
        BY <1>2, <1>5, <4>1 DEF Top
      <4>2. CASE i # 2
        <5>1. i \in 3 .. Len(calls')
          BY <1>1, <1>2, <2>2, <4>2
        <5> QED BY <1>2, <1>5, <5>1
      <4> QED BY <4>1, <4>2
    <3> QED BY <3>1, <3>2 DEF SpansInv
  <2> QED BY <2>1, <2>2
<1> QED BY <1>2, <1>3, <1>4, <1>5 DEF SpansInv, ParsesExpression, StartFits, AllMarkText,
           MarksText, Top, Droppable

\* A function calls expression().
LEMMA SpansCallExpression ==
  ASSUME IInv, SpansInv, calls # <<>>,
         NEW to \in Nat, cursor <= to, NEW errors \in Errors, AllMarkText(errors),
         NEW exprs, NEW stmts, Commit(to, errors, exprs, stmts),
         NEW f, NEW min, Become(ExpressionCall(min) \o <<f>>), f.at # "not_a_block",
         StartFits(f, to), ParsesExpression(f) => ParsesExpression(Top)
  PROVE  SpansInv'
<1>1. calls \in Seq(Frames) /\ cursor \in Nat /\ Len(calls) \in Nat /\ Len(calls) >= 1
  BY DEF IInv, TypeOK
<1>2. /\ Len(calls') = Len(calls) + 2
      /\ calls'[1] = [at |-> "operand"] /\ calls'[2] = [at |-> "operators", min |-> min]
      /\ calls'[3] = f
      /\ \A i \in 4 .. Len(calls') : calls'[i] = calls[i - 2]
  BY <1>1, ThreeFact
<1>3. AllMarkText(diagnostics') /\ cursor' = to
  BY CommitMarks
<1>4. ASSUME NEW i \in 1 .. Len(calls') PROVE StartFits(calls'[i], cursor')
  <2>1. CASE i \in {1, 2}
    BY <1>2, <1>3, <2>1 DEF StartFits, StatementLabels
  <2>2. CASE i = 3
    BY <1>2, <1>3, <2>2
  <2>3. CASE i \notin {1, 2, 3}
    <3>1. i \in 4 .. Len(calls') /\ i - 2 \in 1 .. Len(calls)
      BY <1>1, <1>2, <2>3
    <3>2. StartFits(calls[i - 2], cursor)
      BY <3>1 DEF SpansInv
    <3> QED BY <1>1, <1>2, <1>3, <3>1, <3>2, FitsLater
  <2> QED BY <2>1, <2>2, <2>3
<1>5. ASSUME NEW i \in 1 .. Len(calls') - 1, ParsesExpression(calls'[i])
      PROVE  calls'[i + 1].at # "not_a_block"
  <2>1. CASE i \in {1, 2}
    BY <1>2, <2>1
  <2>2. CASE i \notin {1, 2}
    <3>1. /\ i - 2 \in 1 .. Len(calls) - 1 /\ i + 1 \in 4 .. Len(calls')
          /\ calls'[i + 1] = calls[(i - 2) + 1]
      BY <1>1, <1>2, <2>2
    <3>2. ParsesExpression(calls[i - 2])
      <4>1. CASE i = 3
        BY <1>2, <1>5, <4>1 DEF Top
      <4>2. CASE i # 3
        <5>1. i \in 4 .. Len(calls')
          BY <1>1, <1>2, <2>2, <4>2
        <5> QED BY <1>2, <1>5, <5>1
      <4> QED BY <4>1, <4>2
    <3> QED BY <3>1, <3>2 DEF SpansInv
  <2> QED BY <2>1, <2>2
<1> QED BY <1>2, <1>3, <1>4, <1>5 DEF SpansInv, ParsesExpression, StartFits, AllMarkText,
           MarksText, Top, Droppable

LEMMA SpansOperand ==
  ASSUME IInv, SpansInv, calls # <<>>,
         NEW to \in Nat, cursor <= to, NEW errors \in Errors, AllMarkText(errors),
         NEW exprs, NEW stmts, Commit(to, errors, exprs, stmts),
         NEW value, Operand(value), ParsesExpression(Top)
  PROVE  SpansInv'
<1>1. [at |-> "postfix"].at # "not_a_block" /\ StartFits([at |-> "postfix"], to)
  BY DEF StartFits, StatementLabels
<1>2. Become(<<[at |-> "postfix"]>>)
  BY DEF Operand, ReturnTo
<1> QED BY <1>1, <1>2, SpansGoOn

LEMMA SpansReturnValue ==
  ASSUME IInv, SpansInv, calls # <<>>,
         NEW to \in Nat, cursor <= to, NEW errors \in Errors, AllMarkText(errors),
         NEW exprs, NEW stmts, Commit(to, errors, exprs, stmts),
         NEW value, Return(value), ParsesExpression(Top) \/ Droppable(value)
  PROVE  SpansInv'
<1>1. Become(<<>>) /\ result' = value
  BY DEF Return, ReturnTo
<1> QED BY <1>1, SpansReturn DEF Droppable, MarksText
------------------------------------------------------------------------------
(* Errors.                                                                 *)

LEMMA NoErrors == <<>> \in Errors /\ AllMarkText(<<>>)
BY DEF Errors, AllMarkText

LEMMA TokenMarks ==
  ASSUME NEW c \in Nat
  PROVE  /\ <<[start |-> StartOf(c + 1), end |-> EndOf(c + 1)]>> \in Errors
         /\ AllMarkText(<<[start |-> StartOf(c + 1), end |-> EndOf(c + 1)]>>)
<1> DEFINE span == [start |-> StartOf(c + 1), end |-> EndOf(c + 1)]
<1>1. span \in Spans /\ MarksText(span)
  BY DEF StartOf, EndOf, Spans, MarksText
<1> HIDE DEF span
<1>2. <<span>> \in Errors /\ AllMarkText(<<span>>)
  BY <1>1 DEF Errors, AllMarkText
<1> QED BY <1>2 DEF span

LEMMA ErrorMarks ==
  ASSUME tokens \in Seq(Kinds), NEW c \in 1 .. Len(tokens), NEW mode
  PROVE  /\ Error(c, mode).to \in Nat /\ c <= Error(c, mode).to
         /\ Error(c, mode).errors \in Errors
         /\ AllMarkText(Error(c, mode).errors)
<1>0. c \in Nat /\ c >= 1
  OBVIOUS
<1>1. CASE Skips(c, mode)
  <2>1. /\ Error(c, mode).to = c + 1
        /\ Error(c, mode).errors = <<[start |-> StartOf(c + 1), end |-> EndOf(c + 1)]>>
    BY <1>1 DEF Error
  <2> QED BY <1>0, <2>1, TokenMarks
<1>2. CASE ~Skips(c, mode)
  <2> DEFINE span == [start |-> EndOf(c), end |-> EndOf(c) + 1]
  <2>1. span \in Spans /\ MarksText(span)
    BY <1>0 DEF EndOf, Spans, MarksText
  <2>2. Error(c, mode).to = c /\ Error(c, mode).errors = <<span>>
    BY <1>2 DEF Error
  <2> HIDE DEF span
  <2> QED BY <1>0, <2>1, <2>2 DEF Errors, AllMarkText
<1> QED BY <1>1, <1>2

LEMMA ExpectMarks ==
  ASSUME tokens \in Seq(Kinds), NEW c \in 1 .. Len(tokens), NEW kind, NEW mode
  PROVE  /\ Expect(c, kind, mode).to \in Nat /\ c <= Expect(c, kind, mode).to
         /\ Expect(c, kind, mode).errors \in Errors
         /\ AllMarkText(Expect(c, kind, mode).errors)
<1>1. CASE Kind(c) = kind
  <2>1. Expect(c, kind, mode).to = c + 1 /\ Expect(c, kind, mode).errors = <<>>
    BY <1>1 DEF Expect
  <2> QED BY <2>1, NoErrors
<1>2. CASE Kind(c) # kind
  <2>1. Expect(c, kind, mode) = Error(c, mode)
    BY <1>2 DEF Expect
  <2> QED BY <2>1, ErrorMarks
<1> QED BY <1>1, <1>2

\* Where a function other than function() is on top.
LEMMA AtSpans ==
  ASSUME IInv, SpansInv, NEW label, At(label)
  PROVE  /\ calls # <<>> /\ Top.at = label
         /\ label \in ExpressionLabels => ParsesExpression(Top)
         /\ tokens \in Seq(Kinds) /\ cursor \in 1 .. Len(tokens)
         /\ cursor \in Nat /\ cursor <= cursor
         /\ cursor + 1 \in Nat /\ cursor <= cursor + 1
         /\ Kind(cursor) # "eof" => SpanStart(cursor) \in 2 .. 2 * (cursor + 1)
         /\ label \in StatementLabels => Top.start \in 2 .. 2 * cursor
         /\ label = "not_a_block" => Droppable(result)
<1>1. calls # <<>> /\ Top.at = label
  BY DEF At
<1>2. calls \in Seq(Frames) /\ 1 \in 1 .. Len(calls)
  BY <1>1 DEF IInv, TypeOK
<1>3. tokens \in Seq(Kinds) /\ cursor \in 1 .. Len(tokens)
  BY <1>1 DEF IInv, TypeOK, PreviousTokenExists
<1>4. Kind(cursor) # "eof" => SpanStart(cursor) \in 2 .. 2 * (cursor + 1)
  BY <1>3 DEF SpanStart, AtEof, StartOf
<1>5. label \in StatementLabels => Top.start \in 2 .. 2 * cursor
  BY <1>1, <1>2 DEF SpansInv, StartFits, Top
<1>6. label = "not_a_block" => Droppable(result)
  BY <1>1 DEF SpansInv
<1> QED BY <1>1, <1>3, <1>4, <1>5, <1>6 DEF ParsesExpression

\* A statement that ends where the last token consumed does.
LEMMA DroppableFact ==
  ASSUME NEW kind, NEW data, NEW c \in Nat, NEW start \in 2 .. 2 * c, NEW d \in Nat, c <= d
  PROVE  Droppable(Node(kind, data, start, EndOf(d)))
BY DEF Droppable, Node, MarksText, EndOf
------------------------------------------------------------------------------
LEMMA ExpressionsSpans == IInv /\ SpansInv /\ Expressions => SpansInv'
<1> SUFFICES ASSUME IInv, SpansInv, Expressions PROVE SpansInv'
  OBVIOUS
<1> USE DEF ExpressionLabels
<1>1. CASE Literal
  <2>1. At("operand")
    BY <1>1 DEF Literal
  <2> QED BY <1>1, <2>1, AtSpans, NoErrors, SpansOperand DEF Literal, Advance
<1>2. CASE BeginPrefix
  <2> DEFINE g == [at |-> "prefix", start |-> SpanStart(cursor),
                   kind |-> IF Kind(cursor) = "&" THEN "address_of" ELSE "dereference"]
  <2>1. At("operand")
    BY <1>2 DEF BeginPrefix
  <2>2. /\ Become(<<[at |-> "operand"], g>>) /\ Commit(cursor + 1, <<>>, <<>>, <<>>)
        /\ StartFits([at |-> "operand"], cursor + 1) /\ StartFits(g, cursor + 1)
        /\ g.at # "not_a_block" /\ [at |-> "operand"].at # "not_a_block"
    BY <1>2 DEF BeginPrefix, Call, Advance, StartFits, StatementLabels
  <2> HIDE DEF g
  <2> QED BY <2>1, <2>2, AtSpans, NoErrors, SpansCall
<1>3. CASE EndPrefix
  <2>1. At("prefix")
    BY <1>3 DEF EndPrefix
  <2> QED BY <1>3, <2>1, AtSpans, NoErrors, SpansOperand DEF EndPrefix, AllocateExpressions
<1>4. CASE BeginParentheses
  <2> DEFINE f == [at |-> "parentheses"]
  <2>1. At("operand")
    BY <1>4 DEF BeginParentheses
  <2>2. /\ Become(ExpressionCall(0) \o <<f>>) /\ Commit(cursor + 1, <<>>, <<>>, <<>>)
        /\ StartFits(f, cursor + 1) /\ f.at # "not_a_block"
    BY <1>4 DEF BeginParentheses, Call, Advance, StartFits, StatementLabels
  <2> HIDE DEF f
  <2> QED BY <2>1, <2>2, AtSpans, NoErrors, SpansCallExpression
<1>5. CASE EndParentheses
  <2>1. At("parentheses")
    BY <1>5 DEF EndParentheses
  <2> QED BY <1>5, <2>1, AtSpans, ExpectMarks, SpansOperand DEF EndParentheses
<1>6. CASE BeginIndex
  <2> DEFINE f == [at |-> "index", array |-> result]
  <2>1. At("postfix")
    BY <1>6 DEF BeginIndex
  <2>2. /\ Become(ExpressionCall(0) \o <<f>>) /\ Commit(cursor + 1, <<>>, <<>>, <<>>)
        /\ StartFits(f, cursor + 1) /\ f.at # "not_a_block"
    BY <1>6 DEF BeginIndex, Call, Advance, StartFits, StatementLabels
  <2> HIDE DEF f
  <2> QED BY <2>1, <2>2, AtSpans, NoErrors, SpansCallExpression
<1>7. CASE EndIndex
  <2>1. At("index")
    BY <1>7 DEF EndIndex
  <2> QED BY <1>7, <2>1, AtSpans, ExpectMarks, SpansOperand DEF EndIndex
<1>8. CASE EndOperand
  <2>1. At("postfix")
    BY <1>8 DEF EndOperand
  <2> QED BY <1>8, <2>1, AtSpans, NoErrors, SpansReturnValue DEF EndOperand, Stay
<1>9. CASE MissingOperand
  <2>1. At("operand")
    BY <1>9 DEF MissingOperand
  <2> QED BY <1>9, <2>1, AtSpans, ErrorMarks, SpansOperand DEF MissingOperand
<1>10. CASE BeginArray
  <2> DEFINE f == Builder("array", SpanStart(cursor))
  <2>1. At("operand")
    BY <1>10 DEF BeginArray
  <2>2. /\ Become(<<f>>) /\ Commit(cursor + 1, <<>>, <<>>, <<>>)
        /\ StartFits(f, cursor + 1) /\ f.at # "not_a_block"
    BY <1>10 DEF BeginArray, Call, Advance, StartFits, StatementLabels, Builder
  <2> HIDE DEF f
  <2> QED BY <2>1, <2>2, AtSpans, NoErrors, SpansGoOn
<1>11. CASE BeginElement
  <2> DEFINE f == [Top EXCEPT !.at = "element"]
  <2>1. At("array")
    BY <1>11 DEF BeginElement
  <2>2. f.at = "element"
    <3>1. Top \in BuilderFrame
      BY <1>11, <2>1, AtFact, FrameFields DEF IsBuilder, BuilderLabels
    <3> QED BY <3>1 DEF BuilderFrame
  <2>3. /\ Become(ExpressionCall(0) \o <<f>>) /\ Commit(cursor, <<>>, <<>>, <<>>)
        /\ StartFits(f, cursor) /\ f.at # "not_a_block"
    BY <1>11, <2>2 DEF BeginElement, Call, Stay, StartFits, StatementLabels
  <2> HIDE DEF f
  <2> QED BY <2>1, <2>3, AtSpans, NoErrors, SpansCallExpression
<1>12. CASE EndElement
  <2> DEFINE f == Pushed(Top, "array")
             comma == IF InArray(cursor) THEN Expect(cursor, ",", "eat_none")
                                         ELSE [to |-> cursor, errors |-> <<>>]
  <2>1. At("element")
    BY <1>12 DEF EndElement
  <2>2. f.at = "array"
    <3>1. Top \in BuilderFrame
      BY <1>12, <2>1, AtFact, FrameFields DEF IsBuilder, BuilderLabels
    <3> QED BY <3>1 DEF BuilderFrame, Pushed
  <2>3. comma.to \in Nat /\ cursor <= comma.to /\ comma.errors \in Errors
        /\ AllMarkText(comma.errors)
    BY <2>1, AtSpans, ExpectMarks, NoErrors
  <2>4. /\ Become(<<f>>) /\ Commit(comma.to, comma.errors, <<>>, <<>>)
        /\ StartFits(f, comma.to) /\ f.at # "not_a_block"
    BY <1>12, <2>2 DEF EndElement, StartFits, StatementLabels
  <2> HIDE DEF f, comma
  <2> QED BY <2>1, <2>3, <2>4, AtSpans, SpansGoOn
<1>13. CASE EndArray
  <2> DEFINE f == [at |-> "postfix"]
             close == Expect(cursor, "]", "recover")
  <2>1. At("array")
    BY <1>13 DEF EndArray
  <2>2. close.to \in Nat /\ cursor <= close.to /\ close.errors \in Errors
        /\ AllMarkText(close.errors)
    BY <2>1, AtSpans, ExpectMarks
  <2>3. /\ Become(<<f>>) /\ Commit(close.to, close.errors, Built(Top), <<>>)
        /\ StartFits(f, close.to) /\ f.at # "not_a_block"
    BY <1>13 DEF EndArray, ReturnTo, StartFits, StatementLabels
  <2> HIDE DEF f, close
  <2> QED BY <2>1, <2>2, <2>3, AtSpans, SpansGoOn
<1>14. CASE BeginRhs
  <2> DEFINE f == [at |-> "rhs", min |-> Top.min, lhs |-> result, op |-> Kind(cursor)]
             min == BindingPower[Kind(cursor)] + 1
  <2>1. At("operators")
    BY <1>14 DEF BeginRhs
  <2>2. /\ Become(ExpressionCall(min) \o <<f>>) /\ Commit(cursor + 1, <<>>, <<>>, <<>>)
        /\ StartFits(f, cursor + 1) /\ f.at # "not_a_block"
    BY <1>14 DEF BeginRhs, Call, Advance, StartFits, StatementLabels
  <2> HIDE DEF f, min
  <2> QED BY <2>1, <2>2, AtSpans, NoErrors, SpansCallExpression
<1>15. CASE EndRhs
  <2> DEFINE f == [at |-> "operators", min |-> Top.min]
  <2>1. At("rhs")
    BY <1>15 DEF EndRhs
  <2>2. /\ Become(<<f>>) /\ Commit(cursor, <<>>, <<Top.lhs, result>>, <<>>)
        /\ StartFits(f, cursor) /\ f.at # "not_a_block"
    BY <1>15 DEF EndRhs, AllocateExpressions, StartFits, StatementLabels
  <2> HIDE DEF f
  <2> QED BY <2>1, <2>2, AtSpans, NoErrors, SpansGoOn
<1>16. CASE EndExpression
  <2>1. At("operators")
    BY <1>16 DEF EndExpression
  <2> QED BY <1>16, <2>1, AtSpans, NoErrors, SpansReturnValue DEF EndExpression, Stay
<1> QED BY <1>1, <1>2, <1>3, <1>4, <1>5, <1>6, <1>7, <1>8, <1>9, <1>10, <1>11, <1>12, <1>13,
           <1>14, <1>15, <1>16 DEF Expressions

LEMMA CallsFact ==
  ASSUME NEW f
  PROVE  /\ StatementCall \o <<f>> = <<[at |-> "statement"], f>>
         /\ BlockCall \o <<f>> = <<[at |-> "block"], f>>
<1>1. ASSUME NEW e PROVE <<e>> \o <<f>> = <<e, f>>
  <2> DEFINE S == {e, f}
  <2>1. <<e>> \in Seq(S) /\ <<f>> \in Seq(S) /\ <<e, f>> \in Seq(S)
    OBVIOUS
  <2>2. /\ <<e>> \o <<f>> \in Seq(S) /\ Len(<<e>> \o <<f>>) = 2
        /\ \A i \in 1 .. 2 : (<<e>> \o <<f>>)[i] = <<e, f>>[i]
    BY <2>1
  <2>3. Len(<<e, f>>) = 2
    OBVIOUS
  <2> HIDE DEF S
  <2> QED BY <2>1, <2>2, <2>3, SeqEqual
<1> QED BY <1>1 DEF StatementCall, BlockCall

LEMMA StatementsSpans == IInv /\ SpansInv /\ Statements => SpansInv'
<1> SUFFICES ASSUME IInv, SpansInv, Statements PROVE SpansInv'
  OBVIOUS
<1>1. CASE BeginBlock
  <2> DEFINE f == Builder("statements", SpanStart(cursor))
  <2>1. At("block") /\ Kind(cursor) # "eof"
    BY <1>1 DEF BeginBlock
  <2>2. StartFits(f, cursor + 1) /\ f.at # "not_a_block" /\ ~ParsesExpression(f)
    BY <2>1, AtSpans DEF StartFits, Builder, ParsesExpression, ExpressionLabels
  <2>3. Become(<<f>>) /\ Commit(cursor + 1, <<>>, <<>>, <<>>)
    BY <1>1 DEF BeginBlock, Call, Advance
  <2> HIDE DEF f
  <2> QED BY <2>1, <2>2, <2>3, AtSpans, NoErrors, SpansGoOn
<1>2. CASE BeginBlockStatement
  <2> DEFINE f == [at |-> "statement"]
             g == [Top EXCEPT !.at = "block_statement"]
  <2>1. At("statements")
    BY <1>2 DEF BeginBlockStatement
  <2>2. g.at = "block_statement" /\ g.start = Top.start
    <3>1. Top \in BuilderFrame
      BY <1>2, <2>1, AtFact, FrameFields DEF IsBuilder, BuilderLabels
    <3> QED BY <3>1 DEF BuilderFrame
  <2>3. /\ StartFits(f, cursor) /\ StartFits(g, cursor)
        /\ f.at # "not_a_block" /\ ~ParsesExpression(f) /\ ~ParsesExpression(g)
    BY <2>1, <2>2, AtSpans DEF StartFits, StatementLabels, ParsesExpression, ExpressionLabels
  <2>4. Become(<<f, g>>) /\ Commit(cursor, <<>>, <<>>, <<>>)
    BY <1>2, CallsFact DEF BeginBlockStatement, Call, Stay
  <2> HIDE DEF f, g
  <2> QED BY <2>1, <2>3, <2>4, AtSpans, NoErrors, SpansCall
<1>3. CASE EndBlockStatement
  <2> DEFINE f == Pushed(Top, "statements")
  <2>1. At("block_statement")
    BY <1>3 DEF EndBlockStatement
  <2>2. f.at = "statements" /\ f.start = Top.start
    <3>1. Top \in BuilderFrame
      BY <1>3, <2>1, AtFact, FrameFields DEF IsBuilder, BuilderLabels
    <3> QED BY <3>1 DEF BuilderFrame, Pushed
  <2>3. StartFits(f, cursor) /\ f.at # "not_a_block" /\ ~ParsesExpression(f)
    BY <2>1, <2>2, AtSpans DEF StartFits, StatementLabels, ParsesExpression, ExpressionLabels
  <2>4. Become(<<f>>) /\ Commit(cursor, <<>>, <<>>, <<>>)
    BY <1>3 DEF EndBlockStatement, Stay
  <2> HIDE DEF f
  <2> QED BY <2>1, <2>3, <2>4, AtSpans, NoErrors, SpansGoOn
<1>4. CASE EndBlock
  <2> DEFINE close == Expect(cursor, "}", "recover")
             value == Node("block", <<FirstOf(Top, NextStatement), Top.count>>,
                           Top.start, EndOf(close.to))
  <2>1. At("statements")
    BY <1>4 DEF EndBlock
  <2>2. close.to \in Nat /\ cursor <= close.to /\ close.errors \in Errors
        /\ AllMarkText(close.errors)
    BY <2>1, AtSpans, ExpectMarks
  <2>3. Droppable(value)
    BY <2>1, <2>2, AtSpans, DroppableFact DEF StatementLabels
  <2>4. /\ Become(<<>>) /\ result' = value
        /\ Commit(close.to, close.errors, <<>>, Built(Top))
    BY <1>4 DEF EndBlock, ReturnTo
  <2>5. Droppable(result')
    BY <2>3, <2>4 DEF Droppable, MarksText
  <2> HIDE DEF close, value
  <2> QED BY <2>1, <2>2, <2>4, <2>5, AtSpans, SpansReturn
<1>5. CASE BeginNotABlock
  <2> DEFINE f == [at |-> "statement"]
             g == [at |-> "not_a_block", start |-> SpanStart(cursor)]
  <2>1. At("block")
    BY <1>5 DEF BeginNotABlock
  <2>2. /\ StartFits(f, cursor) /\ StartFits(g, cursor)
        /\ f.at # "not_a_block" /\ ~ParsesExpression(f) /\ ~ParsesExpression(g)
    BY DEF StartFits, StatementLabels, ParsesExpression, ExpressionLabels
  <2>3. Become(<<f, g>>) /\ Commit(cursor, <<>>, <<>>, <<>>)
    BY <1>5, CallsFact DEF BeginNotABlock, Call, Stay
  <2> HIDE DEF f, g
  <2> QED BY <2>1, <2>2, <2>3, AtSpans, NoErrors, SpansCall
<1>6. CASE EndNotABlock
  <2> DEFINE errors == IF result.kind = "missing" THEN <<>>
                       ELSE <<[start |-> result.start, end |-> result.end]>>
             value == Node("missing", <<>>, Top.start, 0)
  <2>1. At("not_a_block")
    BY <1>6 DEF EndNotABlock
  <2>2. result \in Nodes /\ Droppable(result)
    BY <2>1, AtSpans DEF IInv, TypeOK
  <2>3. errors \in Errors /\ AllMarkText(errors)
    <3>1. CASE result.kind = "missing"
      BY <3>1, NoErrors
    <3>2. CASE result.kind # "missing"
      <4> DEFINE span == [start |-> result.start, end |-> result.end]
      <4>1. span \in Spans /\ MarksText(span)
        BY <2>2, <3>2 DEF Droppable, MarksText, Spans, Nodes
      <4> HIDE DEF span
      <4>2. <<span>> \in Errors /\ AllMarkText(<<span>>)
        BY <4>1 DEF AllMarkText, Errors
      <4> QED BY <3>2, <4>2 DEF span
    <3> QED BY <3>1, <3>2
  <2>4. Droppable(value)
    BY DEF Droppable, Node
  <2>5. Return(value) /\ Commit(cursor, errors, <<>>, <<>>)
    BY <1>6 DEF EndNotABlock
  <2> HIDE DEF errors, value
  <2> QED BY <2>1, <2>3, <2>4, <2>5, AtSpans, SpansReturnValue
<1>7. CASE BeginStatement
  <2> DEFINE f == [at |-> Kind(cursor), start |-> SpanStart(cursor)]
  <2>1. At("statement") /\ Kind(cursor) \in {"return", "set", "if", "while"}
    BY <1>7 DEF BeginStatement
  <2>2. StartFits(f, cursor + 1) /\ f.at # "not_a_block" /\ ~ParsesExpression(f)
    BY <2>1, AtSpans DEF StartFits, ParsesExpression, ExpressionLabels
  <2>3. Become(ExpressionCall(0) \o <<f>>) /\ Commit(cursor + 1, <<>>, <<>>, <<>>)
    BY <1>7 DEF BeginStatement, Call, Advance
  <2> HIDE DEF f
  <2> QED BY <2>1, <2>2, <2>3, AtSpans, NoErrors, SpansCallExpression
<1>8. CASE EndReturn
  <2>1. At("return")
    BY <1>8 DEF EndReturn
  <2>2. /\ cursor \in Nat /\ Top.start \in 2 .. 2 * cursor
        /\ \A kind, data : Droppable(Node(kind, data, Top.start, EndOf(cursor)))
    BY <2>1, AtSpans, DroppableFact DEF StatementLabels
  <2> QED BY <1>8, <2>1, <2>2, AtSpans, NoErrors, SpansReturnValue DEF EndReturn, AllocateExpressions
<1>9. CASE BeginSetValue
  <2> DEFINE f == [at |-> "set_value", start |-> Top.start, lhs |-> NextExpression]
             equal == Expect(cursor, "=", "recover")
  <2>1. At("set")
    BY <1>9 DEF BeginSetValue
  <2>2. equal.to \in Nat /\ cursor <= equal.to /\ equal.errors \in Errors
        /\ AllMarkText(equal.errors)
    BY <2>1, AtSpans, ExpectMarks
  <2>3. StartFits(f, cursor) /\ f.at # "not_a_block" /\ ~ParsesExpression(f)
    BY <2>1, AtSpans DEF StartFits, StatementLabels, ParsesExpression, ExpressionLabels
  <2>4. Become(ExpressionCall(0) \o <<f>>) /\ Commit(equal.to, equal.errors, <<result>>, <<>>)
    BY <1>9 DEF BeginSetValue, Call
  <2> HIDE DEF f, equal
  <2> QED BY <2>1, <2>2, <2>3, <2>4, AtSpans, FitsLater, SpansCallExpression
<1>10. CASE EndSet
  <2>1. At("set_value")
    BY <1>10 DEF EndSet
  <2>2. /\ cursor \in Nat /\ Top.start \in 2 .. 2 * cursor
        /\ \A kind, data : Droppable(Node(kind, data, Top.start, EndOf(cursor)))
    BY <2>1, AtSpans, DroppableFact DEF StatementLabels
  <2> QED BY <1>10, <2>1, <2>2, AtSpans, NoErrors, SpansReturnValue DEF EndSet, AllocateExpressions
<1>11. CASE BeginTrueBranch
  <2> DEFINE f == [at |-> "block"]
             g == [at |-> "true_branch", start |-> Top.start, condition |-> NextExpression]
  <2>1. At("if")
    BY <1>11 DEF BeginTrueBranch
  <2>2. /\ StartFits(f, cursor) /\ StartFits(g, cursor)
        /\ f.at # "not_a_block" /\ ~ParsesExpression(f) /\ ~ParsesExpression(g)
    BY <2>1, AtSpans DEF StartFits, StatementLabels, ParsesExpression, ExpressionLabels
  <2>3. Become(<<f, g>>) /\ Commit(cursor, <<>>, <<result>>, <<>>)
    BY <1>11, CallsFact DEF BeginTrueBranch, Call, AllocateExpressions
  <2> HIDE DEF f, g
  <2> QED BY <2>1, <2>2, <2>3, AtSpans, NoErrors, SpansCall
<1>12. CASE BeginFalseBranch
  <2> DEFINE f == [at |-> "block"]
             g == [at |-> "false_branch", start |-> Top.start, condition |-> Top.condition,
                   true_block |-> NextStatement]
  <2>1. At("true_branch")
    BY <1>12 DEF BeginFalseBranch
  <2>2. /\ StartFits(f, cursor + 1) /\ StartFits(g, cursor + 1)
        /\ f.at # "not_a_block" /\ ~ParsesExpression(f) /\ ~ParsesExpression(g)
    BY <2>1, AtSpans DEF StartFits, StatementLabels, ParsesExpression, ExpressionLabels
  <2>3. Become(<<f, g>>) /\ Commit(cursor + 1, <<>>, <<>>, <<result>>)
    BY <1>12, CallsFact DEF BeginFalseBranch, Call
  <2> HIDE DEF f, g
  <2> QED BY <2>1, <2>2, <2>3, AtSpans, NoErrors, SpansCall
<1>13. CASE EndIfWithoutElse
  <2>1. At("true_branch")
    BY <1>13 DEF EndIfWithoutElse
  <2>2. /\ cursor \in Nat /\ Top.start \in 2 .. 2 * cursor
        /\ \A kind, data : Droppable(Node(kind, data, Top.start, EndOf(cursor)))
    BY <2>1, AtSpans, DroppableFact DEF StatementLabels
  <2> QED BY <1>13, <2>1, <2>2, AtSpans, NoErrors, SpansReturnValue DEF EndIfWithoutElse, AllocateStatement
<1>14. CASE EndIfElse
  <2>1. At("false_branch")
    BY <1>14 DEF EndIfElse
  <2>2. /\ cursor \in Nat /\ Top.start \in 2 .. 2 * cursor
        /\ \A kind, data : Droppable(Node(kind, data, Top.start, EndOf(cursor)))
    BY <2>1, AtSpans, DroppableFact DEF StatementLabels
  <2> QED BY <1>14, <2>1, <2>2, AtSpans, NoErrors, SpansReturnValue DEF EndIfElse, AllocateStatement
<1>15. CASE UnmatchedElse
  <2> DEFINE errors == <<[start |-> StartOf(cursor + 1), end |-> EndOf(cursor + 1)]>>
             value == Node("missing", <<>>, SpanStart(cursor), EndOf(cursor + 1))
  <2>1. At("statement")
    BY <1>15 DEF UnmatchedElse, AtStatement
  <2>2. cursor \in Nat
    BY <2>1, AtSpans
  <2>3. errors \in Errors /\ AllMarkText(errors)
    BY <2>2, TokenMarks
  <2>4. Droppable(value)
    BY DEF Droppable, Node
  <2>5. Return(value) /\ Commit(cursor + 1, errors, <<>>, <<>>)
    BY <1>15 DEF UnmatchedElse
  <2> HIDE DEF errors, value
  <2> QED BY <2>1, <2>3, <2>4, <2>5, AtSpans, SpansReturnValue
<1>16. CASE BeginWhileBody
  <2> DEFINE f == [at |-> "block"]
             g == [at |-> "while_body", start |-> Top.start, condition |-> NextExpression]
  <2>1. At("while")
    BY <1>16 DEF BeginWhileBody
  <2>2. /\ StartFits(f, cursor) /\ StartFits(g, cursor)
        /\ f.at # "not_a_block" /\ ~ParsesExpression(f) /\ ~ParsesExpression(g)
    BY <2>1, AtSpans DEF StartFits, StatementLabels, ParsesExpression, ExpressionLabels
  <2>3. Become(<<f, g>>) /\ Commit(cursor, <<>>, <<result>>, <<>>)
    BY <1>16, CallsFact DEF BeginWhileBody, Call, AllocateExpressions
  <2> HIDE DEF f, g
  <2> QED BY <2>1, <2>2, <2>3, AtSpans, NoErrors, SpansCall
<1>17. CASE EndWhile
  <2>1. At("while_body")
    BY <1>17 DEF EndWhile
  <2>2. /\ cursor \in Nat /\ Top.start \in 2 .. 2 * cursor
        /\ \A kind, data : Droppable(Node(kind, data, Top.start, EndOf(cursor)))
    BY <2>1, AtSpans, DroppableFact DEF StatementLabels
  <2> QED BY <1>17, <2>1, <2>2, AtSpans, NoErrors, SpansReturnValue DEF EndWhile, AllocateStatement
<1>18. CASE StatementIsBlock
  <2> DEFINE f == [at |-> "block"]
  <2>1. At("statement")
    BY <1>18 DEF StatementIsBlock, AtStatement
  <2>2. StartFits(f, cursor) /\ f.at # "not_a_block" /\ ~ParsesExpression(f)
    BY DEF StartFits, StatementLabels, ParsesExpression, ExpressionLabels
  <2>3. Become(<<f>>) /\ Commit(cursor, <<>>, <<>>, <<>>)
    BY <1>18 DEF StatementIsBlock, Call, Stay, BlockCall
  <2> HIDE DEF f
  <2> QED BY <2>1, <2>2, <2>3, AtSpans, NoErrors, SpansGoOn
<1>19. CASE BeginDefinition
  <2> DEFINE f == [at |-> "definition", start |-> SpanStart(cursor), name |-> cursor + 1]
             equal == Expect(cursor + 1, ":=", "recover")
  <2>1. At("statement") /\ Kind(cursor) = "identifier"
    BY <1>19 DEF BeginDefinition, AtStatement
  <2>2. /\ tokens \in Seq(Kinds) /\ cursor \in Nat /\ cursor + 1 \in 1 .. Len(tokens)
        /\ SpanStart(cursor) \in 2 .. 2 * (cursor + 1)
    BY <2>1, AtSpans, KindFact
  <2>3. equal.to \in Nat /\ cursor + 1 <= equal.to /\ equal.errors \in Errors
        /\ AllMarkText(equal.errors)
    BY <2>2, ExpectMarks
  <2>4. StartFits(f, equal.to) /\ f.at # "not_a_block" /\ ~ParsesExpression(f)
    BY <2>2, <2>3 DEF StartFits, ParsesExpression, ExpressionLabels
  <2>5. Become(ExpressionCall(0) \o <<f>>) /\ Commit(equal.to, equal.errors, <<>>, <<>>)
    BY <1>19 DEF BeginDefinition, Call
  <2> HIDE DEF f, equal
  <2> QED BY <2>1, <2>2, <2>3, <2>4, <2>5, AtSpans, SpansCallExpression
<1>20. CASE EndDefinition
  <2>1. At("definition")
    BY <1>20 DEF EndDefinition
  <2>2. /\ cursor \in Nat /\ Top.start \in 2 .. 2 * cursor
        /\ \A kind, data : Droppable(Node(kind, data, Top.start, EndOf(cursor)))
    BY <2>1, AtSpans, DroppableFact DEF StatementLabels
  <2> QED BY <1>20, <2>1, <2>2, AtSpans, NoErrors, SpansReturnValue DEF EndDefinition, AllocateExpressions
<1>21. CASE MissingStatement
  <2> DEFINE e == Error(cursor, "recover")
             value == Node("missing", <<>>, SpanStart(cursor), EndOf(e.to))
  <2>1. At("statement")
    BY <1>21 DEF MissingStatement
  <2>2. e.to \in Nat /\ cursor <= e.to /\ e.errors \in Errors /\ AllMarkText(e.errors)
    BY <2>1, AtSpans, ErrorMarks
  <2>3. Droppable(value)
    BY DEF Droppable, Node
  <2>4. Return(value) /\ Commit(e.to, e.errors, <<>>, <<>>)
    BY <1>21 DEF MissingStatement
  <2> HIDE DEF e, value
  <2> QED BY <2>1, <2>2, <2>3, <2>4, AtSpans, SpansReturnValue
<1> QED BY <1>1, <1>2, <1>3, <1>4, <1>5, <1>6, <1>7, <1>8, <1>9, <1>10, <1>11, <1>12,
           <1>13, <1>14, <1>15, <1>16, <1>17, <1>18, <1>19, <1>20, <1>21 DEF Statements
------------------------------------------------------------------------------
LEMMA FunctionsSpans ==
  IInv /\ SpansInv /\ (BeginFunction \/ EndFunction \/ NotAFunction \/ EndParse) => SpansInv'
<1>1. ASSUME IInv, SpansInv, BeginFunction PROVE SpansInv'
  <2> DEFINE name == ExpectIdentifier(cursor + 1)
             f == [at |-> "statement"]
             g == [at |-> "function", name |-> name.name]
  <2>1. /\ tokens \in Seq(Kinds) /\ cursor \in 0 .. Len(tokens) /\ Kind(cursor) = "func"
        /\ Commit(name.to, name.errors, <<>>, <<>>) /\ calls' = StatementCall \o <<g>>
    BY <1>1 DEF BeginFunction, IInv, TypeOK
  <2>2. cursor + 1 \in 1 .. Len(tokens)
    BY <2>1, KindFact
  <2>3. /\ name.to = Expect(cursor + 1, "identifier", "recover").to
        /\ name.errors = Expect(cursor + 1, "identifier", "recover").errors
    BY DEF ExpectIdentifier
  <2>4. name.errors \in Errors /\ AllMarkText(name.errors)
    BY <2>1, <2>2, <2>3, ExpectMarks
  <2>5. calls' = <<f, g>>
    BY <2>1, CallsFact
  <2>6. Len(calls') = 2 /\ calls'[1] = f /\ calls'[2] = g
    BY <2>5
  <2>7. AllMarkText(diagnostics')
    BY <1>1, <2>1, <2>4, CommitMarks
  <2>8. \A i \in 1 .. Len(calls') : StartFits(calls'[i], cursor')
    BY <2>6 DEF StartFits, StatementLabels
  <2> QED BY <2>6, <2>7, <2>8 DEF SpansInv, ParsesExpression, StartFits, AllMarkText,
             MarksText, Top, Droppable
<1>2. ASSUME IInv, SpansInv, EndFunction PROVE SpansInv'
  <2>1. At("function") /\ Commit(cursor, <<>>, <<>>, <<result>>) /\ Become(<<>>)
    BY <1>2 DEF EndFunction, AllocateStatement
  <2>2. /\ calls \in Seq(Frames) /\ calls # <<>> /\ Top.at = "function"
        /\ 1 \in 1 .. Len(calls)
    BY <2>1, <1>2 DEF At, IInv, TypeOK
  <2>3. Len(calls) = 1
    BY <1>2, <2>2 DEF IInv, StackInv, Top
  <2>4. calls' = <<>> /\ Len(calls') = 0
    <3>1. calls' = <<>> \o Tail(calls)
      BY <2>1 DEF Become
    <3> QED BY <2>2, <2>3, <3>1
  <2>5. AllMarkText(diagnostics')
    BY <1>2, <2>1, NoErrors, CommitMarks
  <2> QED BY <2>4, <2>5 DEF SpansInv, AllMarkText, MarksText
<1>3. ASSUME IInv, SpansInv, NotAFunction PROVE SpansInv'
  <2> DEFINE e == Error(cursor, "eat_all")
  <2>1. /\ calls = <<>> /\ calls' = <<>> /\ cursor \in Nat /\ Kind(cursor) # "eof"
        /\ Commit(e.to, e.errors, <<>>, <<>>)
    BY <1>3 DEF NotAFunction, TopLevel, IInv, TypeOK
  <2>2. e.errors = <<[start |-> StartOf(cursor + 1), end |-> EndOf(cursor + 1)]>>
    BY <2>1 DEF Error, Skips, AtEof
  <2>3. e.errors \in Errors /\ AllMarkText(e.errors)
    BY <2>1, <2>2, TokenMarks
  <2>4. AllMarkText(diagnostics')
    BY <1>3, <2>1, <2>3, CommitMarks
  <2> QED BY <2>1, <2>4 DEF SpansInv, AllMarkText, MarksText
<1>4. ASSUME IInv, SpansInv, EndParse PROVE SpansInv'
  BY <1>4 DEF EndParse, SpansInv, ParsesExpression, StartFits, AllMarkText, MarksText, Top,
     Droppable
<1> QED BY <1>1, <1>2, <1>3, <1>4

LEMMA InitSpans == Init => SpansInv
BY DEF Init, Begin, SpansInv, AllMarkText

LEMMA NextSpans == IInv /\ SpansInv /\ [Next]_vars => SpansInv'
<1>1. IInv /\ SpansInv /\ Next => SpansInv'
  BY FunctionsSpans, ExpressionsSpans, StatementsSpans DEF Next
<1>2. SpansInv /\ UNCHANGED vars => SpansInv'
  BY DEF vars, SpansInv, ParsesExpression, StartFits, AllMarkText, MarksText, Top, Droppable
<1> QED BY <1>1, <1>2

\* Whatever the tokens and the errors in them, every diagnostic marks at least
\* one character after the first token: the token that is wrong, the place
\* after the last one (parse.c:134-168), or the statement that is dropped
\* because a block belongs in its place (parse.c:455-459).
THEOREM EveryDiagnosticMarksText == Spec => []DiagnosticsMarkText
<1>1. SpansInv => DiagnosticsMarkText
  BY DEF SpansInv, AllMarkText, MarksText, DiagnosticsMarkText, StartOf
<1>2. Spec => []SpansInv
  BY Invariance, InitSpans, NextSpans, PTL DEF Spec
<1> QED BY <1>1, <1>2, PTL
==============================================================================
