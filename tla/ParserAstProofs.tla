---------------------------- MODULE ParserAstProofs ----------------------------
(***************************************************************************)
(* Proofs about Parser, for every sequence of tokens and whatever the      *)
(* limits: the AST is a forest, and it is complete, so that it is what     *)
(* Lower assumes of the ASTs it is given.                                  *)
(***************************************************************************)
EXTENDS ParserProofs

--------------------------------------------------------------------------------
(* The AST is a forest.  A node that was parsed but not allocated yet is   *)
(* the result, an element in the arena or in a frame that waits; the ones  *)
(* it refers to are allocated, and nobody else refers to them.  The        *)
(* invariant says so with a function from every index to its owner: the    *)
(* place of the one node that refers to it.  Every step moves what a place *)
(* owns to another, or gives nodes just allocated to one.                  *)

\* There are indices of expressions and of statements.
Sides == {"expressions", "statements"}

Uses(side, node) ==
  IF side = "expressions" THEN ExpressionChildren(node) \cup StatementExpressions(node)
                          ELSE StatementChildren(node)

FrameUses(side, f) ==
  CASE f.at = "index" -> Uses(side, f.array)
    [] f.at = "rhs" -> Uses(side, f.lhs)
    [] f.at = "set_value" /\ side = "expressions" -> {f.lhs}
    [] f.at \in {"true_branch", "false_branch", "while_body"} /\ side = "expressions" ->
         {f.condition}
    [] f.at = "false_branch" /\ side = "statements" -> {f.true_block}
    [] OTHER -> {}

\* How many there are.
Count(side) == IF side = "expressions" THEN Len(expressions) ELSE Len(statements)

\* The frames that do something with the result.
Consumers ==
  {"function", "prefix", "parentheses", "postfix", "index", "element", "operators", "rhs",
   "block_statement", "return", "set", "if", "while", "set_value", "true_branch",
   "false_branch", "while_body", "definition"}

\* The places; a frame is as high as there are frames below it.
Result == <<"result", 0>>
TopFrame == <<"frame", Len(calls) - 1>>

\* What `owner` says of the nodes of a sequence, the frames of a stack, the
\* result under a stack, and the functions, of n indices.
NodesOwn(side, owner, n, place, nodes) ==
  \A i \in 1 .. Len(nodes) : \A x \in Uses(side, nodes[i]) :
    x \in 1 .. n /\ owner[x] = <<place, i>> /\ (place = side => x < i)
FramesOwn(side, owner, n, stack) ==
  \A i \in 1 .. Len(stack) : \A x \in FrameUses(side, stack[i]) :
    x \in 1 .. n /\ owner[x] = <<"frame", Len(stack) - i>>
ResultOwns(side, owner, n, stack, node) ==
  stack # <<>> /\ stack[1].at \in Consumers =>
    \A x \in Uses(side, node) : x \in 1 .. n /\ owner[x] = Result
FunctionsOwn(side, owner, n, fs) ==
  side = "statements" =>
    \A i \in 1 .. Len(fs) : fs[i].body \in 1 .. n /\ owner[fs[i].body] = <<"functions", i>>

Owns(side, owner) ==
  /\ NodesOwn(side, owner, Count(side), "expressions", expressions)
  /\ NodesOwn(side, owner, Count(side), "statements", statements)
  /\ NodesOwn(side, owner, Count(side), "temp", temp)
  /\ FramesOwn(side, owner, Count(side), calls)
  /\ ResultOwns(side, owner, Count(side), calls, result)
  /\ FunctionsOwn(side, owner, Count(side), functions)

TreesInv == \A side \in Sides : \E owner : Owns(side, owner)
------------------------------------------------------------------------------
(* Steps, by what they move.                                               *)

\* The owners of the n indices when what `a` owns moves to b and what c owns
\* to d, and those after them, which are new.
Moved(owner, n, a, b, c, d, new) ==
  [x \in Nat |-> IF x > n THEN new
                 ELSE IF owner[x] = a THEN b
                 ELSE IF owner[x] = c THEN d ELSE owner[x]]

\* What is below the top frame of the stack stays, f takes its place, and the
\* frames above f refer to no nodes.
TopBecomes(f) ==
  \A i \in 1 .. Len(calls') :
    \/ \A side \in Sides : FrameUses(side, calls'[i]) = {}
    \/ i = Len(calls') - Len(calls) + 1 /\ calls'[i] = f
    \/ /\ i + (Len(calls) - Len(calls')) \in 2 .. Len(calls)
       /\ calls'[i] = calls[i + (Len(calls) - Len(calls'))]

FramesStay(owner, owner2, n) ==
  \A x \in 1 .. n : \A h \in 0 .. Len(calls) - 2 :
    owner[x] = <<"frame", h>> => owner2[x] = owner[x]

LEMMA FramesMoved ==
  ASSUME NEW side \in Sides, calls \in Seq(Frames), calls # <<>>, calls' \in Seq(Frames),
         NEW n \in Nat, NEW m \in Nat, n <= m, NEW owner, NEW owner2,
         FramesOwn(side, owner, n, calls), NEW f, TopBecomes(f), FramesStay(owner, owner2, n),
         \A x \in FrameUses(side, f) : x \in 1 .. m /\ owner2[x] = TopFrame
  PROVE  FramesOwn(side, owner2, m, calls')
<1> SUFFICES ASSUME NEW i \in 1 .. Len(calls'), NEW x \in FrameUses(side, calls'[i])
             PROVE  x \in 1 .. m /\ owner2[x] = <<"frame", Len(calls') - i>>
  BY DEF FramesOwn
<1>1. Len(calls) \in Nat /\ Len(calls') \in Nat
  OBVIOUS
<1>2. CASE i = Len(calls') - Len(calls) + 1 /\ calls'[i] = f
  <2>1. Len(calls') - i = Len(calls) - 1
    BY <1>1, <1>2
  <2> QED BY <1>2, <2>1 DEF TopFrame
<1>3. CASE /\ i + (Len(calls) - Len(calls')) \in 2 .. Len(calls)
           /\ calls'[i] = calls[i + (Len(calls) - Len(calls'))]
  <2>1. PICK j \in 2 .. Len(calls) :
          j = i + (Len(calls) - Len(calls')) /\ calls'[i] = calls[j]
    BY <1>3
  <2>2. j \in 1 .. Len(calls)
    BY <1>1
  <2>3. x \in 1 .. n /\ owner[x] = <<"frame", Len(calls) - j>>
    BY <2>1, <2>2 DEF FramesOwn
  <2>4. Len(calls) - j = Len(calls') - i /\ Len(calls) - j \in 0 .. Len(calls) - 2
    BY <1>1, <2>1
  <2>5. PICK h \in 0 .. Len(calls) - 2 : h = Len(calls) - j
    BY <2>4
  <2>6. owner2[x] = <<"frame", h>>
    BY <2>3, <2>5 DEF FramesStay
  <2> QED BY <2>3, <2>4, <2>5, <2>6
<1> QED BY <1>2, <1>3 DEF TopBecomes

Keeps(owner, owner2, n, place) ==
  \A x \in 1 .. n : \A i \in Nat : owner[x] = <<place, i>> => owner2[x] = owner[x]

\* The nodes after the first `old` of a place own what they refer to.
NewNodesOwn(side, owner, m, place, old, nodes) ==
  \A i \in 1 .. Len(nodes) : \A x \in Uses(side, nodes[i]) :
    x \in 1 .. m /\ owner[x] = <<place, old + i>> /\ (place = side => x <= old)

\* Nodes allocated after others.
LEMMA NodesMoved ==
  ASSUME NEW side \in Sides, NEW place, NEW old \in NodeSeqs, NEW more \in NodeSeqs,
         NEW n \in Nat, NEW m \in Nat, n <= m, NEW owner, NEW owner2,
         NodesOwn(side, owner, n, place, old), Keeps(owner, owner2, n, place),
         NewNodesOwn(side, owner2, m, place, Len(old), more)
  PROVE  NodesOwn(side, owner2, m, place, old \o more)
<1> SUFFICES ASSUME NEW i \in 1 .. Len(old \o more), NEW x \in Uses(side, (old \o more)[i])
             PROVE  x \in 1 .. m /\ owner2[x] = <<place, i>> /\ (place = side => x < i)
  BY DEF NodesOwn
<1>1. /\ Len(old) \in Nat /\ Len(more) \in Nat
      /\ Len(old \o more) = Len(old) + Len(more)
      /\ (old \o more)[i] = IF i <= Len(old) THEN old[i] ELSE more[i - Len(old)]
  BY ConcatAny DEF NodeSeqs
<1>2. CASE i <= Len(old)
  <2>1. i \in 1 .. Len(old) /\ x \in Uses(side, old[i]) /\ i \in Nat
    BY <1>1, <1>2
  <2>2. x \in 1 .. n /\ owner[x] = <<place, i>> /\ (place = side => x < i)
    BY <2>1 DEF NodesOwn
  <2> QED BY <2>1, <2>2 DEF Keeps
<1>3. CASE i > Len(old)
  <2>1. PICK j \in 1 .. Len(more) : i = Len(old) + j
    <3>1. i - Len(old) \in 1 .. Len(more) /\ i = Len(old) + (i - Len(old))
      BY <1>1, <1>3
    <3> QED BY <3>1
  <2>2. x \in Uses(side, more[j])
    BY <1>1, <1>3, <2>1
  <2>3. /\ x \in 1 .. m /\ owner2[x] = <<place, Len(old) + j>>
        /\ place = side => x <= Len(old)
    BY <2>2 DEF NewNodesOwn
  <2> QED BY <1>1, <2>1, <2>3
<1> QED BY <1>1, <1>2, <1>3

\* What a frame becomes that is not replaced, or replaced by others.
LEMMA UselessFact ==
  ASSUME NEW side \in Sides, NEW f,
         f.at \notin {"index", "rhs", "set_value", "true_branch", "false_branch", "while_body"}
  PROVE  FrameUses(side, f) = {}
BY DEF FrameUses

LEMMA BecomesFact ==
  ASSUME calls \in Seq(Frames), calls # <<>>
  PROVE  /\ Become(<<>>) => \A f : TopBecomes(f)
         /\ \A f : Become(<<f>>) => TopBecomes(f)
         /\ \A f, g : Become(<<g, f>>) /\ g.at \in {"operand", "statement", "block"} =>
              TopBecomes(f)
         /\ \A f, min : Become(ExpressionCall(min) \o <<f>>) => TopBecomes(f)
<1>0. Len(calls) \in Nat /\ Len(calls) >= 1
  OBVIOUS
<1>1. ASSUME Become(<<>>), NEW f PROVE TopBecomes(f)
  <2>1. /\ Len(calls') = Len(calls) - 1
        /\ \A i \in 1 .. Len(calls') : calls'[i] = calls[i + 1]
    BY <1>1, NoneFact
  <2> SUFFICES ASSUME NEW i \in 1 .. Len(calls')
               PROVE  /\ i + (Len(calls) - Len(calls')) \in 2 .. Len(calls)
                      /\ calls'[i] = calls[i + (Len(calls) - Len(calls'))]
    BY DEF TopBecomes
  <2>2. i + (Len(calls) - Len(calls')) = i + 1 /\ i + 1 \in 2 .. Len(calls)
    BY <1>0, <2>1
  <2> QED BY <2>1, <2>2
<1>2. ASSUME NEW f, Become(<<f>>) PROVE TopBecomes(f)
  <2>1. /\ Len(calls') = Len(calls) /\ calls'[1] = f
        /\ \A i \in 2 .. Len(calls') : calls'[i] = calls[i]
    BY <1>2, OneFact
  <2> SUFFICES ASSUME NEW i \in 1 .. Len(calls')
               PROVE  \/ i = Len(calls') - Len(calls) + 1 /\ calls'[i] = f
                      \/ /\ i + (Len(calls) - Len(calls')) \in 2 .. Len(calls)
                         /\ calls'[i] = calls[i + (Len(calls) - Len(calls'))]
    BY DEF TopBecomes
  <2>2. i + (Len(calls) - Len(calls')) = i /\ (i = 1 \/ i \in 2 .. Len(calls'))
    BY <1>0, <2>1
  <2> QED BY <1>0, <2>1, <2>2
<1>3. ASSUME NEW f, NEW g, Become(<<g, f>>), g.at \in {"operand", "statement", "block"}
      PROVE  TopBecomes(f)
  <2>1. /\ Len(calls') = Len(calls) + 1 /\ calls'[1] = g /\ calls'[2] = f
        /\ \A i \in 3 .. Len(calls') : calls'[i] = calls[i - 1]
    BY <1>3, TwoFact
  <2>2. \A side \in Sides : FrameUses(side, g) = {}
    BY <1>3, UselessFact
  <2> SUFFICES ASSUME NEW i \in 1 .. Len(calls')
               PROVE  \/ \A side \in Sides : FrameUses(side, calls'[i]) = {}
                      \/ i = Len(calls') - Len(calls) + 1 /\ calls'[i] = f
                      \/ /\ i + (Len(calls) - Len(calls')) \in 2 .. Len(calls)
                         /\ calls'[i] = calls[i + (Len(calls) - Len(calls'))]
    BY DEF TopBecomes
  <2>3. i + (Len(calls) - Len(calls')) = i - 1 /\ (i = 1 \/ i = 2 \/ i \in 3 .. Len(calls'))
    BY <1>0, <2>1
  <2> QED BY <1>0, <2>1, <2>2, <2>3
<1>4. ASSUME NEW f, NEW min, Become(ExpressionCall(min) \o <<f>>) PROVE TopBecomes(f)
  <2>1. /\ Len(calls') = Len(calls) + 2
        /\ calls'[1] = [at |-> "operand"] /\ calls'[2] = [at |-> "operators", min |-> min]
        /\ calls'[3] = f
        /\ \A i \in 4 .. Len(calls') : calls'[i] = calls[i - 2]
    BY <1>4, ThreeFact
  <2>2. calls'[1].at = "operand" /\ calls'[2].at = "operators"
    BY <2>1
  <2>3. \A side \in Sides : FrameUses(side, calls'[1]) = {} /\ FrameUses(side, calls'[2]) = {}
    BY <2>2, UselessFact
  <2> SUFFICES ASSUME NEW i \in 1 .. Len(calls')
               PROVE  \/ \A side \in Sides : FrameUses(side, calls'[i]) = {}
                      \/ i = Len(calls') - Len(calls) + 1 /\ calls'[i] = f
                      \/ /\ i + (Len(calls) - Len(calls')) \in 2 .. Len(calls)
                         /\ calls'[i] = calls[i + (Len(calls) - Len(calls'))]
    BY DEF TopBecomes
  <2>4. /\ i + (Len(calls) - Len(calls')) = i - 2
        /\ i = 1 \/ i = 2 \/ i = 3 \/ i \in 4 .. Len(calls')
    BY <1>0, <2>1
  <2> QED BY <1>0, <2>1, <2>3, <2>4
<1> QED BY <1>1, <1>2, <1>3, <1>4

\* How many there are before and after a step.
LEMMA CountFact ==
  ASSUME TypeOK, NEW side \in Sides, NEW to, NEW errors,
         NEW exprs \in NodeSeqs, NEW stmts \in NodeSeqs, Commit(to, errors, exprs, stmts)
  PROVE  /\ Count(side) \in Nat /\ Count(side)' \in Nat /\ Count(side) <= Count(side)'
         /\ Count("expressions") = Len(expressions) /\ Count("statements") = Len(statements)
         /\ Count("expressions")' = Len(expressions) + Len(exprs)
         /\ Count("statements")' = Len(statements) + Len(stmts)
         /\ expressions' = expressions \o exprs /\ statements' = statements \o stmts
         /\ expressions \in NodeSeqs /\ statements \in NodeSeqs /\ temp \in NodeSeqs
<1>1. /\ expressions' = expressions \o exprs /\ statements' = statements \o stmts
      /\ expressions \in NodeSeqs /\ statements \in NodeSeqs /\ temp \in NodeSeqs
  BY DEF Commit, TypeOK, NodeSeqs
<1>2. /\ Len(expressions') = Len(expressions) + Len(exprs)
      /\ Len(statements') = Len(statements) + Len(stmts)
      /\ Len(expressions) \in Nat /\ Len(statements) \in Nat
      /\ Len(exprs) \in Nat /\ Len(stmts) \in Nat
  BY <1>1, ConcatAny DEF NodeSeqs
<1>3. /\ Count("expressions") = Len(expressions) /\ Count("statements") = Len(statements)
      /\ Count("expressions")' = Len(expressions') /\ Count("statements")' = Len(statements')
  BY DEF Count
<1> QED BY <1>1, <1>2, <1>3 DEF Sides
\* A step of a function of the parser.
LEMMA OwnsStep ==
  ASSUME TypeOK, TypeOK', NEW side \in Sides, NEW owner, Owns(side, owner), NEW owner2,
         calls # <<>>, NEW to, NEW errors, NEW exprs \in NodeSeqs, NEW stmts \in NodeSeqs,
         Commit(to, errors, exprs, stmts), NEW f, TopBecomes(f),
         NEW n, n = Count(side), NEW m, m = Count(side)',
         Keeps(owner, owner2, n, "expressions"), Keeps(owner, owner2, n, "statements"),
         FramesStay(owner, owner2, n),
         \A x \in FrameUses(side, f) : x \in 1 .. m /\ owner2[x] = TopFrame,
         NewNodesOwn(side, owner2, m, "expressions", Len(expressions), exprs),
         NewNodesOwn(side, owner2, m, "statements", Len(statements), stmts),
         NodesOwn(side, owner2, m, "temp", temp'),
         ResultOwns(side, owner2, m, calls', result'),
         FunctionsOwn(side, owner2, m, functions')
  PROVE  Owns(side, owner2)'
<1>1. /\ n \in Nat /\ m \in Nat /\ n <= m
      /\ expressions' = expressions \o exprs /\ statements' = statements \o stmts
      /\ expressions \in NodeSeqs /\ statements \in NodeSeqs
      /\ calls \in Seq(Frames) /\ calls' \in Seq(Frames)
  BY CountFact DEF TypeOK
<1>2. /\ NodesOwn(side, owner, n, "expressions", expressions)
      /\ NodesOwn(side, owner, n, "statements", statements)
      /\ FramesOwn(side, owner, n, calls)
  BY DEF Owns
<1>3. NodesOwn(side, owner2, m, "expressions", expressions \o exprs)
  BY <1>1, <1>2, NodesMoved
<1>4. NodesOwn(side, owner2, m, "statements", statements \o stmts)
  BY <1>1, <1>2, NodesMoved
<1>5. FramesOwn(side, owner2, m, calls')
  BY <1>1, <1>2, FramesMoved
<1> QED BY <1>1, <1>3, <1>4, <1>5 DEF Owns

\* x moves to a place: with the result, with the top frame, or as it is new.
Gets(side, x, m, place, b, d, new) ==
  \/ b = place /\ Top.at \in Consumers /\ x \in Uses(side, result)
  \/ d = place /\ x \in FrameUses(side, Top)
  \/ new = place /\ x \in Count(side) + 1 .. m

LEMMA GetsFact ==
  ASSUME TypeOK, NEW side \in Sides, NEW owner, Owns(side, owner), calls # <<>>,
         NEW n \in Nat, n = Count(side), NEW m \in Nat, n <= m, NEW place, NEW b, NEW d, NEW new,
         NEW x, Gets(side, x, m, place, b, d, new),
         NEW owner2, owner2 = Moved(owner, n, Result, b, TopFrame, d, new)
  PROVE  x \in 1 .. m /\ owner2[x] = place /\ (place # new => x <= n)
<1>1. calls \in Seq(Frames) /\ 1 \in 1 .. Len(calls) /\ Len(calls) \in Nat
  BY DEF TypeOK
<1>2. ASSUME Top.at \in Consumers, x \in Uses(side, result)
      PROVE  x \in 1 .. n /\ owner[x] = Result
  BY <1>1, <1>2 DEF Owns, ResultOwns, Top
<1>3. ASSUME x \in FrameUses(side, Top)
      PROVE  x \in 1 .. n /\ owner[x] = TopFrame
  BY <1>1, <1>3 DEF Owns, FramesOwn, Top, TopFrame
<1>4. Result # TopFrame
  BY DEF Result, TopFrame
<1>5. CASE b = place /\ Top.at \in Consumers /\ x \in Uses(side, result)
  BY <1>2, <1>5 DEF Moved
<1>6. CASE d = place /\ x \in FrameUses(side, Top)
  BY <1>3, <1>4, <1>6 DEF Moved
<1>7. CASE new = place /\ x \in n + 1 .. m
  BY <1>7 DEF Moved
<1> QED BY <1>5, <1>6, <1>7 DEF Gets

\* What neither the result nor the top frame owns stays.
Stays(owner, owner2, n) ==
  /\ \A place \in {"expressions", "statements", "temp", "functions"} :
       Keeps(owner, owner2, n, place)
  /\ FramesStay(owner, owner2, n)

LEMMA StaysFact ==
  ASSUME calls \in Seq(Frames), NEW n \in Nat, NEW owner, NEW owner2, NEW b, NEW d, NEW new,
         owner2 = Moved(owner, n, Result, b, TopFrame, d, new)
  PROVE  Stays(owner, owner2, n)
<1>1. ASSUME NEW place \in {"expressions", "statements", "temp", "functions"},
             NEW x \in 1 .. n, NEW i \in Nat, owner[x] = <<place, i>>
      PROVE  owner2[x] = owner[x]
  <2>1. <<place, i>> # Result /\ <<place, i>> # TopFrame
    BY DEF Result, TopFrame
  <2>2. owner[x] # Result /\ owner[x] # TopFrame /\ x \in Nat /\ ~(x > n)
    BY <1>1, <2>1
  <2> QED BY <2>2 DEF Moved
<1>2. ASSUME NEW x \in 1 .. n, NEW h \in 0 .. Len(calls) - 2, owner[x] = <<"frame", h>>
      PROVE  owner2[x] = owner[x]
  <2>1. h # Len(calls) - 1
    OBVIOUS
  <2>2. <<"frame", h>> # Result /\ <<"frame", h>> # TopFrame
    BY <2>1 DEF Result, TopFrame
  <2>3. owner[x] # Result /\ owner[x] # TopFrame /\ x \in Nat /\ ~(x > n)
    BY <1>2, <2>2
  <2> QED BY <2>3 DEF Moved
<1> QED BY <1>1, <1>2 DEF Keeps, Stays, FramesStay
AllGet(side, indices, m, place, b, d, new) ==
  \A x \in indices : Gets(side, x, m, place, b, d, new)
NodesGet(side, m, place, old, nodes, b, d, new) ==
  \A i \in 1 .. Len(nodes) : AllGet(side, Uses(side, nodes[i]), m, <<place, old + i>>, b, d, new)

FunctionGets(side, m, b, d, new) ==
  \E g \in [name : Nat, body : Nat] :
    /\ functions' = Append(functions, g)
    /\ side = "statements" =>
         Gets(side, g.body, m, <<"functions", Len(functions) + 1>>, b, d, new)

\* A step that moves what the result owns to b and what the top frame owns to
\* d, and gives new nodes to `new`.
LEMMA MoveStep ==
  ASSUME TypeOK, TypeOK', NEW side \in Sides, NEW owner, Owns(side, owner),
         calls # <<>>, NEW to, NEW errors, NEW exprs \in NodeSeqs, NEW stmts \in NodeSeqs,
         Commit(to, errors, exprs, stmts), NEW f, TopBecomes(f),
         NEW m, m = Count(side)', NEW b, NEW d, NEW new,
         new \in {Result, TopFrame, <<"functions", Len(functions) + 1>>},
         NodesGet(side, m, "expressions", Len(expressions), exprs, b, d, new),
         NodesGet(side, m, "statements", Len(statements), stmts, b, d, new),
         AllGet(side, FrameUses(side, f), m, TopFrame, b, d, new),
         \/ temp' = temp
         \/ /\ temp' = Append(temp, result)
            /\ AllGet(side, Uses(side, result), m, <<"temp", Len(temp) + 1>>, b, d, new),
         calls' # <<>> /\ calls'[1].at \in Consumers =>
           AllGet(side, Uses(side, result'), m, Result, b, d, new),
         functions' = functions \/ FunctionGets(side, m, b, d, new)
  PROVE  \E owner2 : Owns(side, owner2)'
<1>1. PICK n : n = Count(side)
  OBVIOUS
<1>2. PICK owner2 : owner2 = Moved(owner, n, Result, b, TopFrame, d, new)
  OBVIOUS
<1>3. /\ n \in Nat /\ m \in Nat /\ n <= m
      /\ side = "expressions" => n = Len(expressions)
      /\ side = "statements" => n = Len(statements)
      /\ expressions \in NodeSeqs /\ statements \in NodeSeqs /\ temp \in Seq(Nodes)
      /\ calls \in Seq(Frames) /\ result \in Nodes
      /\ functions \in Seq([name : Nat, body : Nat])
  BY <1>1, CountFact DEF TypeOK
<1>4. Stays(owner, owner2, n)
  BY <1>2, <1>3, StaysFact
<1>5. ASSUME NEW place, NEW x, Gets(side, x, m, place, b, d, new)
      PROVE  x \in 1 .. m /\ owner2[x] = place /\ (place # new => x <= n)
  BY <1>1, <1>2, <1>3, <1>5, GetsFact
<1>6. NewNodesOwn(side, owner2, m, "expressions", Len(expressions), exprs)
  <2> SUFFICES ASSUME NEW i \in 1 .. Len(exprs), NEW x \in Uses(side, exprs[i])
               PROVE  /\ x \in 1 .. m /\ owner2[x] = <<"expressions", Len(expressions) + i>>
                      /\ "expressions" = side => x <= Len(expressions)
    BY DEF NewNodesOwn
  <2>1. Gets(side, x, m, <<"expressions", Len(expressions) + i>>, b, d, new)
    BY DEF NodesGet, AllGet
  <2>2. <<"expressions", Len(expressions) + i>> # new
    BY DEF Result, TopFrame
  <2>3. /\ x \in 1 .. m /\ owner2[x] = <<"expressions", Len(expressions) + i>>
        /\ x <= n
    BY <1>5, <2>1, <2>2
  <2> QED BY <1>3, <2>3
<1>7. NewNodesOwn(side, owner2, m, "statements", Len(statements), stmts)
  <2> SUFFICES ASSUME NEW i \in 1 .. Len(stmts), NEW x \in Uses(side, stmts[i])
               PROVE  /\ x \in 1 .. m /\ owner2[x] = <<"statements", Len(statements) + i>>
                      /\ "statements" = side => x <= Len(statements)
    BY DEF NewNodesOwn
  <2>1. Gets(side, x, m, <<"statements", Len(statements) + i>>, b, d, new)
    BY DEF NodesGet, AllGet
  <2>2. <<"statements", Len(statements) + i>> # new
    BY DEF Result, TopFrame
  <2>3. /\ x \in 1 .. m /\ owner2[x] = <<"statements", Len(statements) + i>>
        /\ x <= n
    BY <1>5, <2>1, <2>2
  <2> QED BY <1>3, <2>3
<1>8. \A x \in FrameUses(side, f) : x \in 1 .. m /\ owner2[x] = TopFrame
  BY <1>5 DEF AllGet
<1>9. NodesOwn(side, owner2, m, "temp", temp')
  <2>1. NodesOwn(side, owner, n, "temp", temp)
    BY <1>1 DEF Owns
  <2>2. \A i \in 1 .. Len(temp) : \A x \in Uses(side, temp[i]) :
          x \in 1 .. m /\ owner2[x] = <<"temp", i>>
    <3> SUFFICES ASSUME NEW i \in 1 .. Len(temp), NEW x \in Uses(side, temp[i])
                 PROVE  x \in 1 .. m /\ owner2[x] = <<"temp", i>>
      OBVIOUS
    <3>1. x \in 1 .. n /\ owner[x] = <<"temp", i>> /\ i \in Nat
      BY <2>1 DEF NodesOwn
    <3>2. Keeps(owner, owner2, n, "temp") /\ x \in 1 .. m
      BY <1>3, <1>4, <3>1 DEF Stays
    <3> QED BY <3>1, <3>2 DEF Keeps
  <2>3. ASSUME temp' = Append(temp, result),
               AllGet(side, Uses(side, result), m, <<"temp", Len(temp) + 1>>, b, d, new),
               NEW i \in 1 .. Len(temp'), NEW x \in Uses(side, temp'[i])
        PROVE  x \in 1 .. m /\ owner2[x] = <<"temp", i>>
    <3>1. \/ i \in 1 .. Len(temp) /\ temp'[i] = temp[i]
          \/ i = Len(temp) + 1 /\ temp'[i] = result
      BY <1>3, <2>3
    <3> QED BY <1>5, <2>2, <2>3, <3>1 DEF AllGet
  <2>4. "temp" # side
    BY DEF Sides
  <2> QED BY <2>2, <2>3, <2>4 DEF NodesOwn
<1>10. ResultOwns(side, owner2, m, calls', result')
  BY <1>5 DEF ResultOwns, AllGet
<1>11. FunctionsOwn(side, owner2, m, functions')
  <2> SUFFICES ASSUME side = "statements", NEW i \in 1 .. Len(functions')
               PROVE  /\ functions'[i].body \in 1 .. m
                      /\ owner2[functions'[i].body] = <<"functions", i>>
    BY DEF FunctionsOwn
  <2>1. ASSUME i \in 1 .. Len(functions)
        PROVE  functions[i].body \in 1 .. m /\ owner2[functions[i].body] = <<"functions", i>>
    <3>1. functions[i].body \in 1 .. n /\ owner[functions[i].body] = <<"functions", i>>
      BY <1>1, <2>1 DEF Owns, FunctionsOwn
    <3>2. i \in Nat /\ functions[i].body \in 1 .. m
      BY <1>3, <3>1
    <3> QED BY <1>4, <3>1, <3>2 DEF Keeps, Stays
  <2>2. CASE functions' = functions
    BY <2>1, <2>2
  <2>3. ASSUME NEW g \in [name : Nat, body : Nat], functions' = Append(functions, g),
               Gets(side, g.body, m, <<"functions", Len(functions) + 1>>, b, d, new)
        PROVE  /\ functions'[i].body \in 1 .. m
               /\ owner2[functions'[i].body] = <<"functions", i>>
    <3>1. \/ i \in 1 .. Len(functions) /\ functions'[i] = functions[i]
          \/ i = Len(functions) + 1 /\ functions'[i] = g
      BY <1>3, <2>3
    <3>2. /\ g.body \in 1 .. m
          /\ owner2[g.body] = <<"functions", Len(functions) + 1>>
      BY <1>5, <2>3
    <3> QED BY <2>1, <3>1, <3>2
  <2> QED BY <2>2, <2>3 DEF FunctionGets
<1> QED BY <1>1, <1>4, <1>6, <1>7, <1>8, <1>9, <1>10, <1>11, OwnsStep DEF Stays
------------------------------------------------------------------------------
(* The kinds of steps.                                                     *)

LEMMA GetFacts ==
  ASSUME NEW side, NEW m, NEW b, NEW d, NEW new
  PROVE  /\ \A place : AllGet(side, {}, m, place, b, d, new)
         /\ \A place, old : NodesGet(side, m, place, old, <<>>, b, d, new)
         /\ Top.at \in Consumers => AllGet(side, Uses(side, result), m, b, b, d, new)
         /\ AllGet(side, FrameUses(side, Top), m, d, b, d, new)
         /\ \A x \in Count(side) + 1 .. m : Gets(side, x, m, new, b, d, new)
         /\ \A place, old : Top.at \in Consumers /\ b = <<place, old + 1>> =>
              NodesGet(side, m, place, old, <<result>>, b, d, new)
<1>1. /\ Top.at \in Consumers => AllGet(side, Uses(side, result), m, b, b, d, new)
      /\ AllGet(side, FrameUses(side, Top), m, d, b, d, new)
      /\ \A x \in Count(side) + 1 .. m : Gets(side, x, m, new, b, d, new)
  BY DEF AllGet, Gets
<1>2. /\ \A place : AllGet(side, {}, m, place, b, d, new)
      /\ \A place, old : NodesGet(side, m, place, old, <<>>, b, d, new)
  BY DEF AllGet, NodesGet
<1>3. ASSUME NEW place, NEW old, Top.at \in Consumers, b = <<place, old + 1>>
      PROVE  NodesGet(side, m, place, old, <<result>>, b, d, new)
  <2>1. Len(<<result>>) = 1 /\ <<result>>[1] = result
    OBVIOUS
  <2> QED BY <1>1, <1>3, <2>1 DEF NodesGet
<1> QED BY <1>1, <1>2, <1>3

\* What a step does with the nodes of a side.
Moving(side, f, exprs, stmts, b, d, new) ==
  \A m : m = Count(side)' =>
    /\ NodesGet(side, m, "expressions", Len(expressions), exprs, b, d, new)
    /\ NodesGet(side, m, "statements", Len(statements), stmts, b, d, new)
    /\ AllGet(side, FrameUses(side, f), m, TopFrame, b, d, new)
    /\ calls' # <<>> /\ calls'[1].at \in Consumers =>
         AllGet(side, Uses(side, result'), m, Result, b, d, new)

LEMMA Moves ==
  ASSUME IInv, IInv', TreesInv, calls # <<>>, NEW to, NEW errors,
         NEW exprs \in NodeSeqs, NEW stmts \in NodeSeqs, Commit(to, errors, exprs, stmts),
         NEW f, TopBecomes(f), NEW b, NEW d, NEW new, new \in {Result, TopFrame},
         temp' = temp, functions' = functions,
         \A side \in Sides : Moving(side, f, exprs, stmts, b, d, new)
  PROVE  TreesInv'
<1> SUFFICES ASSUME NEW side \in Sides PROVE \E owner2 : Owns(side, owner2)'
  BY DEF TreesInv
<1>1. PICK owner : Owns(side, owner)
  BY DEF TreesInv
<1>2. PICK m : m = Count(side)'
  OBVIOUS
<1>3. /\ NodesGet(side, m, "expressions", Len(expressions), exprs, b, d, new)
      /\ NodesGet(side, m, "statements", Len(statements), stmts, b, d, new)
      /\ AllGet(side, FrameUses(side, f), m, TopFrame, b, d, new)
      /\ calls' # <<>> /\ calls'[1].at \in Consumers =>
           AllGet(side, Uses(side, result'), m, Result, b, d, new)
  BY <1>2 DEF Moving
<1>4. TypeOK /\ TypeOK'
  BY DEF IInv
<1> QED BY <1>1, <1>2, <1>3, <1>4, MoveStep

\* There is no consumer on top, or it finds a result that refers to no nodes.
Useless(side) ==
  calls' # <<>> /\ calls'[1].at \in Consumers => Uses(side, result') = {}

\* Nothing moves.
LEMMA NothingMoves ==
  ASSUME IInv, IInv', TreesInv, calls # <<>>, NEW to, NEW errors, Commit(to, errors, <<>>, <<>>),
         NEW f, TopBecomes(f), temp' = temp, functions' = functions,
         \A side \in Sides : FrameUses(side, f) = {} /\ Useless(side)
  PROVE  TreesInv'
<1>1. \A side \in Sides : Moving(side, f, <<>>, <<>>, Result, Result, Result)
  BY GetFacts DEF Moving, Useless
<1> QED BY <1>1, EmptyFact, Moves

\* The result is returned.
LEMMA ResultMoves ==
  ASSUME IInv, IInv', TreesInv, calls # <<>>, NEW to, NEW errors, Commit(to, errors, <<>>, <<>>),
         NEW f, TopBecomes(f), temp' = temp, functions' = functions, Top.at \in Consumers,
         \A side \in Sides : FrameUses(side, f) = {} /\ Uses(side, result') = Uses(side, result)
  PROVE  TreesInv'
<1>1. \A side \in Sides : Moving(side, f, <<>>, <<>>, Result, Result, Result)
  BY GetFacts DEF Moving
<1> QED BY <1>1, EmptyFact, Moves

\* The result waits for others in a frame.
LEMMA ResultWaits ==
  ASSUME IInv, IInv', TreesInv, calls # <<>>, NEW to, NEW errors, Commit(to, errors, <<>>, <<>>),
         NEW f, TopBecomes(f), temp' = temp, functions' = functions, Top.at \in Consumers,
         \A side \in Sides : FrameUses(side, f) = Uses(side, result) /\ Useless(side)
  PROVE  TreesInv'
<1>1. \A side \in Sides : Moving(side, f, <<>>, <<>>, TopFrame, Result, Result)
  BY GetFacts DEF Moving, Useless
<1> QED BY <1>1, EmptyFact, Moves
\* The indices a node or a frame may refer to after a node of a side is
\* allocated: that, and those the top frame referred to.
Fresh(side, new) == IF side = new THEN {Count(side) + 1} ELSE {}
Reachable(side, new) == Fresh(side, new) \cup FrameUses(side, Top)

LEMMA FreshGets ==
  ASSUME IInv, NEW side \in Sides, NEW n, NEW x \in Reachable(side, n),
         NEW place, NEW b, NEW m \in Nat, n = side => m = Count(side) + 1
  PROVE  Gets(side, x, m, place, b, place, place)
<1>1. Count(side) \in Nat
  BY DEF IInv, TypeOK, Count, Sides
<1>2. CASE x \in FrameUses(side, Top)
  BY <1>2 DEF Gets
<1>3. CASE n = side /\ x = Count(side) + 1
  BY <1>1, <1>3 DEF Gets
<1> QED BY <1>2, <1>3 DEF Reachable, Fresh

\* An expression is allocated, and the result refers to it.
LEMMA ExpressionMoves ==
  ASSUME IInv, IInv', TreesInv, calls # <<>>, Top.at \in Consumers, NEW to, NEW errors,
         Commit(to, errors, <<result>>, <<>>),
         NEW f, TopBecomes(f), temp' = temp, functions' = functions,
         \A side \in Sides : /\ FrameUses(side, f) = {}
                             /\ Uses(side, result') \subseteq Reachable(side, "expressions")
  PROVE  TreesInv'
<1> DEFINE b == <<"expressions", Len(expressions) + 1>>
<1>1. <<result>> \in NodeSeqs /\ <<>> \in NodeSeqs /\ Len(<<result>>) = 1 /\ TypeOK
  BY EmptyFact DEF IInv, TypeOK, NodeSeqs
<1>2. ASSUME NEW side \in Sides PROVE Moving(side, f, <<result>>, <<>>, b, Result, Result)
  <2> SUFFICES ASSUME NEW m, m = Count(side)'
               PROVE  /\ NodesGet(side, m, "expressions", Len(expressions), <<result>>, b, Result, Result)
                      /\ NodesGet(side, m, "statements", Len(statements), <<>>, b, Result, Result)
                      /\ AllGet(side, FrameUses(side, f), m, TopFrame, b, Result, Result)
                      /\ AllGet(side, Uses(side, result'), m, Result, b, Result, Result)
    BY DEF Moving
  <2>1. m \in Nat /\ (side = "expressions" => m = Count(side) + 1)
    BY <1>1, CountFact
  <2>2. \A x \in Uses(side, result') : Gets(side, x, m, Result, b, Result, Result)
    BY <2>1, FreshGets
  <2> QED BY <2>2, GetFacts DEF AllGet
<1> HIDE DEF b
<1> QED BY <1>1, <1>2, Moves

\* An expression is allocated, and a frame refers to it.
LEMMA ExpressionWaits ==
  ASSUME IInv, IInv', TreesInv, calls # <<>>, Top.at \in Consumers, NEW to, NEW errors,
         Commit(to, errors, <<result>>, <<>>),
         NEW f, TopBecomes(f), temp' = temp, functions' = functions,
         \A side \in Sides : /\ FrameUses(side, f) \subseteq Reachable(side, "expressions")
                             /\ Useless(side)
  PROVE  TreesInv'
<1> DEFINE b == <<"expressions", Len(expressions) + 1>>
<1>1. <<result>> \in NodeSeqs /\ <<>> \in NodeSeqs /\ Len(<<result>>) = 1 /\ TypeOK
  BY EmptyFact DEF IInv, TypeOK, NodeSeqs
<1>2. ASSUME NEW side \in Sides PROVE Moving(side, f, <<result>>, <<>>, b, TopFrame, TopFrame)
  <2> SUFFICES ASSUME NEW m, m = Count(side)'
               PROVE  /\ NodesGet(side, m, "expressions", Len(expressions), <<result>>, b, TopFrame, TopFrame)
                      /\ NodesGet(side, m, "statements", Len(statements), <<>>, b, TopFrame, TopFrame)
                      /\ AllGet(side, FrameUses(side, f), m, TopFrame, b, TopFrame, TopFrame)
                      /\ AllGet(side, {}, m, Result, b, TopFrame, TopFrame)
    BY DEF Moving, Useless
  <2>1. m \in Nat /\ (side = "expressions" => m = Count(side) + 1)
    BY <1>1, CountFact
  <2>2. \A x \in FrameUses(side, f) : Gets(side, x, m, TopFrame, b, TopFrame, TopFrame)
    BY <2>1, FreshGets
  <2> QED BY <2>2, GetFacts DEF AllGet
<1> HIDE DEF b
<1> QED BY <1>1, <1>2, Moves

\* A statement is allocated, and the result refers to it.
LEMMA StatementMoves ==
  ASSUME IInv, IInv', TreesInv, calls # <<>>, Top.at \in Consumers, NEW to, NEW errors,
         Commit(to, errors, <<>>, <<result>>),
         NEW f, TopBecomes(f), temp' = temp, functions' = functions,
         \A side \in Sides : /\ FrameUses(side, f) = {}
                             /\ Uses(side, result') \subseteq Reachable(side, "statements")
  PROVE  TreesInv'
<1> DEFINE b == <<"statements", Len(statements) + 1>>
<1>1. <<result>> \in NodeSeqs /\ <<>> \in NodeSeqs /\ Len(<<result>>) = 1 /\ TypeOK
  BY EmptyFact DEF IInv, TypeOK, NodeSeqs
<1>2. ASSUME NEW side \in Sides PROVE Moving(side, f, <<>>, <<result>>, b, Result, Result)
  <2> SUFFICES ASSUME NEW m, m = Count(side)'
               PROVE  /\ NodesGet(side, m, "expressions", Len(expressions), <<>>, b, Result, Result)
                      /\ NodesGet(side, m, "statements", Len(statements), <<result>>, b, Result, Result)
                      /\ AllGet(side, FrameUses(side, f), m, TopFrame, b, Result, Result)
                      /\ AllGet(side, Uses(side, result'), m, Result, b, Result, Result)
    BY DEF Moving
  <2>1. m \in Nat /\ (side = "statements" => m = Count(side) + 1)
    BY <1>1, CountFact
  <2>2. \A x \in Uses(side, result') : Gets(side, x, m, Result, b, Result, Result)
    BY <2>1, FreshGets
  <2> QED BY <2>2, GetFacts DEF AllGet
<1> HIDE DEF b
<1> QED BY <1>1, <1>2, Moves

\* A statement is allocated, and a frame refers to it.
LEMMA StatementWaits ==
  ASSUME IInv, IInv', TreesInv, calls # <<>>, Top.at \in Consumers, NEW to, NEW errors,
         Commit(to, errors, <<>>, <<result>>),
         NEW f, TopBecomes(f), temp' = temp, functions' = functions,
         \A side \in Sides : /\ FrameUses(side, f) \subseteq Reachable(side, "statements")
                             /\ Useless(side)
  PROVE  TreesInv'
<1> DEFINE b == <<"statements", Len(statements) + 1>>
<1>1. <<result>> \in NodeSeqs /\ <<>> \in NodeSeqs /\ Len(<<result>>) = 1 /\ TypeOK
  BY EmptyFact DEF IInv, TypeOK, NodeSeqs
<1>2. ASSUME NEW side \in Sides PROVE Moving(side, f, <<>>, <<result>>, b, TopFrame, TopFrame)
  <2> SUFFICES ASSUME NEW m, m = Count(side)'
               PROVE  /\ NodesGet(side, m, "expressions", Len(expressions), <<>>, b, TopFrame, TopFrame)
                      /\ NodesGet(side, m, "statements", Len(statements), <<result>>, b, TopFrame, TopFrame)
                      /\ AllGet(side, FrameUses(side, f), m, TopFrame, b, TopFrame, TopFrame)
                      /\ AllGet(side, {}, m, Result, b, TopFrame, TopFrame)
    BY DEF Moving, Useless
  <2>1. m \in Nat /\ (side = "statements" => m = Count(side) + 1)
    BY <1>1, CountFact
  <2>2. \A x \in FrameUses(side, f) : Gets(side, x, m, TopFrame, b, TopFrame, TopFrame)
    BY <2>1, FreshGets
  <2> QED BY <2>2, GetFacts DEF AllGet
<1> HIDE DEF b
<1> QED BY <1>1, <1>2, Moves
\* Two expressions are allocated, the result and the one that waited in the
\* top frame, and the new result refers to them.
LEMMA PairMoves ==
  ASSUME IInv, IInv', TreesInv, calls # <<>>, Top.at \in Consumers, NEW to, NEW errors,
         NEW exprs \in NodeSeqs, Len(exprs) = 2, Commit(to, errors, exprs, <<>>),
         NEW f, TopBecomes(f), temp' = temp, functions' = functions,
         NEW i \in {1, 2}, NEW j \in {1, 2} \ {i}, exprs[i] = result,
         \A side \in Sides :
           /\ Uses(side, exprs[j]) = FrameUses(side, Top)
           /\ FrameUses(side, f) = {}
           /\ \A x \in Uses(side, result') :
                side = "expressions" /\ x \in Count(side) + 1 .. Count(side) + 2
  PROVE  TreesInv'
<1> DEFINE b == <<"expressions", Len(expressions) + i>>
           d == <<"expressions", Len(expressions) + j>>
<1>1. <<>> \in NodeSeqs /\ TypeOK
  BY EmptyFact DEF IInv
<1>2. ASSUME NEW side \in Sides PROVE Moving(side, f, exprs, <<>>, b, d, Result)
  <2> SUFFICES ASSUME NEW m, m = Count(side)'
               PROVE  /\ NodesGet(side, m, "expressions", Len(expressions), exprs, b, d, Result)
                      /\ NodesGet(side, m, "statements", Len(statements), <<>>, b, d, Result)
                      /\ AllGet(side, FrameUses(side, f), m, TopFrame, b, d, Result)
                      /\ AllGet(side, Uses(side, result'), m, Result, b, d, Result)
    BY DEF Moving
  <2>1. m \in Nat /\ (side = "expressions" => m = Count(side) + 2)
    BY <1>1, CountFact
  <2>2. \A x \in Uses(side, result') : Gets(side, x, m, Result, b, d, Result)
    BY <2>1 DEF Gets
  <2>3. AllGet(side, Uses(side, exprs[i]), m, b, b, d, Result)
    BY GetFacts
  <2>4. AllGet(side, Uses(side, exprs[j]), m, d, b, d, Result)
    BY GetFacts
  <2>5. NodesGet(side, m, "expressions", Len(expressions), exprs, b, d, Result)
    <3>1. ASSUME NEW k \in 1 .. Len(exprs)
          PROVE  AllGet(side, Uses(side, exprs[k]), m, <<"expressions", Len(expressions) + k>>,
                        b, d, Result)
      <4>1. k = i \/ k = j
        OBVIOUS
      <4> QED BY <2>3, <2>4, <4>1
    <3> QED BY <3>1 DEF NodesGet
  <2> QED BY <2>2, <2>5, GetFacts DEF AllGet
<1> HIDE DEF b, d
<1> QED BY <1>1, <1>2, Moves

\* The result is pushed to a builder.
LEMMA ElementMoves ==
  ASSUME IInv, IInv', TreesInv, calls # <<>>, Top.at \in Consumers, NEW to, NEW errors,
         Commit(to, errors, <<>>, <<>>), NEW f, TopBecomes(f),
         temp' = Append(temp, result), functions' = functions, calls'[1].at \notin Consumers,
         \A side \in Sides : FrameUses(side, f) = {}
  PROVE  TreesInv'
<1> SUFFICES ASSUME NEW side \in Sides PROVE \E owner2 : Owns(side, owner2)'
  BY DEF TreesInv
<1> DEFINE b == <<"temp", Len(temp) + 1>>
<1>1. PICK owner : Owns(side, owner)
  BY DEF TreesInv
<1>2. PICK m : m = Count(side)'
  OBVIOUS
<1>3. /\ NodesGet(side, m, "expressions", Len(expressions), <<>>, b, Result, Result)
      /\ NodesGet(side, m, "statements", Len(statements), <<>>, b, Result, Result)
      /\ AllGet(side, FrameUses(side, f), m, TopFrame, b, Result, Result)
      /\ AllGet(side, Uses(side, result), m, b, b, Result, Result)
  BY GetFacts
<1>4. TypeOK /\ TypeOK'
  BY DEF IInv
<1> QED BY <1>1, <1>2, <1>3, <1>4, EmptyFact, MoveStep

\* A function is complete.
LEMMA FunctionMoves ==
  ASSUME IInv, IInv', TreesInv, EndFunction
  PROVE  TreesInv'
<1> SUFFICES ASSUME NEW side \in Sides PROVE \E owner2 : Owns(side, owner2)'
  BY DEF TreesInv
<1>1. PICK owner : Owns(side, owner)
  BY DEF TreesInv
<1>2. PICK m : m = Count(side)'
  OBVIOUS
<1>3. PICK b : b = <<"statements", Len(statements) + 1>>
  OBVIOUS
<1>4. PICK new : new = <<"functions", Len(functions) + 1>>
  OBVIOUS
<1>5. PICK f : f = [at |-> "function"]
  OBVIOUS
<1> DEFINE g == [name |-> Top.name, body |-> NextStatement]
<1>6. /\ TypeOK /\ TypeOK' /\ calls \in Seq(Frames) /\ calls # <<>> /\ Top.at = "function"
      /\ Top \in Frames /\ result \in Nodes
  BY DEF IInv, TypeOK, EndFunction, At, Top
<1>7. Top.at \in Consumers /\ <<result>> \in NodeSeqs /\ Len(<<result>>) = 1
  BY <1>6 DEF Consumers, NodeSeqs
<1>8. /\ Commit(cursor, <<>>, <<>>, <<result>>) /\ functions' = Append(functions, g)
      /\ Become(<<>>) /\ temp' = temp
  BY DEF EndFunction, AllocateStatement
<1>9. TopBecomes(f) /\ FrameUses(side, f) = {}
  BY <1>6, <1>8, <1>5, BecomesFact, UselessFact
<1>10. Len(calls') = 0 /\ calls' = <<>>
  <2>1. Len(calls) = 1
    <3>1. 1 \in 1 .. Len(calls)
      BY <1>6
    <3> QED BY <1>6, <3>1 DEF IInv, StackInv, Top
  <2>2. calls' = <<>> \o Tail(calls)
    BY <1>8 DEF Become
  <2> QED BY <1>6, <2>1, <2>2
<1>11. g \in [name : Nat, body : Nat]
  BY <1>6, FrameFields DEF NextStatement, TypeOK
<1>12. side = "statements" => Gets(side, g.body, m, new, b, Result, new)
  <2>1. ASSUME side = "statements" PROVE g.body \in Count(side) + 1 .. m
    <3>1. /\ Count("statements") = Len(statements) /\ Len(statements) \in Nat
          /\ Count("statements")' = Len(statements) + 1
      BY <1>6, <1>7, <1>8, EmptyFact, CountFact DEF Sides, TypeOK
    <3> QED BY <1>2, <2>1, <3>1 DEF NextStatement
  <2> QED BY <2>1 DEF Gets
<1>13. /\ NodesGet(side, m, "expressions", Len(expressions), <<>>, b, Result, new)
       /\ NodesGet(side, m, "statements", Len(statements), <<result>>, b, Result, new)
       /\ AllGet(side, FrameUses(side, f), m, TopFrame, b, Result, new)
  BY <1>7, <1>9, <1>3, GetFacts
<1>14. new \in {Result, TopFrame, <<"functions", Len(functions) + 1>>}
  BY <1>4
<1>15. FunctionGets(side, m, b, Result, new)
  BY <1>8, <1>11, <1>12, <1>4 DEF FunctionGets
<1> QED BY <1>1, <1>2, <1>6, <1>7, <1>8, <1>9, <1>10, <1>13, <1>14, <1>15, EmptyFact, MoveStep
\* The owners of the n indices when the elements of the arena after the first
\* `base` are allocated after the first `old` nodes of a place.
Placed(owner, n, place, old, base) ==
  [x \in Nat |-> IF x > n THEN Result
                 ELSE IF owner[x][1] = "temp" /\ owner[x][2] > base
                      THEN <<place, old + (owner[x][2] - base)>>
                 ELSE owner[x]]

PlacedAt(x, owner, owner2, place, old, base) ==
  /\ \A p, i : p # "temp" /\ owner[x] = <<p, i>> => owner2[x] = owner[x]
  /\ \A i \in 1 .. base : owner[x] = <<"temp", i>> => owner2[x] = owner[x]
  /\ \A i \in Nat \ {0} : owner[x] = <<"temp", base + i>> => owner2[x] = <<place, old + i>>

LEMMA PlacedFact ==
  ASSUME NEW n \in Nat, NEW owner, NEW place, NEW old \in Nat, NEW base \in Nat, NEW owner2,
         owner2 = Placed(owner, n, place, old, base), NEW x \in 1 .. n
  PROVE  PlacedAt(x, owner, owner2, place, old, base)
<1>1. ASSUME NEW p, NEW i, p # "temp", owner[x] = <<p, i>>
      PROVE  owner2[x] = owner[x]
  <2>1. owner[x][1] # "temp" /\ x \in Nat /\ ~(x > n)
    BY <1>1
  <2> QED BY <2>1 DEF Placed
<1>2. ASSUME NEW i \in 1 .. base, owner[x] = <<"temp", i>>
      PROVE  owner2[x] = owner[x]
  <2>1. ~(owner[x][2] > base) /\ x \in Nat /\ ~(x > n)
    BY <1>2
  <2> QED BY <2>1 DEF Placed
<1>3. ASSUME NEW i \in Nat \ {0}, owner[x] = <<"temp", base + i>>
      PROVE  owner2[x] = <<place, old + i>>
  <2>1. /\ owner[x][1] = "temp" /\ owner[x][2] = base + i /\ owner[x][2] > base
        /\ x \in Nat /\ ~(x > n)
    BY <1>3
  <2>2. owner2[x] = <<place, old + (owner[x][2] - base)>>
    BY <2>1 DEF Placed
  <2>3. owner[x][2] - base = i
    BY <2>1
  <2> QED BY <2>2, <2>3
<1> QED BY <1>1, <1>2, <1>3 DEF PlacedAt

\* What a builder has collected is allocated, and the result refers to it.
LEMMA BuiltMoves ==
  ASSUME IInv, IInv', TreesInv, calls # <<>>, IsBuilder(Top), NEW to, NEW errors,
         NEW place \in Sides, NEW exprs \in NodeSeqs, NEW stmts \in NodeSeqs,
         place = "expressions" => exprs = Built(Top) /\ stmts = <<>>,
         place = "statements" => exprs = <<>> /\ stmts = Built(Top),
         Commit(to, errors, exprs, stmts), NEW f, TopBecomes(f),
         temp' = SubSeq(temp, 1, Top.base), functions' = functions,
         \A side \in Sides :
           /\ FrameUses(side, f) = {}
           /\ \A x \in Uses(side, result') :
                side = place /\ x \in Count(side) + 1 .. Count(side) + Top.count
  PROVE  TreesInv'
<1> SUFFICES ASSUME NEW side \in Sides PROVE \E owner2 : Owns(side, owner2)'
  BY DEF TreesInv
<1>1. PICK owner : Owns(side, owner)
  BY DEF TreesInv
<1>2. PICK n : n = Count(side)
  OBVIOUS
<1>3. PICK m : m = Count(side)'
  OBVIOUS
<1>4. PICK old : old = Count(place)
  OBVIOUS
<1>5. PICK base \in Nat : base = Top.base
  BY TopBuilderFact
<1>6. PICK count \in Nat : count = Top.count
  BY TopBuilderFact
<1>7. PICK built \in NodeSeqs : built = Built(Top)
  BY TopBuilderFact
<1>8. /\ Len(built) = count /\ \A k \in 1 .. count : built[k] = temp[base + k]
      /\ base + count <= Len(temp) /\ temp \in NodeSeqs /\ Len(temp) \in Nat
      /\ Len(temp') = base /\ \A k \in 1 .. base : temp'[k] = temp[k]
  <2>1. temp \in Seq(Nodes) /\ Len(temp) \in Nat /\ base + count <= Len(temp)
    BY <1>5, <1>6, TopBuilderFact
  <2>2. built = SubSeq(temp, base + 1, base + count) /\ temp' = SubSeq(temp, 1, base)
    BY <1>5, <1>6, <1>7 DEF Built
  <2>3. Len(temp') = base /\ \A k \in 1 .. base : temp'[k] = temp[k]
    <3>1. base \in Nat /\ base <= Len(temp)
      BY <2>1
    <3>2. Len(SubSeq(temp, 1, base)) = base
      BY <2>1, <3>1
    <3>3. \A k \in 1 .. base : SubSeq(temp, 1, base)[k] = temp[k]
      BY <2>1, <3>1
    <3> QED BY <2>2, <3>2, <3>3
  <2>4. Len(built) = count /\ \A k \in 1 .. count : built[k] = temp[base + k]
    BY <2>1, <2>2
  <2> QED BY <2>1, <2>3, <2>4 DEF NodeSeqs
<1>9. PICK owner2 : owner2 = Placed(owner, n, place, old, base)
  OBVIOUS
<1>10. /\ TypeOK /\ TypeOK' /\ n \in Nat /\ m \in Nat /\ n <= m /\ old \in Nat
       /\ side = place => n = old /\ m = n + count
       /\ Count("expressions") = Len(expressions) /\ Count("statements") = Len(statements)
       /\ calls \in Seq(Frames) /\ functions \in Seq([name : Nat, body : Nat])
  <2>1. TypeOK /\ TypeOK'
    BY DEF IInv
  <2>2. /\ n \in Nat /\ m \in Nat /\ n <= m /\ old \in Nat
        /\ Count("expressions") = Len(expressions) /\ Count("statements") = Len(statements)
        /\ Count("expressions")' = Len(expressions) + Len(exprs)
        /\ Count("statements")' = Len(statements) + Len(stmts)
    BY <1>2, <1>3, <1>4, <2>1, CountFact
  <2>3. side = place => n = old /\ m = n + count
    BY <1>2, <1>3, <1>4, <1>7, <1>8, <2>2 DEF Sides
  <2> QED BY <2>1, <2>2, <2>3 DEF TypeOK
<1>11. ASSUME NEW x \in 1 .. n
       PROVE  /\ x \in 1 .. m
              /\ \A p, i : p # "temp" /\ owner[x] = <<p, i>> => owner2[x] = owner[x]
              /\ \A i \in 1 .. base : owner[x] = <<"temp", i>> => owner2[x] = owner[x]
              /\ \A i \in Nat \ {0} :
                   owner[x] = <<"temp", base + i>> => owner2[x] = <<place, old + i>>
  <2>1. n \in Nat /\ old \in Nat /\ base \in Nat
    BY <1>10
  <2>2. PlacedAt(x, owner, owner2, place, old, base)
    BY <1>9, <2>1, PlacedFact
  <2>3. x \in 1 .. m
    BY <1>10
  <2> QED BY <2>2, <2>3 DEF PlacedAt
<1>12. Keeps(owner, owner2, n, "expressions") /\ Keeps(owner, owner2, n, "statements")
  BY <1>11 DEF Keeps
<1>13. FramesStay(owner, owner2, n)
  BY <1>11 DEF FramesStay
<1>14. NodesOwn(side, owner, n, "temp", temp) /\ FunctionsOwn(side, owner, n, functions)
  BY <1>1, <1>2 DEF Owns
<1>15. NewNodesOwn(side, owner2, m, place, old, built)
  <2> SUFFICES ASSUME NEW k \in 1 .. count, NEW x \in Uses(side, built[k])
               PROVE  x \in 1 .. m /\ owner2[x] = <<place, old + k>> /\ (place = side => x <= old)
    BY <1>8 DEF NewNodesOwn
  <2>1. base + k \in 1 .. Len(temp) /\ built[k] = temp[base + k] /\ k \in Nat \ {0}
    BY <1>8
  <2>2. x \in 1 .. n /\ owner[x] = <<"temp", base + k>>
    BY <1>14, <2>1 DEF NodesOwn
  <2> QED BY <1>10, <1>11, <2>1, <2>2
<1>16. \A p, q : NewNodesOwn(side, owner2, m, p, q, <<>>)
  BY DEF NewNodesOwn
<1>17. /\ NewNodesOwn(side, owner2, m, "expressions", Len(expressions), exprs)
       /\ NewNodesOwn(side, owner2, m, "statements", Len(statements), stmts)
  BY <1>4, <1>7, <1>10, <1>15, <1>16 DEF Sides
<1>18. NodesOwn(side, owner2, m, "temp", temp')
  <2> SUFFICES ASSUME NEW k \in 1 .. base, NEW x \in Uses(side, temp[k])
               PROVE  x \in 1 .. m /\ owner2[x] = <<"temp", k>>
    BY <1>8 DEF NodesOwn, Sides
  <2>1. k \in 1 .. Len(temp)
    BY <1>8
  <2>2. x \in 1 .. n /\ owner[x] = <<"temp", k>>
    BY <1>14, <2>1 DEF NodesOwn
  <2> QED BY <1>11, <2>2
<1>19. ResultOwns(side, owner2, m, calls', result')
  <2> SUFFICES ASSUME NEW x \in Uses(side, result')
               PROVE  x \in 1 .. m /\ owner2[x] = Result
    BY DEF ResultOwns
  <2>1. side = place /\ x \in n + 1 .. n + count
    BY <1>2, <1>6
  <2>2. x \in Nat /\ x > n /\ x \in 1 .. m
    BY <1>10, <2>1
  <2> QED BY <1>9, <2>2 DEF Placed
<1>20. FunctionsOwn(side, owner2, m, functions')
  <2> SUFFICES ASSUME side = "statements", NEW i \in 1 .. Len(functions)
               PROVE  functions[i].body \in 1 .. m /\ owner2[functions[i].body] = <<"functions", i>>
    BY DEF FunctionsOwn
  <2>1. functions[i].body \in 1 .. n /\ owner[functions[i].body] = <<"functions", i>>
    BY <1>14 DEF FunctionsOwn
  <2> QED BY <1>11, <2>1
<1>21. \A x \in FrameUses(side, f) : x \in 1 .. m /\ owner2[x] = TopFrame
  OBVIOUS
<1> QED BY <1>1, <1>2, <1>3, <1>10, <1>12, <1>13, <1>17, <1>18, <1>19, <1>20, <1>21, OwnsStep
------------------------------------------------------------------------------
(* What the nodes the parser makes refer to.                               *)

Operations == BinaryOperators \cup {"address_of", "dereference", "index"}

LEMMA NoUsesFact ==
  ASSUME NEW side \in Sides, NEW node, node.kind \in {"missing", "int_literal", "variable"}
  PROVE  Uses(side, node) = {}
<1>1. ExpressionChildren(node) = {}
  BY DEF ExpressionChildren, BinaryOperators
<1>2. StatementExpressions(node) = {} /\ StatementChildren(node) = {}
  BY DEF StatementExpressions, StatementChildren
<1> QED BY <1>1, <1>2 DEF Uses

LEMMA OperationUsesFact ==
  ASSUME NEW node, node.kind \in Operations
  PROVE  /\ Uses("expressions", node) = {node.data[i] : i \in DOMAIN node.data}
         /\ Uses("statements", node) = {}
<1> DEFINE data == {node.data[i] : i \in DOMAIN node.data}
<1>1. ExpressionChildren(node) = data
  <2>1. /\ node.kind \in BinaryOperators \cup {"address_of", "dereference", "index"}
        /\ node.kind # "array_literal"
    BY DEF Operations, BinaryOperators
  <2> HIDE DEF data
  <2>2. ExpressionChildren(node) =
          CASE node.kind \in BinaryOperators \cup {"address_of", "dereference", "index"} -> data
            [] node.kind = "array_literal" -> ArrayOrBlock(node.data[1], node.data[2])
            [] OTHER -> {}
    BY DEF ExpressionChildren, data
  <2> QED BY <2>1, <2>2
<1>2. StatementExpressions(node) = {} /\ StatementChildren(node) = {}
  BY DEF StatementExpressions, StatementChildren, Operations, BinaryOperators
<1> QED BY <1>1, <1>2 DEF Uses

LEMMA StatementUsesFact ==
  ASSUME NEW node
  PROVE  /\ node.kind = "return" =>
              Uses("expressions", node) = {node.data[1]} /\ Uses("statements", node) = {}
         /\ node.kind = "local_definition" =>
              Uses("expressions", node) = {node.data[2]} /\ Uses("statements", node) = {}
         /\ node.kind = "assign" =>
              /\ Uses("expressions", node) = {node.data[1], node.data[2]}
              /\ Uses("statements", node) = {}
         /\ node.kind = "while" =>
              /\ Uses("expressions", node) = {node.data[1]}
              /\ Uses("statements", node) = {node.data[2]}
         /\ node.kind = "if" =>
              /\ Uses("expressions", node) = {node.data[1]}
              /\ Uses("statements", node) = {node.data[2], node.data[3]} \ {NoNode}
<1>1. node.kind \in {"return", "local_definition", "assign", "while", "if"} =>
        ExpressionChildren(node) = {}
  BY DEF ExpressionChildren, BinaryOperators
<1>2. /\ node.kind \in {"return", "if", "while"} => StatementExpressions(node) = {node.data[1]}
      /\ node.kind = "local_definition" => StatementExpressions(node) = {node.data[2]}
      /\ node.kind = "assign" => StatementExpressions(node) = {node.data[1], node.data[2]}
  BY DEF StatementExpressions
<1>3. /\ node.kind \in {"return", "local_definition", "assign"} => StatementChildren(node) = {}
      /\ node.kind = "while" => StatementChildren(node) = {node.data[2]}
      /\ node.kind = "if" => StatementChildren(node) = {node.data[2], node.data[3]} \ {NoNode}
  BY DEF StatementChildren
<1> QED BY <1>1, <1>2, <1>3 DEF Uses

LEMMA BuiltUsesFact ==
  ASSUME NEW node
  PROVE  /\ node.kind = "array_literal" =>
              /\ Uses("expressions", node) = ArrayOrBlock(node.data[1], node.data[2])
              /\ Uses("statements", node) = {}
         /\ node.kind = "block" =>
              /\ Uses("expressions", node) = {}
              /\ Uses("statements", node) = ArrayOrBlock(node.data[1], node.data[2])
<1>1. /\ node.kind = "array_literal" =>
           ExpressionChildren(node) = ArrayOrBlock(node.data[1], node.data[2])
      /\ node.kind = "block" => ExpressionChildren(node) = {}
  BY DEF ExpressionChildren, BinaryOperators
<1>2. /\ node.kind \in {"array_literal", "block"} => StatementExpressions(node) = {}
      /\ node.kind = "array_literal" => StatementChildren(node) = {}
      /\ node.kind = "block" =>
           StatementChildren(node) = ArrayOrBlock(node.data[1], node.data[2])
  BY DEF StatementExpressions, StatementChildren
<1> QED BY <1>1, <1>2 DEF Uses

LEMMA FrameUsesFact ==
  ASSUME NEW side \in Sides, NEW f
  PROVE  /\ f.at = "index" => FrameUses(side, f) = Uses(side, f.array)
         /\ f.at = "rhs" => FrameUses(side, f) = Uses(side, f.lhs)
         /\ f.at = "set_value" =>
              FrameUses(side, f) = IF side = "expressions" THEN {f.lhs} ELSE {}
         /\ f.at \in {"true_branch", "while_body"} =>
              FrameUses(side, f) = IF side = "expressions" THEN {f.condition} ELSE {}
         /\ f.at = "false_branch" =>
              FrameUses(side, f) = IF side = "expressions" THEN {f.condition} ELSE {f.true_block}
<1>1. /\ f.at = "index" => FrameUses(side, f) = Uses(side, f.array)
      /\ f.at = "rhs" => FrameUses(side, f) = Uses(side, f.lhs)
  BY DEF FrameUses
<1>2. f.at = "set_value" => FrameUses(side, f) = IF side = "expressions" THEN {f.lhs} ELSE {}
  BY DEF FrameUses
<1>3. f.at \in {"true_branch", "while_body"} =>
        FrameUses(side, f) = IF side = "expressions" THEN {f.condition} ELSE {}
  BY DEF FrameUses
<1>4. f.at = "false_branch" =>
        FrameUses(side, f) = IF side = "expressions" THEN {f.condition} ELSE {f.true_block}
  BY DEF FrameUses, Sides
<1> QED BY <1>1, <1>2, <1>3, <1>4

\* Changing where a node ends does not change what it refers to.
LEMMA SameUses ==
  ASSUME NEW side, NEW node \in Nodes, NEW end
  PROVE  Uses(side, [node EXCEPT !.end = end]) = Uses(side, node)
<1> DEFINE other == [node EXCEPT !.end = end]
<1>1. other.kind = node.kind /\ other.data = node.data
  BY DEF Nodes
<1> HIDE DEF other
<1>2. ExpressionChildren(other) = ExpressionChildren(node)
  BY <1>1 DEF ExpressionChildren
<1>3. StatementExpressions(other) = StatementExpressions(node)
  BY <1>1 DEF StatementExpressions
<1>4. StatementChildren(other) = StatementChildren(node)
  BY <1>1 DEF StatementChildren
<1>5. Uses(side, other) = Uses(side, node)
  BY <1>2, <1>3, <1>4 DEF Uses
<1> QED BY <1>5 DEF other
------------------------------------------------------------------------------
(* Each action.                                                            *)

UsingLabels == {"index", "rhs", "set_value", "true_branch", "false_branch", "while_body"}

LEMMA AtTrees ==
  ASSUME IInv, NEW label, At(label)
  PROVE  /\ calls \in Seq(Frames) /\ calls # <<>> /\ Top.at = label /\ Top \in Frames
         /\ result \in Nodes /\ Len(calls) \in Nat
BY DEF IInv, TypeOK, At, Top

\* A call is not returned from yet.
LEMMA UselessCall ==
  ASSUME calls \in Seq(Frames), calls # <<>>, NEW side
  PROVE  /\ \A f : Become(<<f>>) /\ f.at \notin Consumers => Useless(side)
         /\ \A g, f : Become(<<g, f>>) /\ g.at \in {"operand", "statement", "block"} =>
              Useless(side)
         /\ \A f, min : Become(ExpressionCall(min) \o <<f>>) => Useless(side)
<1>1. \A f : Become(<<f>>) => calls'[1] = f
  BY OneFact
<1>2. \A g, f : Become(<<g, f>>) => calls'[1] = g
  BY TwoFact
<1>3. ASSUME NEW f, NEW min, Become(ExpressionCall(min) \o <<f>>)
      PROVE  calls'[1].at = "operand"
  <2>1. calls'[1] = [at |-> "operand"]
    BY <1>3, ThreeFact
  <2> QED BY <2>1
<1> QED BY <1>1, <1>2, <1>3 DEF Useless, Consumers

\* A function that calls another, or returns a node without children.
LEMMA CallTrees ==
  ASSUME IInv, IInv', TreesInv, NEW label, At(label), NEW to, NEW errors,
         Commit(to, errors, <<>>, <<>>), temp' = temp, functions' = functions,
         NEW f, f.at \notin UsingLabels,
         \/ Become(<<f>>) /\ f.at \notin Consumers
         \/ \E g : Become(<<g, f>>) /\ g.at \in {"operand", "statement", "block"}
         \/ \E min : Become(ExpressionCall(min) \o <<f>>)
         \/ /\ Become(<<f>>) \/ Become(<<>>)
            /\ result'.kind \in {"missing", "int_literal", "variable"}
  PROVE  TreesInv'
<1>1. calls \in Seq(Frames) /\ calls # <<>>
  BY AtTrees
<1>2. TopBecomes(f)
  BY <1>1, BecomesFact
<1>3. \A side \in Sides : FrameUses(side, f) = {}
  BY UselessFact DEF UsingLabels
<1>4. \A side \in Sides : result'.kind \in {"missing", "int_literal", "variable"} =>
        Uses(side, result') = {}
  BY NoUsesFact
<1>5. \A side \in Sides : Useless(side)
  BY <1>1, <1>4, UselessCall DEF Useless
<1> QED BY <1>1, <1>2, <1>3, <1>5, NothingMoves

LEMMA BeginTrees ==
  ASSUME IInv, IInv', TreesInv,
         \/ BeginPrefix \/ BeginParentheses \/ BeginArray \/ BeginElement \/ BeginBlock
         \/ BeginBlockStatement \/ BeginNotABlock \/ BeginStatement \/ StatementIsBlock
         \/ BeginDefinition
  PROVE  TreesInv'
<1>1. CASE BeginPrefix
  <2>1. PICK f : f = [at |-> "prefix", start |-> SpanStart(cursor),
                      kind |-> IF Kind(cursor) = "&" THEN "address_of" ELSE "dereference"]
    OBVIOUS
  <2>2. /\ Become(<<[at |-> "operand"], f>>) /\ Commit(cursor + 1, <<>>, <<>>, <<>>)
        /\ temp' = temp /\ functions' = functions /\ At("operand")
    BY <1>1, <2>1 DEF BeginPrefix, Call, Advance
  <2>3. \E g : Become(<<g, f>>) /\ g.at \in {"operand", "statement", "block"}
    <3>1. [at |-> "operand"].at = "operand"
      OBVIOUS
    <3> QED BY <2>2, <3>1
  <2>4. f.at = "prefix"
    BY <2>1
  <2> QED BY <2>2, <2>3, <2>4, CallTrees DEF UsingLabels
<1>2. CASE BeginParentheses
  <2>1. PICK f : /\ f.at = "parentheses" /\ Become(ExpressionCall(0) \o <<f>>)
                 /\ Commit(cursor + 1, <<>>, <<>>, <<>>) /\ temp' = temp
                 /\ functions' = functions /\ At("operand")
    BY <1>2 DEF BeginParentheses, Call, Advance
  <2> QED BY <2>1, CallTrees DEF UsingLabels
<1>3. CASE BeginArray
  <2>1. PICK f : /\ f.at = "array" /\ Become(<<f>>)
                 /\ Commit(cursor + 1, <<>>, <<>>, <<>>) /\ temp' = temp
                 /\ functions' = functions /\ At("operand")
    BY <1>3 DEF BeginArray, Call, Advance, Builder
  <2> QED BY <2>1, CallTrees DEF UsingLabels, Consumers
<1>4. CASE BeginElement
  <2>1. PICK f : f = [Top EXCEPT !.at = "element"]
    OBVIOUS
  <2>2. /\ Become(ExpressionCall(0) \o <<f>>) /\ Commit(cursor, <<>>, <<>>, <<>>)
        /\ temp' = temp /\ functions' = functions /\ At("array")
    BY <1>4, <2>1 DEF BeginElement, Call, Stay
  <2>3. Top \in BuilderFrame
    BY <2>2, AtTrees, TopBuilderFact DEF IsBuilder, BuilderLabels
  <2>4. f.at = "element"
    BY <2>1, <2>3 DEF BuilderFrame
  <2> QED BY <2>2, <2>4, CallTrees DEF UsingLabels
<1>5. CASE BeginBlock
  <2>1. PICK f : /\ f.at = "statements" /\ Become(<<f>>)
                 /\ Commit(cursor + 1, <<>>, <<>>, <<>>) /\ temp' = temp
                 /\ functions' = functions /\ At("block")
    BY <1>5 DEF BeginBlock, Call, Advance, Builder
  <2> QED BY <2>1, CallTrees DEF UsingLabels, Consumers
<1>6. CASE BeginBlockStatement
  <2>1. PICK f : f = [Top EXCEPT !.at = "block_statement"]
    OBVIOUS
  <2>2. /\ Become(<<[at |-> "statement"], f>>) /\ Commit(cursor, <<>>, <<>>, <<>>)
        /\ temp' = temp /\ functions' = functions /\ At("statements")
    BY <1>6, <2>1, CallsFact DEF BeginBlockStatement, Call, Stay
  <2>3. \E g : Become(<<g, f>>) /\ g.at \in {"operand", "statement", "block"}
    <3>1. [at |-> "statement"].at = "statement"
      OBVIOUS
    <3> QED BY <2>2, <3>1
  <2>4. Top \in BuilderFrame
    BY <2>2, AtTrees, TopBuilderFact DEF IsBuilder, BuilderLabels
  <2>5. f.at = "block_statement"
    BY <2>1, <2>4 DEF BuilderFrame
  <2> QED BY <2>2, <2>3, <2>5, CallTrees DEF UsingLabels
<1>7. CASE BeginNotABlock
  <2>1. PICK f : f = [at |-> "not_a_block", start |-> SpanStart(cursor)]
    OBVIOUS
  <2>2. /\ Become(<<[at |-> "statement"], f>>) /\ Commit(cursor, <<>>, <<>>, <<>>)
        /\ temp' = temp /\ functions' = functions /\ At("block")
    BY <1>7, <2>1, CallsFact DEF BeginNotABlock, Call, Stay
  <2>3. \E g : Become(<<g, f>>) /\ g.at \in {"operand", "statement", "block"}
    <3>1. [at |-> "statement"].at = "statement"
      OBVIOUS
    <3> QED BY <2>2, <3>1
  <2>4. f.at = "not_a_block"
    BY <2>1
  <2> QED BY <2>2, <2>3, <2>4, CallTrees DEF UsingLabels
<1>8. CASE BeginStatement
  <2>1. PICK f : /\ f.at \in {"return", "set", "if", "while"}
                 /\ Become(ExpressionCall(0) \o <<f>>)
                 /\ Commit(cursor + 1, <<>>, <<>>, <<>>) /\ temp' = temp
                 /\ functions' = functions /\ At("statement")
    BY <1>8 DEF BeginStatement, Call, Advance
  <2> QED BY <2>1, CallTrees DEF UsingLabels
<1>9. CASE StatementIsBlock
  <2>1. PICK f : /\ f.at = "block" /\ Become(<<f>>)
                 /\ Commit(cursor, <<>>, <<>>, <<>>) /\ temp' = temp
                 /\ functions' = functions /\ At("statement")
    BY <1>9 DEF StatementIsBlock, Call, Stay, BlockCall, AtStatement
  <2> QED BY <2>1, CallTrees DEF UsingLabels, Consumers
<1>10. CASE BeginDefinition
  <2>1. PICK f, to, errors :
          /\ f.at = "definition" /\ Become(ExpressionCall(0) \o <<f>>)
          /\ Commit(to, errors, <<>>, <<>>) /\ temp' = temp
          /\ functions' = functions /\ At("statement")
    BY <1>10 DEF BeginDefinition, Call, AtStatement
  <2> QED BY <2>1, CallTrees DEF UsingLabels
<1> QED BY <1>1, <1>2, <1>3, <1>4, <1>5, <1>6, <1>7, <1>8, <1>9, <1>10
\* A function that returns a node without children.
LEMMA LeafTrees ==
  ASSUME IInv, IInv', TreesInv,
         \/ Literal \/ MissingOperand \/ EndNotABlock \/ UnmatchedElse \/ MissingStatement
  PROVE  TreesInv'
<1> DEFINE f == [at |-> "postfix"]
<1>1. f.at = "postfix" /\ f.at \notin UsingLabels
  BY DEF UsingLabels
<1>2. ASSUME NEW label, At(label), NEW to, NEW errors, Commit(to, errors, <<>>, <<>>),
             NEW value, Operand(value) \/ Return(value),
             value.kind \in {"missing", "int_literal", "variable"}
      PROVE  TreesInv'
  <2>1. /\ temp' = temp /\ functions' = functions
        /\ Become(<<f>>) \/ Become(<<>>)
        /\ result'.kind \in {"missing", "int_literal", "variable"}
    BY <1>2 DEF Operand, Return, ReturnTo
  <2> HIDE DEF f
  <2> QED BY <1>1, <1>2, <2>1, CallTrees
<1> HIDE DEF f
<1>3. CASE Literal
  <2>1. PICK value : /\ value.kind \in {"int_literal", "variable"} /\ Operand(value)
                     /\ Commit(cursor + 1, <<>>, <<>>, <<>>) /\ At("operand")
    BY <1>3 DEF Literal, Advance, Node
  <2> QED BY <1>2, <2>1
<1>4. CASE MissingOperand
  <2>1. PICK value, to, errors : /\ value.kind = "missing" /\ Operand(value)
                                 /\ Commit(to, errors, <<>>, <<>>) /\ At("operand")
    BY <1>4 DEF MissingOperand, Node
  <2> QED BY <1>2, <2>1
<1>5. CASE EndNotABlock
  <2>1. PICK value, errors : /\ value.kind = "missing" /\ Return(value)
                             /\ Commit(cursor, errors, <<>>, <<>>) /\ At("not_a_block")
    BY <1>5 DEF EndNotABlock, Node
  <2> QED BY <1>2, <2>1
<1>6. CASE UnmatchedElse
  <2>1. PICK value, errors : /\ value.kind = "missing" /\ Return(value)
                             /\ Commit(cursor + 1, errors, <<>>, <<>>) /\ At("statement")
    BY <1>6 DEF UnmatchedElse, AtStatement, Node
  <2> QED BY <1>2, <2>1
<1>7. CASE MissingStatement
  <2>1. PICK value, to, errors : /\ value.kind = "missing" /\ Return(value)
                                 /\ Commit(to, errors, <<>>, <<>>) /\ At("statement")
    BY <1>7 DEF MissingStatement, Node
  <2> QED BY <1>2, <2>1
<1> QED BY <1>3, <1>4, <1>5, <1>6, <1>7

\* A function that returns the result of another, or keeps it in a frame.
LEMMA SameTrees ==
  ASSUME IInv, IInv', TreesInv,
         EndParentheses \/ EndOperand \/ EndExpression \/ BeginIndex \/ BeginRhs
  PROVE  TreesInv'
<1>1. CASE EndParentheses
  <2>1. PICK to, errors :
          /\ Become(<<[at |-> "postfix"]>>) /\ Commit(to, errors, <<>>, <<>>)
          /\ temp' = temp /\ functions' = functions /\ At("parentheses")
          /\ result' = [result EXCEPT !.end = EndOf(to)]
    BY <1>1 DEF EndParentheses, Operand, ReturnTo
  <2>2. PICK f : f = [at |-> "postfix"]
    OBVIOUS
  <2>3. calls \in Seq(Frames) /\ calls # <<>> /\ Top.at \in Consumers /\ result \in Nodes
    BY <2>1, AtTrees DEF Consumers
  <2>4. \A side \in Sides : FrameUses(side, f) = {}
    BY <2>2, UselessFact
  <2>5. \A side \in Sides : Uses(side, result') = Uses(side, result)
    BY <2>1, <2>3, SameUses
  <2>6. TopBecomes(f)
    BY <2>1, <2>2, <2>3, BecomesFact
  <2> QED BY <2>1, <2>3, <2>4, <2>5, <2>6, ResultMoves
<1>2. CASE EndOperand \/ EndExpression
  <2>1. /\ Become(<<>>) /\ Commit(cursor, <<>>, <<>>, <<>>)
        /\ temp' = temp /\ functions' = functions /\ result' = result
        /\ At("postfix") \/ At("operators")
    BY <1>2 DEF EndOperand, EndExpression, Stay, Return, ReturnTo
  <2>2. PICK f : f = [at |-> "postfix"]
    OBVIOUS
  <2>3. calls \in Seq(Frames) /\ calls # <<>> /\ Top.at \in Consumers
    BY <2>1, AtTrees DEF Consumers
  <2>4. \A side \in Sides : FrameUses(side, f) = {}
    BY <2>2, UselessFact
  <2>5. TopBecomes(f)
    BY <2>1, <2>2, <2>3, BecomesFact
  <2> QED BY <2>1, <2>3, <2>4, <2>5, ResultMoves
<1>3. CASE BeginIndex
  <2>1. PICK f : f = [at |-> "index", array |-> result]
    OBVIOUS
  <2>2. /\ Become(ExpressionCall(0) \o <<f>>) /\ Commit(cursor + 1, <<>>, <<>>, <<>>)
        /\ temp' = temp /\ functions' = functions /\ At("postfix")
    BY <1>3, <2>1 DEF BeginIndex, Call, Advance
  <2>3. calls \in Seq(Frames) /\ calls # <<>> /\ Top.at \in Consumers
    BY <2>2, AtTrees DEF Consumers
  <2>4. \A side \in Sides : FrameUses(side, f) = Uses(side, result)
    BY <2>1, FrameUsesFact
  <2>5. TopBecomes(f) /\ \A side \in Sides : Useless(side)
    BY <2>2, <2>3, BecomesFact, UselessCall
  <2> QED BY <2>2, <2>3, <2>4, <2>5, ResultWaits
<1>4. CASE BeginRhs
  <2>1. PICK f : f = [at |-> "rhs", min |-> Top.min, lhs |-> result, op |-> Kind(cursor)]
    OBVIOUS
  <2>2. /\ Become(ExpressionCall(BindingPower[Kind(cursor)] + 1) \o <<f>>)
        /\ Commit(cursor + 1, <<>>, <<>>, <<>>)
        /\ temp' = temp /\ functions' = functions /\ At("operators")
    BY <1>4, <2>1 DEF BeginRhs, Call, Advance
  <2>3. calls \in Seq(Frames) /\ calls # <<>> /\ Top.at \in Consumers
    BY <2>2, AtTrees DEF Consumers
  <2>4. \A side \in Sides : FrameUses(side, f) = Uses(side, result)
    BY <2>1, FrameUsesFact
  <2>5. TopBecomes(f) /\ \A side \in Sides : Useless(side)
    BY <2>2, <2>3, BecomesFact, UselessCall
  <2> QED BY <2>2, <2>3, <2>4, <2>5, ResultWaits
<1> QED BY <1>1, <1>2, <1>3, <1>4

\* A function that pushes the result to a builder.
LEMMA ElementTrees ==
  ASSUME IInv, IInv', TreesInv, EndElement \/ EndBlockStatement
  PROVE  TreesInv'
<1>1. PICK to, errors, label :
        /\ label \in {"array", "statements"}
        /\ Commit(to, errors, <<>>, <<>>) /\ temp' = Append(temp, result)
        /\ functions' = functions /\ Become(<<Pushed(Top, label)>>)
        /\ At("element") \/ At("block_statement")
  BY DEF EndElement, EndBlockStatement, Stay
<1>2. calls \in Seq(Frames) /\ calls # <<>> /\ Top.at \in Consumers /\ IsBuilder(Top)
  BY <1>1, AtTrees DEF Consumers, IsBuilder, BuilderLabels
<1>3. PICK f : f = Pushed(Top, label)
  OBVIOUS
<1>4. f.at = label /\ label \in {"array", "statements"}
  <2>1. Top \in BuilderFrame
    BY <1>2, TopBuilderFact
  <2> QED BY <1>1, <1>3, <2>1 DEF Pushed, BuilderFrame
<1>5. \A side \in Sides : FrameUses(side, f) = {}
  BY <1>4, UselessFact
<1>6. TopBecomes(f) /\ calls'[1].at \notin Consumers
  BY <1>1, <1>2, <1>3, <1>4, BecomesFact, OneFact DEF Consumers
<1> QED BY <1>1, <1>2, <1>5, <1>6, ElementMoves
\* A function that allocates an expression.
LEMMA ExpressionTrees ==
  ASSUME IInv, IInv', TreesInv,
         \/ EndPrefix \/ EndReturn \/ EndSet \/ EndDefinition
         \/ BeginSetValue \/ BeginTrueBranch \/ BeginWhileBody
  PROVE  TreesInv'
<1> DEFINE f == [at |-> "postfix"]
<1>0. NextExpression = Count("expressions") + 1 /\ "expressions" \in Sides
  BY DEF NextExpression, Count, Sides
<1>1. ASSUME NEW label \in Consumers, At(label), Commit(cursor, <<>>, <<result>>, <<>>),
             NEW value, Operand(value) \/ Return(value),
             \A x \in Uses("expressions", value) :
               x = NextExpression \/ x \in FrameUses("expressions", Top),
             Uses("statements", value) = {}
      PROVE  TreesInv'
  <2>1. /\ temp' = temp /\ functions' = functions /\ result' = value
        /\ Become(<<f>>) \/ Become(<<>>)
    BY <1>1 DEF Operand, Return, ReturnTo
  <2>2. \A side \in Sides : FrameUses(side, f) = {}
    BY UselessFact
  <2> HIDE DEF f
  <2>3. calls \in Seq(Frames) /\ calls # <<>> /\ Top.at \in Consumers
    BY <1>1, AtTrees
  <2>4. TopBecomes(f)
    BY <2>1, <2>3, BecomesFact
  <2>5. \A side \in Sides : Uses(side, result') \subseteq Reachable(side, "expressions")
    BY <1>0, <1>1, <2>1 DEF Sides, Reachable, Fresh
  <2> QED BY <1>1, <2>1, <2>2, <2>3, <2>4, <2>5, ExpressionMoves
<1>2. ASSUME NEW label \in Consumers, At(label), NEW to, NEW errors,
             Commit(to, errors, <<result>>, <<>>),
             temp' = temp, functions' = functions, NEW g, TopBecomes(g),
             FrameUses("expressions", g) = {NextExpression}, FrameUses("statements", g) = {},
             \A side \in Sides : Useless(side)
      PROVE  TreesInv'
  <2>1. calls # <<>> /\ Top.at \in Consumers
    BY <1>2, AtTrees
  <2>2. \A side \in Sides : FrameUses(side, g) \subseteq Reachable(side, "expressions")
    BY <1>0, <1>2 DEF Sides, Reachable, Fresh
  <2> QED BY <1>2, <2>1, <2>2, ExpressionWaits
<1> HIDE DEF f
<1>3. CASE EndPrefix
  <2>1. PICK value : value = Node(Top.kind, <<NextExpression>>, Top.start, EndOf(cursor))
    OBVIOUS
  <2>2. /\ At("prefix") /\ Operand(value) /\ Commit(cursor, <<>>, <<result>>, <<>>)
    BY <1>3, <2>1 DEF EndPrefix, AllocateExpressions
  <2>3. Top.kind \in {"address_of", "dereference"}
    <3>1. Top \in Frames /\ Top.at = "prefix"
      BY <2>2, AtTrees
    <3> QED BY <3>1 DEF Frames
  <2>4. value.kind \in Operations /\ value.data = <<NextExpression>>
    BY <2>1, <2>3 DEF Node, Operations
  <2>5. Uses("expressions", value) = {value.data[i] : i \in DOMAIN value.data}
        /\ Uses("statements", value) = {}
    BY <2>4, OperationUsesFact
  <2>6. \A x \in Uses("expressions", value) : x = NextExpression
    BY <2>4, <2>5
  <2> QED BY <1>1, <2>2, <2>5, <2>6 DEF Consumers
<1>4. CASE EndReturn
  <2>1. PICK value : value = Node("return", <<NextExpression>>, Top.start, EndOf(cursor))
    OBVIOUS
  <2>2. /\ At("return") /\ Return(value) /\ Commit(cursor, <<>>, <<result>>, <<>>)
    BY <1>4, <2>1 DEF EndReturn, AllocateExpressions
  <2>3. value.kind = "return" /\ value.data[1] = NextExpression
    BY <2>1 DEF Node
  <2>4. Uses("expressions", value) = {NextExpression} /\ Uses("statements", value) = {}
    BY <2>3, StatementUsesFact
  <2> QED BY <1>1, <2>2, <2>4 DEF Consumers
<1>5. CASE EndSet
  <2>1. PICK value : value = Node("assign", <<Top.lhs, NextExpression>>, Top.start, EndOf(cursor))
    OBVIOUS
  <2>2. /\ At("set_value") /\ Return(value) /\ Commit(cursor, <<>>, <<result>>, <<>>)
    BY <1>5, <2>1 DEF EndSet, AllocateExpressions
  <2>3. value.kind = "assign" /\ value.data[1] = Top.lhs /\ value.data[2] = NextExpression
    BY <2>1 DEF Node
  <2>4. /\ Uses("expressions", value) = {Top.lhs, NextExpression}
        /\ Uses("statements", value) = {}
    BY <2>3, StatementUsesFact
  <2>5. FrameUses("expressions", Top) = {Top.lhs}
    BY <1>0, <2>2, AtTrees, FrameUsesFact
  <2> QED BY <1>1, <2>2, <2>4, <2>5 DEF Consumers
<1>6. CASE EndDefinition
  <2>1. PICK value : value = Node("local_definition", <<Top.name, NextExpression>>, Top.start,
                                  EndOf(cursor))
    OBVIOUS
  <2>2. /\ At("definition") /\ Return(value) /\ Commit(cursor, <<>>, <<result>>, <<>>)
    BY <1>6, <2>1 DEF EndDefinition, AllocateExpressions
  <2>3. value.kind = "local_definition" /\ value.data[2] = NextExpression
    BY <2>1 DEF Node
  <2>4. Uses("expressions", value) = {NextExpression} /\ Uses("statements", value) = {}
    BY <2>3, StatementUsesFact
  <2> QED BY <1>1, <2>2, <2>4 DEF Consumers
<1>7. CASE BeginSetValue
  <2>1. PICK g : g = [at |-> "set_value", start |-> Top.start, lhs |-> NextExpression]
    OBVIOUS
  <2>2. PICK to, errors :
          /\ Become(ExpressionCall(0) \o <<g>>) /\ Commit(to, errors, <<result>>, <<>>)
          /\ temp' = temp /\ functions' = functions /\ At("set")
    BY <1>7, <2>1 DEF BeginSetValue, Call
  <2>3. TopBecomes(g) /\ \A side \in Sides : Useless(side)
    BY <2>2, AtTrees, BecomesFact, UselessCall
  <2>4. FrameUses("expressions", g) = {NextExpression} /\ FrameUses("statements", g) = {}
    BY <2>1, FrameUsesFact DEF Sides
  <2> QED BY <1>2, <2>2, <2>3, <2>4 DEF Consumers
<1>8. CASE BeginTrueBranch \/ BeginWhileBody
  <2>1. PICK label \in {"true_branch", "while_body"} :
          /\ label = "true_branch" => BeginTrueBranch
          /\ label = "while_body" => BeginWhileBody
    BY <1>8
  <2>2. PICK g : g = [at |-> label, start |-> Top.start, condition |-> NextExpression]
    OBVIOUS
  <2>3. /\ Become(<<[at |-> "block"], g>>) /\ Commit(cursor, <<>>, <<result>>, <<>>)
        /\ temp' = temp /\ functions' = functions
        /\ At("if") \/ At("while")
    BY <2>1, <2>2, CallsFact DEF BeginTrueBranch, BeginWhileBody, Call, AllocateExpressions
  <2>4. calls \in Seq(Frames) /\ calls # <<>>
    BY <2>3, AtTrees
  <2>5. TopBecomes(g) /\ \A side \in Sides : Useless(side)
    <3>1. [at |-> "block"].at = "block"
      OBVIOUS
    <3> QED BY <2>3, <2>4, <3>1, BecomesFact, UselessCall
  <2>6. FrameUses("expressions", g) = {NextExpression} /\ FrameUses("statements", g) = {}
    BY <2>2, FrameUsesFact DEF Sides
  <2> QED BY <1>2, <2>3, <2>5, <2>6 DEF Consumers
<1> QED BY <1>3, <1>4, <1>5, <1>6, <1>7, <1>8
\* A function that allocates a statement.
LEMMA StatementTrees ==
  ASSUME IInv, IInv', TreesInv,
         EndIfWithoutElse \/ EndIfElse \/ EndWhile \/ BeginFalseBranch
  PROVE  TreesInv'
<1>0. NextStatement = Count("statements") + 1 /\ "expressions" \in Sides /\ "statements" \in Sides
  BY DEF NextStatement, Count, Sides
<1>1. ASSUME NEW label \in Consumers, At(label), Commit(cursor, <<>>, <<>>, <<result>>),
             NEW value, Return(value),
             Uses("expressions", value) = FrameUses("expressions", Top),
             \A x \in Uses("statements", value) :
               x = NextStatement \/ x \in FrameUses("statements", Top)
      PROVE  TreesInv'
  <2>1. temp' = temp /\ functions' = functions /\ result' = value /\ Become(<<>>)
    BY <1>1 DEF Return, ReturnTo
  <2>2. PICK f : f = [at |-> "postfix"]
    OBVIOUS
  <2>3. \A side \in Sides : FrameUses(side, f) = {}
    BY <2>2, UselessFact
  <2>4. calls \in Seq(Frames) /\ calls # <<>> /\ Top.at \in Consumers
    BY <1>1, AtTrees
  <2>5. TopBecomes(f)
    BY <2>1, <2>4, BecomesFact
  <2>6. \A side \in Sides : Uses(side, result') \subseteq Reachable(side, "statements")
    BY <1>0, <1>1, <2>1 DEF Sides, Reachable, Fresh
  <2> QED BY <1>1, <2>1, <2>3, <2>4, <2>5, <2>6, StatementMoves
<1>2. CASE EndIfWithoutElse
  <2>1. PICK value : value = Node("if", <<Top.condition, NextStatement, NoNode>>, Top.start,
                                  EndOf(cursor))
    OBVIOUS
  <2>2. At("true_branch") /\ Return(value) /\ Commit(cursor, <<>>, <<>>, <<result>>)
    BY <1>2, <2>1 DEF EndIfWithoutElse, AllocateStatement
  <2>3. /\ value.kind = "if" /\ value.data[1] = Top.condition
        /\ value.data[2] = NextStatement /\ value.data[3] = NoNode
    BY <2>1 DEF Node
  <2>4. /\ Uses("expressions", value) = {Top.condition}
        /\ Uses("statements", value) = {NextStatement, NoNode} \ {NoNode}
    BY <2>3, StatementUsesFact
  <2>5. FrameUses("expressions", Top) = {Top.condition}
    BY <1>0, <2>2, AtTrees, FrameUsesFact
  <2> QED BY <1>1, <2>2, <2>4, <2>5 DEF Consumers
<1>3. CASE EndIfElse
  <2>1. PICK value : value = Node("if", <<Top.condition, Top.true_block, NextStatement>>,
                                  Top.start, EndOf(cursor))
    OBVIOUS
  <2>2. At("false_branch") /\ Return(value) /\ Commit(cursor, <<>>, <<>>, <<result>>)
    BY <1>3, <2>1 DEF EndIfElse, AllocateStatement
  <2>3. /\ value.kind = "if" /\ value.data[1] = Top.condition
        /\ value.data[2] = Top.true_block /\ value.data[3] = NextStatement
    BY <2>1 DEF Node
  <2>4. /\ Uses("expressions", value) = {Top.condition}
        /\ Uses("statements", value) = {Top.true_block, NextStatement} \ {NoNode}
    BY <2>3, StatementUsesFact
  <2>5. /\ FrameUses("expressions", Top) = {Top.condition}
        /\ FrameUses("statements", Top) = {Top.true_block}
    BY <1>0, <2>2, AtTrees, FrameUsesFact
  <2> QED BY <1>1, <2>2, <2>4, <2>5 DEF Consumers
<1>4. CASE EndWhile
  <2>1. PICK value : value = Node("while", <<Top.condition, NextStatement>>, Top.start,
                                  EndOf(cursor))
    OBVIOUS
  <2>2. At("while_body") /\ Return(value) /\ Commit(cursor, <<>>, <<>>, <<result>>)
    BY <1>4, <2>1 DEF EndWhile, AllocateStatement
  <2>3. value.kind = "while" /\ value.data[1] = Top.condition /\ value.data[2] = NextStatement
    BY <2>1 DEF Node
  <2>4. /\ Uses("expressions", value) = {Top.condition}
        /\ Uses("statements", value) = {NextStatement}
    BY <2>3, StatementUsesFact
  <2>5. FrameUses("expressions", Top) = {Top.condition}
    BY <1>0, <2>2, AtTrees, FrameUsesFact
  <2> QED BY <1>1, <2>2, <2>4, <2>5 DEF Consumers
<1>5. CASE BeginFalseBranch
  <2>1. PICK g : g = [at |-> "false_branch", start |-> Top.start, condition |-> Top.condition,
                      true_block |-> NextStatement]
    OBVIOUS
  <2>2. /\ Become(<<[at |-> "block"], g>>) /\ Commit(cursor + 1, <<>>, <<>>, <<result>>)
        /\ temp' = temp /\ functions' = functions /\ At("true_branch")
    BY <1>5, <2>1, CallsFact DEF BeginFalseBranch, Call
  <2>3. calls \in Seq(Frames) /\ calls # <<>> /\ Top.at = "true_branch" /\ Top.at \in Consumers
    BY <2>2, AtTrees DEF Consumers
  <2>4. TopBecomes(g) /\ \A side \in Sides : Useless(side)
    <3>1. [at |-> "block"].at = "block"
      OBVIOUS
    <3> QED BY <2>2, <2>3, <3>1, BecomesFact, UselessCall
  <2>5. /\ FrameUses("expressions", g) = {Top.condition}
        /\ FrameUses("statements", g) = {NextStatement}
        /\ FrameUses("expressions", Top) = {Top.condition}
    BY <1>0, <2>1, <2>3, FrameUsesFact
  <2>6. \A side \in Sides : FrameUses(side, g) \subseteq Reachable(side, "statements")
    BY <1>0, <2>5 DEF Sides, Reachable, Fresh
  <2> QED BY <2>2, <2>3, <2>4, <2>6, StatementWaits
<1> QED BY <1>2, <1>3, <1>4, <1>5

\* An operator or an index with two operands.
LEMMA PairTrees ==
  ASSUME IInv, IInv', TreesInv, EndIndex \/ EndRhs
  PROVE  TreesInv'
<1>0. NextExpression = Count("expressions") + 1 /\ NextExpression \in Nat
  BY DEF NextExpression, Count, IInv, TypeOK
<1>1. ASSUME NEW value, value.kind \in Operations,
             \A i \in DOMAIN value.data :
               value.data[i] = NextExpression \/ value.data[i] = NextExpression + 1,
             NEW side \in Sides, NEW x \in Uses(side, value)
      PROVE  side = "expressions" /\ x \in Count(side) + 1 .. Count(side) + 2
  <2>1. side = "expressions" /\ x \in {value.data[i] : i \in DOMAIN value.data}
    BY <1>1, OperationUsesFact DEF Sides
  <2>2. x = NextExpression \/ x = NextExpression + 1
    BY <1>1, <2>1
  <2>3. PICK n \in Nat : n = Count(side) /\ NextExpression = n + 1
    <3>1. Count(side) = Len(expressions) /\ Len(expressions) \in Nat
      BY <2>1 DEF Count, IInv, TypeOK
    <3> QED BY <3>1 DEF NextExpression
  <2> QED BY <2>1, <2>2, <2>3
<1>2. CASE EndIndex
  <2>1. PICK to, errors :
          /\ At("index") /\ Commit(to, errors, <<result, Top.array>>, <<>>)
          /\ Become(<<[at |-> "postfix"]>>) /\ temp' = temp /\ functions' = functions
          /\ result' = Node("index", <<NextExpression + 1, NextExpression>>, Top.array.start,
                            EndOf(to))
    BY <1>2 DEF EndIndex, Operand, ReturnTo
  <2>2. /\ calls \in Seq(Frames) /\ calls # <<>> /\ Top.at = "index" /\ Top \in Frames
        /\ result \in Nodes
    BY <2>1, AtTrees
  <2>3. Top.array \in Nodes
    BY <2>2, FrameFields
  <2>4. PICK exprs : exprs = <<result, Top.array>>
    OBVIOUS
  <2>5. exprs \in NodeSeqs /\ Len(exprs) = 2 /\ exprs[1] = result /\ exprs[2] = Top.array
    BY <2>2, <2>3, <2>4 DEF NodeSeqs
  <2>6. PICK f : f = [at |-> "postfix"]
    OBVIOUS
  <2>7. TopBecomes(f) /\ Top.at \in Consumers
    BY <2>1, <2>2, <2>6, BecomesFact DEF Consumers
  <2>8. \A side \in Sides : /\ Uses(side, exprs[2]) = FrameUses(side, Top)
                            /\ FrameUses(side, f) = {}
    BY <2>2, <2>5, <2>6, FrameUsesFact, UselessFact
  <2>9. \A side \in Sides : \A x \in Uses(side, result') :
          side = "expressions" /\ x \in Count(side) + 1 .. Count(side) + 2
    <3>1. result'.kind \in Operations /\ result'.data = <<NextExpression + 1, NextExpression>>
      BY <2>1 DEF Node, Operations
    <3>2. \A i \in DOMAIN result'.data :
            result'.data[i] = NextExpression \/ result'.data[i] = NextExpression + 1
      BY <3>1
    <3> QED BY <1>1, <3>1, <3>2
  <2>10. 1 \in {1, 2} /\ 2 \in {1, 2} \ {1}
    OBVIOUS
  <2> QED BY <2>1, <2>2, <2>4, <2>5, <2>7, <2>8, <2>9, <2>10, PairMoves
<1>3. CASE EndRhs
  <2>1. PICK f :
          /\ At("rhs") /\ Commit(cursor, <<>>, <<Top.lhs, result>>, <<>>)
          /\ Become(<<f>>) /\ f.at = "operators" /\ temp' = temp /\ functions' = functions
          /\ result' = Node(Top.op, <<NextExpression, NextExpression + 1>>, Top.lhs.start,
                            EndOf(cursor))
    BY <1>3 DEF EndRhs, AllocateExpressions
  <2>2. /\ calls \in Seq(Frames) /\ calls # <<>> /\ Top.at = "rhs" /\ Top \in Frames
        /\ result \in Nodes
    BY <2>1, AtTrees
  <2>3. Top.lhs \in Nodes /\ Top.op \in BinaryOperators
    BY <2>2, FrameFields
  <2>4. PICK exprs : exprs = <<Top.lhs, result>>
    OBVIOUS
  <2>5. exprs \in NodeSeqs /\ Len(exprs) = 2 /\ exprs[1] = Top.lhs /\ exprs[2] = result
    BY <2>2, <2>3, <2>4 DEF NodeSeqs
  <2>7. TopBecomes(f) /\ Top.at \in Consumers
    BY <2>1, <2>2, BecomesFact DEF Consumers
  <2>8. \A side \in Sides : /\ Uses(side, exprs[1]) = FrameUses(side, Top)
                            /\ FrameUses(side, f) = {}
    BY <2>1, <2>2, <2>5, FrameUsesFact, UselessFact
  <2>9. \A side \in Sides : \A x \in Uses(side, result') :
          side = "expressions" /\ x \in Count(side) + 1 .. Count(side) + 2
    <3>1. result'.kind \in Operations /\ result'.data = <<NextExpression, NextExpression + 1>>
      BY <2>1, <2>3 DEF Node, Operations
    <3>2. \A i \in DOMAIN result'.data :
            result'.data[i] = NextExpression \/ result'.data[i] = NextExpression + 1
      BY <3>1
    <3> QED BY <1>1, <3>1, <3>2
  <2>10. 2 \in {1, 2} /\ 1 \in {1, 2} \ {2}
    OBVIOUS
  <2> QED BY <2>1, <2>2, <2>4, <2>5, <2>7, <2>8, <2>9, <2>10, PairMoves
<1> QED BY <1>2, <1>3

\* The end of an array literal or a block.
LEMMA BuiltTrees ==
  ASSUME IInv, IInv', TreesInv, EndArray \/ EndBlock
  PROVE  TreesInv'
<1>0. PICK f : f = [at |-> "postfix"]
  OBVIOUS
<1>1. \A side \in Sides : FrameUses(side, f) = {}
  BY <1>0, UselessFact
<1>2. ASSUME NEW side \in Sides, NEW count \in Nat, NEW next, next = Count(side) + 1,
             NEW first, first = IF count = 0 THEN NoNode ELSE next,
             NEW x \in ArrayOrBlock(first, count)
      PROVE  x \in Count(side) + 1 .. Count(side) + count
  <2>1. Count(side) \in Nat
    BY DEF IInv, TypeOK, Count
  <2>2. CASE count = 0
    BY <1>2, <2>2 DEF ArrayOrBlock, NoNode
  <2>3. CASE count # 0
    BY <1>2, <2>1, <2>3 DEF ArrayOrBlock
  <2> QED BY <2>2, <2>3
<1>3. CASE EndArray
  <2>1. PICK to, errors, end :
          /\ At("array") /\ Commit(to, errors, Built(Top), <<>>)
          /\ Become(<<[at |-> "postfix"]>>) /\ functions' = functions
          /\ temp' = SubSeq(temp, 1, Top.base)
          /\ result' = Node("array_literal", <<FirstOf(Top, NextExpression), Top.count>>,
                            Top.start, end)
    BY <1>3 DEF EndArray, ReturnTo
  <2>2. calls \in Seq(Frames) /\ calls # <<>> /\ IsBuilder(Top)
    BY <2>1, AtTrees DEF IsBuilder, BuilderLabels
  <2>3. TopBecomes(f)
    BY <1>0, <2>1, <2>2, BecomesFact
  <2>4. Built(Top) \in NodeSeqs /\ Top.count \in Nat
    BY <2>2, TopBuilderFact
  <2>5. /\ result'.kind = "array_literal" /\ result'.data[1] = FirstOf(Top, NextExpression)
        /\ result'.data[2] = Top.count
    BY <2>1 DEF Node
  <2>6. /\ Uses("expressions", result') = ArrayOrBlock(FirstOf(Top, NextExpression), Top.count)
        /\ Uses("statements", result') = {}
    BY <2>5, BuiltUsesFact
  <2>7. \A x \in Uses("expressions", result') :
          x \in Count("expressions") + 1 .. Count("expressions") + Top.count
    BY <1>2, <2>4, <2>6 DEF FirstOf, NextExpression, Count, Sides
  <2>8. \A side \in Sides : \A x \in Uses(side, result') :
          side = "expressions" /\ x \in Count(side) + 1 .. Count(side) + Top.count
    BY <2>6, <2>7 DEF Sides
  <2>9. "expressions" \in Sides /\ "expressions" # "statements"
    BY DEF Sides
  <2> QED BY <1>1, <2>1, <2>2, <2>3, <2>4, <2>8, <2>9, EmptyFact, BuiltMoves
<1>4. CASE EndBlock
  <2>1. PICK to, errors, end :
          /\ At("statements") /\ Commit(to, errors, <<>>, Built(Top))
          /\ Become(<<>>) /\ functions' = functions
          /\ temp' = SubSeq(temp, 1, Top.base)
          /\ result' = Node("block", <<FirstOf(Top, NextStatement), Top.count>>,
                            Top.start, end)
    BY <1>4 DEF EndBlock, ReturnTo
  <2>2. calls \in Seq(Frames) /\ calls # <<>> /\ IsBuilder(Top)
    BY <2>1, AtTrees DEF IsBuilder, BuilderLabels
  <2>3. TopBecomes(f)
    BY <1>0, <2>1, <2>2, BecomesFact
  <2>4. Built(Top) \in NodeSeqs /\ Top.count \in Nat
    BY <2>2, TopBuilderFact
  <2>5. /\ result'.kind = "block" /\ result'.data[1] = FirstOf(Top, NextStatement)
        /\ result'.data[2] = Top.count
    BY <2>1 DEF Node
  <2>6. /\ Uses("statements", result') = ArrayOrBlock(FirstOf(Top, NextStatement), Top.count)
        /\ Uses("expressions", result') = {}
    BY <2>5, BuiltUsesFact
  <2>7. \A x \in Uses("statements", result') :
          x \in Count("statements") + 1 .. Count("statements") + Top.count
    BY <1>2, <2>4, <2>6 DEF FirstOf, NextStatement, Count, Sides
  <2>8. \A side \in Sides : \A x \in Uses(side, result') :
          side = "statements" /\ x \in Count(side) + 1 .. Count(side) + Top.count
    BY <2>6, <2>7 DEF Sides
  <2>9. "statements" \in Sides /\ "expressions" # "statements"
    BY DEF Sides
  <2> QED BY <1>1, <2>1, <2>2, <2>3, <2>4, <2>8, <2>9, EmptyFact, BuiltMoves
<1> QED BY <1>3, <1>4
------------------------------------------------------------------------------
LEMMA FunctionsTrees ==
  ASSUME IInv, IInv', TreesInv, BeginFunction \/ NotAFunction \/ EndParse
  PROVE  TreesInv'
<1> SUFFICES ASSUME NEW side \in Sides PROVE \E owner : Owns(side, owner)'
  BY DEF TreesInv
<1>1. PICK owner : Owns(side, owner)
  BY DEF TreesInv
<1>2. TypeOK /\ result' = result /\ temp' = temp /\ functions' = functions
  BY DEF IInv, BeginFunction, NotAFunction, EndParse
<1>3. expressions' = expressions /\ statements' = statements
  <2>1. /\ expressions' = expressions \o <<>> \/ expressions' = expressions
        /\ statements' = statements \o <<>> \/ statements' = statements
    BY DEF BeginFunction, NotAFunction, EndParse, Commit
  <2>2. expressions \in Seq(Nodes) /\ statements \in Seq(Nodes)
    BY <1>2 DEF TypeOK
  <2> QED BY <2>1, <2>2
<1>4. \A i \in 1 .. Len(calls') : FrameUses(side, calls'[i]) = {}
  <2>1. CASE BeginFunction
    <3>1. PICK g : g.at = "function" /\ calls' = StatementCall \o <<g>>
      BY <2>1 DEF BeginFunction
    <3>2. PICK f : f = [at |-> "statement"]
      OBVIOUS
    <3>3. calls' = <<f, g>>
      BY <3>1, <3>2, CallsFact
    <3>4. Len(calls') = 2 /\ calls'[1] = f /\ calls'[2] = g
      BY <3>3
    <3>5. FrameUses(side, f) = {} /\ FrameUses(side, g) = {}
      BY <3>1, <3>2, UselessFact
    <3> QED BY <3>4, <3>5
  <2>2. CASE NotAFunction \/ EndParse
    <3>1. calls' = <<>>
      BY <2>2 DEF NotAFunction, EndParse, TopLevel
    <3> QED BY <3>1
  <2> QED BY <2>1, <2>2
<1>5. calls' # <<>> => calls'[1].at \notin Consumers
  <2>1. CASE BeginFunction
    <3>1. PICK g : calls' = StatementCall \o <<g>>
      BY <2>1 DEF BeginFunction
    <3>2. calls' = <<[at |-> "statement"], g>>
      BY <3>1, CallsFact
    <3> QED BY <3>2 DEF Consumers
  <2>2. CASE NotAFunction \/ EndParse
    BY <2>2 DEF NotAFunction, EndParse, TopLevel
  <2> QED BY <2>1, <2>2
<1>6. Count(side)' = Count(side)
  BY <1>3 DEF Count
<1>7. FramesOwn(side, owner, Count(side), calls')
  BY <1>4 DEF FramesOwn
<1>8. ResultOwns(side, owner, Count(side), calls', result')
  BY <1>5 DEF ResultOwns
<1>9. Owns(side, owner)'
  BY <1>1, <1>2, <1>3, <1>6, <1>7, <1>8 DEF Owns
<1> QED BY <1>9

LEMMA BeginForest == Begin => TreesInv
<1> SUFFICES ASSUME Begin, NEW side \in Sides PROVE \E owner : Owns(side, owner)
  BY DEF TreesInv
<1>1. /\ calls = <<>> /\ expressions = <<>> /\ statements = <<>> /\ temp = <<>>
      /\ functions = <<>>
  BY DEF Begin
<1>2. \A owner : Owns(side, owner)
  BY <1>1 DEF Owns, NodesOwn, FramesOwn, ResultOwns, FunctionsOwn
<1> QED BY <1>2

LEMMA InitTrees == Init => TreesInv
BY BeginForest DEF Init

LEMMA NextTrees == IInv /\ IInv' /\ TreesInv /\ [Next]_vars => TreesInv'
<1>1. ASSUME IInv, IInv', TreesInv, Expressions PROVE TreesInv'
  BY <1>1, BeginTrees, LeafTrees, SameTrees, ElementTrees, ExpressionTrees, PairTrees,
     BuiltTrees DEF Expressions
<1>2. ASSUME IInv, IInv', TreesInv, Statements PROVE TreesInv'
  BY <1>2, BeginTrees, LeafTrees, ElementTrees, ExpressionTrees, StatementTrees, BuiltTrees
     DEF Statements
<1>3. ASSUME IInv, IInv', TreesInv, Next PROVE TreesInv'
  BY <1>1, <1>2, <1>3, FunctionMoves, FunctionsTrees DEF Next
<1>4. ASSUME TreesInv, UNCHANGED vars PROVE TreesInv'
  <2>1. /\ expressions' = expressions /\ statements' = statements /\ temp' = temp
        /\ calls' = calls /\ result' = result /\ functions' = functions
    BY <1>4 DEF vars
  <2>2. ASSUME NEW side \in Sides, NEW owner, Owns(side, owner) PROVE Owns(side, owner)'
    <3>1. Count(side)' = Count(side)
      BY <2>1 DEF Count
    <3> QED BY <2>1, <2>2, <3>1 DEF Owns
  <2> QED BY <1>4, <2>2 DEF TreesInv
<1> QED BY <1>3, <1>4

\* The functions have as many bodies as there are of them.
LEMMA BodiesFact ==
  ASSUME TypeOK, NEW owner, FunctionsOwn("statements", owner, Count("statements"), functions)
  PROVE  Cardinality({functions[i].body : i \in DOMAIN functions}) = Len(functions)
<1> DEFINE n == Len(functions)
           bodies == {functions[i].body : i \in DOMAIN functions}
           f == [i \in 1 .. n |-> functions[i].body]
<1>1. n \in Nat /\ DOMAIN functions = 1 .. n
  BY DEF TypeOK
<1>2. \A i \in 1 .. n : owner[functions[i].body] = <<"functions", i>>
  BY DEF FunctionsOwn
<1>3. \A i \in 1 .. n, j \in 1 .. n : functions[i].body = functions[j].body => i = j
  BY <1>2
<1>4. f \in Injection(1 .. n, bodies)
  BY <1>1, <1>3 DEF Injection, IsInjective
<1>5. f \in Surjection(1 .. n, bodies)
  BY <1>1, <1>4 DEF Surjection, Injection
<1>6. ExistsBijection(1 .. n, bodies)
  BY <1>4, <1>5 DEF ExistsBijection, Bijection
<1> HIDE DEF bodies
<1>7. Cardinality(bodies) = n
  BY <1>1, <1>6, FS_CountingElements
<1> QED BY <1>7 DEF bodies

LEMMA TreesForm ==
  ASSUME TypeOK, TreesInv
  PROVE  NodesFormTrees
<1> DEFINE m == Len(expressions)
           n == Len(statements)
           bodies == {functions[i].body : i \in DOMAIN functions}
<1>1. PICK oe : Owns("expressions", oe)
  BY DEF TreesInv, Sides
<1>2. PICK os : Owns("statements", os)
  BY DEF TreesInv, Sides
<1>3. /\ m \in Nat /\ n \in Nat /\ DOMAIN expressions = 1 .. m /\ DOMAIN statements = 1 .. n
      /\ Count("expressions") = m /\ Count("statements") = n
      /\ DOMAIN functions = 1 .. Len(functions)
  BY DEF TypeOK, Count
<1>4. ASSUME NEW i \in 1 .. m, NEW x \in ExpressionChildren(expressions[i])
      PROVE  x \in 1 .. i - 1 /\ oe[x] = <<"expressions", i>>
  <2>1. x \in Uses("expressions", expressions[i])
    BY DEF Uses
  <2>2. x \in 1 .. m /\ oe[x] = <<"expressions", i>> /\ x < i
    BY <1>1, <1>3, <2>1 DEF Owns, NodesOwn
  <2> QED BY <1>3, <2>2
<1>5. ASSUME NEW i \in 1 .. n, NEW x \in StatementChildren(statements[i])
      PROVE  x \in 1 .. i - 1 /\ os[x] = <<"statements", i>>
  <2>1. x \in Uses("statements", statements[i])
    BY DEF Uses
  <2>2. x \in 1 .. n /\ os[x] = <<"statements", i>> /\ x < i
    BY <1>2, <1>3, <2>1 DEF Owns, NodesOwn
  <2> QED BY <1>3, <2>2
<1>6. ASSUME NEW i \in 1 .. n, NEW x \in StatementExpressions(statements[i])
      PROVE  x \in 1 .. m /\ oe[x] = <<"statements", i>>
  <2>1. x \in Uses("expressions", statements[i])
    BY DEF Uses
  <2> QED BY <1>1, <1>3, <2>1 DEF Owns, NodesOwn
<1>7. FunctionsOwn("statements", os, Count("statements"), functions)
  BY <1>2 DEF Owns
<1>8. Cardinality(bodies) = Len(functions)
  BY <1>7, BodiesFact
<1>9. \A x \in bodies : \E i : os[x] = <<"functions", i>>
  BY <1>3, <1>7 DEF FunctionsOwn
<1>10. \A i \in 1 .. m : ExpressionChildren(expressions[i]) \subseteq 1 .. i - 1
  BY <1>4
<1>11. \A i \in 1 .. n : /\ StatementChildren(statements[i]) \subseteq 1 .. i - 1
                         /\ StatementExpressions(statements[i]) \subseteq 1 .. m
  BY <1>5, <1>6
<1>12. \A i \in 1 .. m, j \in 1 .. m : i # j =>
         ExpressionChildren(expressions[i]) \cap ExpressionChildren(expressions[j]) = {}
  BY <1>4
<1>13. \A i \in 1 .. n, j \in 1 .. n : i # j =>
         StatementChildren(statements[i]) \cap StatementChildren(statements[j]) = {}
  BY <1>5
<1>14. \A i \in 1 .. n, j \in 1 .. n : i # j =>
         StatementExpressions(statements[i]) \cap StatementExpressions(statements[j]) = {}
  BY <1>6
<1>15. \A i \in 1 .. m, j \in 1 .. n :
         ExpressionChildren(expressions[i]) \cap StatementExpressions(statements[j]) = {}
  BY <1>4, <1>6
<1>16. \A j \in 1 .. n : StatementChildren(statements[j]) \cap bodies = {}
  <2> SUFFICES ASSUME NEW j \in 1 .. n, NEW x \in StatementChildren(statements[j]), x \in bodies
               PROVE  FALSE
    OBVIOUS
  <2>1. PICK i : os[x] = <<"functions", i>>
    BY <1>9
  <2> HIDE DEF bodies
  <2> QED BY <1>5, <2>1
<1> HIDE DEF m, n
<1> QED BY <1>3, <1>8, <1>10, <1>11, <1>12, <1>13, <1>14, <1>15, <1>16 DEF NodesFormTrees

\* Whatever the tokens and the limits, the nodes the parser allocates form
\* trees: each expression and statement is allocated after its children, and only
\* its parent refers to it (parse.c:28-61).  Lowering visits a node at most once.
THEOREM AstIsAForest == Spec => []NodesFormTrees
<1>1. IInv /\ TreesInv => NodesFormTrees
  BY TreesForm DEF IInv
<1>2. Spec => [](IInv /\ TreesInv)
  <2>1. Init => IInv /\ TreesInv
    BY InitInv, InitTrees
  <2>2. IInv /\ TreesInv /\ [Next]_vars => (IInv /\ TreesInv)'
    BY NextInv, NextTrees
  <2> QED BY <2>1, <2>2, PTL DEF Spec
<1> QED BY <1>1, <1>2, PTL

--------------------------------------------------------------------------------
(* The AST is complete.  That indices are those of allocated nodes is      *)
(* known from TreesInv.  The invariant here is that where an expression is *)
(* expected there is one, and a statement where a statement is, and that   *)
(* each has the data of its kind.                                          *)

\* The nodes with the data of an expression, or of a statement.
FitsExpression(node) ==
  /\ node.kind \in BinaryOperators \cup
       {"missing", "int_literal", "variable", "address_of", "dereference", "index",
        "array_literal"}
  /\ node.kind \in {"address_of", "dereference"} => Len(node.data) = 1
  /\ node.kind \in BinaryOperators \cup {"index", "array_literal"} => Len(node.data) = 2
FitsStatement(node) ==
  /\ node.kind \in {"missing", "return", "assign", "local_definition", "while", "if", "block"}
  /\ node.kind = "return" => Len(node.data) = 1
  /\ node.kind \in {"assign", "local_definition", "while", "block"} => Len(node.data) = 2
  /\ node.kind = "if" => Len(node.data) = 3 /\ node.data[2] # NoNode

\* What a frame waits for, and what it returns or collects.
ExpressionConsumers ==
  {"prefix", "parentheses", "postfix", "index", "element", "operators", "rhs", "return",
   "set", "if", "while", "set_value", "definition"}
StatementConsumers ==
  {"function", "block_statement", "not_a_block", "true_branch", "false_branch", "while_body"}
Takes(f, node) ==
  /\ f.at \in ExpressionConsumers => FitsExpression(node)
  /\ f.at \in StatementConsumers => FitsStatement(node)
Gives(f, node) ==
  IF ParsesExpression(f) THEN FitsExpression(node) ELSE FitsStatement(node)

\* f returns to g.
Returns(f, g) ==
  IF ParsesExpression(f) THEN g.at \in ExpressionConsumers ELSE g.at \in StatementConsumers

FrameFits(f) ==
  /\ f.at = "index" => FitsExpression(f.array)
  /\ f.at = "rhs" => FitsExpression(f.lhs)
  /\ f.at = "false_branch" => f.true_block # NoNode

\* Element k is above the base of builder i and below those of the nested ones.
Holder(stack, i, k) ==
  /\ IsBuilder(stack[i]) /\ stack[i].base < k
  /\ \A j \in 1 .. i - 1 : IsBuilder(stack[j]) => k <= stack[j].base

StackFits(stack) ==
  /\ \A i \in 1 .. Len(stack) : FrameFits(stack[i])
  /\ \A i \in 1 .. Len(stack) - 1 : Returns(stack[i], stack[i + 1])
TempFits(stack, arena) ==
  \A i \in 1 .. Len(stack), k \in 1 .. Len(arena) :
    Holder(stack, i, k) => Gives(stack[i], arena[k])

AllFitExpression(nodes) == \A i \in 1 .. Len(nodes) : FitsExpression(nodes[i])
AllFitStatement(nodes) == \A i \in 1 .. Len(nodes) : FitsStatement(nodes[i])

ShapesInv ==
  /\ StackFits(calls)
  /\ TempFits(calls, temp)
  /\ calls # <<>> => Takes(Top, result)
  /\ AllFitExpression(expressions)
  /\ AllFitStatement(statements)
------------------------------------------------------------------------------
(* What a step makes of the stack and of the arena.                        *)

\* The stack `new` is `old` with the frames u in the place of the top one.
Replaced(old, new, u) ==
  /\ Len(new) = Len(u) + Len(old) - 1
  /\ \A i \in 1 .. Len(new) : new[i] = IF i <= Len(u) THEN u[i] ELSE old[i - Len(u) + 1]

\* Frames that may take the place of the top frame f.
MayReplace(u, f) ==
  /\ \A i \in 1 .. Len(u) : FrameFits(u[i])
  /\ \A i \in 1 .. Len(u) - 1 : Returns(u[i], u[i + 1]) /\ ~IsBuilder(u[i])
  /\ Len(u) > 0 => (ParsesExpression(u[Len(u)]) <=> ParsesExpression(f))

\* The elements of a builder f are popped with it or stay with the frame g that
\* goes on; what is pushed is for g.
ArenaFollows(old, new, f, g) ==
  /\ \A k \in 1 .. Len(new) : k <= Len(old) => new[k] = old[k]
  /\ IsBuilder(g) => \A k \in 1 .. Len(new) : g.base < k =>
       \/ k <= Len(old) /\ IsBuilder(f) /\ f.base = g.base
       \/ Gives(g, new[k])
  /\ IsBuilder(f) => \/ IsBuilder(g) /\ f.base = g.base
                     \/ Len(new) <= f.base
  /\ ~IsBuilder(f) => Len(new) <= Len(old)

LEMMA BecomeFact ==
  ASSUME calls \in Seq(Frames), calls # <<>>, NEW S, NEW u \in Seq(S), Become(u)
  PROVE  Replaced(calls, calls', u)
<1> DEFINE T == Frames \cup S
           t == Tail(calls)
<1>1. t \in Seq(T) /\ Len(t) = Len(calls) - 1 /\ \A i \in 1 .. Len(t) : t[i] = calls[i + 1]
  OBVIOUS
<1>2. u \in Seq(T) /\ calls' = u \o t
  BY DEF Become
<1> HIDE DEF T, t
<1>3. PICK m \in Nat : m = Len(u)
  BY <1>2
<1>4. /\ Len(calls') = m + Len(t)
      /\ \A i \in 1 .. m + Len(t) : calls'[i] = IF i <= m THEN u[i] ELSE t[i - m]
  BY <1>1, <1>2, <1>3, ConcatAny
<1>5. PICK n \in Nat : n = Len(t)
  BY <1>1
<1>6. ASSUME NEW i \in 1 .. m + n
      PROVE  calls'[i] = IF i <= m THEN u[i] ELSE calls[i - m + 1]
  <2>1. CASE i <= m
    BY <1>4, <1>5, <2>1
  <2>2. CASE i > m
    <3>1. i - m \in 1 .. n /\ (i - m) + 1 = i - m + 1
      BY <2>2
    <3> QED BY <1>1, <1>4, <1>5, <2>2, <3>1
  <2> QED BY <2>1, <2>2
<1>7. Len(calls') = m + n /\ m + n = m + Len(calls) - 1
  BY <1>1, <1>4, <1>5
<1> QED BY <1>3, <1>6, <1>7 DEF Replaced

LEMMA StackStep ==
  ASSUME NEW old \in Seq(Frames), old # <<>>, StackFits(old),
         NEW u, Len(u) \in Nat, MayReplace(u, old[1]), NEW new, Replaced(old, new, u)
  PROVE  StackFits(new)
<1>1. PICK m \in Nat : m = Len(u)
  OBVIOUS
<1>2. PICK n \in Nat : n = Len(old) /\ n >= 1
  OBVIOUS
<1>3. /\ Len(new) = m + n - 1
      /\ \A i \in 1 .. m + n - 1 : new[i] = IF i <= m THEN u[i] ELSE old[i - m + 1]
  BY <1>1, <1>2 DEF Replaced
<1>4. ASSUME NEW i \in 1 .. m + n - 1 PROVE FrameFits(new[i])
  <2>1. CASE i <= m
    BY <1>1, <1>3, <2>1 DEF MayReplace
  <2>2. CASE i > m
    <3>1. i - m + 1 \in 1 .. n
      BY <2>2
    <3> QED BY <1>2, <1>3, <2>2, <3>1 DEF StackFits
  <2> QED BY <2>1, <2>2
<1>5. ASSUME NEW i \in 1 .. (m + n - 1) - 1 PROVE Returns(new[i], new[i + 1])
  <2>0. i \in 1 .. m + n - 1 /\ i + 1 \in 1 .. m + n - 1
    OBVIOUS
  <2>1. CASE i < m
    <3>1. new[i] = u[i] /\ new[i + 1] = u[i + 1] /\ i \in 1 .. m - 1
      BY <1>3, <2>0, <2>1
    <3> QED BY <1>1, <3>1 DEF MayReplace
  <2>2. CASE i = m
    <3>1. new[i] = u[m] /\ new[i + 1] = old[2] /\ 1 \in 1 .. n - 1 /\ m > 0
      BY <1>3, <2>0, <2>2
    <3>2. Returns(old[1], old[1 + 1])
      BY <1>2, <3>1 DEF StackFits
    <3> QED BY <1>1, <3>1, <3>2 DEF MayReplace, Returns
  <2>3. CASE i > m
    <3>1. i - m + 1 \in 1 .. n - 1 /\ (i + 1) - m + 1 = (i - m + 1) + 1
      BY <2>3
    <3>2. new[i] = old[i - m + 1] /\ new[i + 1] = old[(i - m + 1) + 1]
      BY <1>3, <2>0, <2>3, <3>1
    <3> QED BY <1>2, <3>1, <3>2 DEF StackFits
  <2> QED BY <2>1, <2>2, <2>3
<1> QED BY <1>3, <1>4, <1>5 DEF StackFits

\* f and g are the frames at the bottom of what is replaced and what replaces it.
LEMMA TempStep ==
  ASSUME NEW old \in Seq(Frames), old # <<>>, NEW f, f = old[1],
         NEW u, Len(u) \in Nat, MayReplace(u, f), NEW new, Replaced(old, new, u),
         NEW g, IF Len(u) > 0 THEN g = u[Len(u)] ELSE ~IsBuilder(g),
         NEW a, Len(a) \in Nat, NEW b, Len(b) \in Nat,
         IsBuilder(f) => f.base \in Nat /\ f.base <= Len(a),
         ArenaFollows(a, b, f, g), TempFits(old, a)
  PROVE  TempFits(new, b)
<1>1. PICK m \in Nat : m = Len(u)
  OBVIOUS
<1>2. PICK n \in Nat : n = Len(old) /\ n >= 1
  OBVIOUS
<1>3. /\ Len(new) = m + n - 1
      /\ \A i \in 1 .. m + n - 1 : new[i] = IF i <= m THEN u[i] ELSE old[i - m + 1]
  BY <1>1, <1>2 DEF Replaced
<1>4. SUFFICES ASSUME NEW i \in 1 .. m + n - 1, NEW k \in 1 .. Len(b), Holder(new, i, k)
               PROVE  Gives(new[i], b[k])
  BY <1>3 DEF TempFits
<1>5. CASE i <= m
  <2>1. new[i] = u[i] /\ IsBuilder(u[i])
    BY <1>3, <1>4, <1>5 DEF Holder
  <2>2. i = m
    BY <1>1, <1>5, <2>1 DEF MayReplace
  <2>3. new[i] = g /\ IsBuilder(g) /\ g.base < k
    BY <1>1, <1>4, <2>1, <2>2 DEF Holder
  <2>4. CASE Gives(g, b[k])
    BY <2>3, <2>4
  <2>5. CASE k <= Len(a) /\ IsBuilder(f) /\ f.base = g.base
    <3>1. Holder(old, 1, k)
      BY <2>3, <2>5 DEF Holder
    <3>2. Gives(f, a[k])
      BY <1>2, <2>5, <3>1 DEF TempFits
    <3>3. b[k] = a[k]
      BY <2>5 DEF ArenaFollows
    <3>4. ParsesExpression(f) <=> ParsesExpression(g)
      BY <1>1, <2>2, <2>3 DEF MayReplace
    <3> QED BY <2>3, <3>2, <3>3, <3>4 DEF Gives
  <2> QED BY <2>3, <2>4, <2>5 DEF ArenaFollows
<1>6. CASE i > m
  <2>1. PICK j : j = i - m + 1
    OBVIOUS
  <2>2. j \in 2 .. n /\ new[i] = old[j]
    BY <1>3, <1>6, <2>1
  <2>3. ASSUME IsBuilder(f) PROVE k <= f.base
    <3>1. CASE IsBuilder(g) /\ f.base = g.base
      <4>1. m > 0 /\ new[m] = g /\ m \in 1 .. i - 1
        BY <1>1, <1>3, <1>6, <3>1
      <4> QED BY <1>4, <3>1, <4>1 DEF Holder
    <3>2. CASE Len(b) <= f.base
      BY <2>3, <3>2
    <3> QED BY <2>3, <3>1, <3>2 DEF ArenaFollows
  <2>4. k <= Len(a)
    BY <2>3 DEF ArenaFollows
  <2>5. ASSUME NEW h \in 1 .. j - 1, IsBuilder(old[h]) PROVE k <= old[h].base
    <3>1. CASE h = 1
      BY <2>3, <2>5, <3>1
    <3>2. CASE h > 1
      <4>1. h + m - 1 \in 1 .. i - 1 /\ h + m - 1 > m /\ (h + m - 1) - m + 1 = h
        BY <2>1, <2>2, <3>2
      <4>2. new[h + m - 1] = old[h]
        BY <1>3, <4>1
      <4> QED BY <1>4, <2>5, <4>1, <4>2 DEF Holder
    <3> QED BY <2>2, <3>1, <3>2
  <2>6. Holder(old, j, k)
    BY <1>4, <2>2, <2>5 DEF Holder
  <2>7. Gives(old[j], a[k])
    BY <1>2, <2>2, <2>4, <2>6 DEF TempFits
  <2> QED BY <2>2, <2>4, <2>7 DEF ArenaFollows
<1> QED BY <1>5, <1>6
LEMMA FitConcat ==
  ASSUME NEW s \in Seq(Nodes), NEW t \in Seq(Nodes)
  PROVE  /\ AllFitExpression(s) /\ AllFitExpression(t) => AllFitExpression(s \o t)
         /\ AllFitStatement(s) /\ AllFitStatement(t) => AllFitStatement(s \o t)
<1>1. PICK m \in Nat : m = Len(s)
  OBVIOUS
<1>2. PICK n \in Nat : n = Len(t)
  OBVIOUS
<1>3. /\ Len(s \o t) = m + n
      /\ \A i \in 1 .. m + n : (s \o t)[i] = IF i <= m THEN s[i] ELSE t[i - m]
  BY <1>1, <1>2, ConcatAny
<1>4. \A i \in 1 .. m + n : i <= m \/ i - m \in 1 .. n
  OBVIOUS
<1>5. ASSUME AllFitExpression(s), AllFitExpression(t), NEW i \in 1 .. m + n
      PROVE  FitsExpression((s \o t)[i])
  <2>1. CASE i <= m
    <3>1. (s \o t)[i] = s[i] /\ i \in 1 .. m
      BY <1>3, <2>1
    <3> QED BY <1>1, <1>5, <3>1 DEF AllFitExpression
  <2>2. CASE i > m
    <3>1. (s \o t)[i] = t[i - m] /\ i - m \in 1 .. n
      BY <1>3, <2>2
    <3> QED BY <1>2, <1>5, <3>1 DEF AllFitExpression
  <2>3. i <= m \/ i > m
    OBVIOUS
  <2> QED BY ONLY <2>1, <2>2, <2>3
<1>6. ASSUME AllFitStatement(s), AllFitStatement(t), NEW i \in 1 .. m + n
      PROVE  FitsStatement((s \o t)[i])
  <2>1. CASE i <= m
    <3>1. (s \o t)[i] = s[i] /\ i \in 1 .. m
      BY <1>3, <2>1
    <3> QED BY <1>1, <1>6, <3>1 DEF AllFitStatement
  <2>2. CASE i > m
    <3>1. (s \o t)[i] = t[i - m] /\ i - m \in 1 .. n
      BY <1>3, <2>2
    <3> QED BY <1>2, <1>6, <3>1 DEF AllFitStatement
  <2>3. i <= m \/ i > m
    OBVIOUS
  <2> QED BY ONLY <2>1, <2>2, <2>3
<1> QED BY <1>3, <1>5, <1>6 DEF AllFitExpression, AllFitStatement

\* The step lemma: g is the frame that goes on, or one that is no builder.
LEMMA ShapesStep ==
  ASSUME IInv, IInv', ShapesInv, calls # <<>>,
         NEW S, NEW u \in Seq(S), Become(u), MayReplace(u, Top),
         IF Len(u) > 0 THEN Takes(u[1], result') ELSE Gives(Top, result'),
         NEW g, IF Len(u) > 0 THEN g = u[Len(u)] ELSE ~IsBuilder(g),
         ArenaFollows(temp, temp', Top, g),
         NEW to, NEW errors, NEW exprs \in NodeSeqs, NEW stmts \in NodeSeqs,
         Commit(to, errors, exprs, stmts), AllFitExpression(exprs), AllFitStatement(stmts)
  PROVE  ShapesInv'
<1>1. PICK old \in Seq(Frames) : old = calls /\ old # <<>> /\ Top = old[1]
  BY DEF IInv, TypeOK, Top
<1>2. PICK new \in Seq(Frames) : new = calls'
  BY DEF IInv, TypeOK
<1>3. PICK a \in Seq(Nodes) : a = temp
  BY DEF IInv, TypeOK
<1>4. PICK b \in Seq(Nodes) : b = temp'
  BY DEF IInv, TypeOK
<1>5. PICK r : r = result'
  OBVIOUS
<1>6. Replaced(old, new, u) /\ Len(u) \in Nat
  BY <1>1, <1>2, BecomeFact
<1>7. StackFits(new)
  <2>1. StackFits(old)
    BY <1>1 DEF ShapesInv
  <2> QED BY <1>1, <1>6, <2>1, StackStep
<1>8. TempFits(new, b)
  <2>1. PICK f : f = Top
    OBVIOUS
  <2>2. TempFits(old, a) /\ Len(a) \in Nat /\ Len(b) \in Nat
    BY <1>1, <1>3 DEF ShapesInv
  <2>3. IsBuilder(f) => f.base \in Nat /\ f.base <= Len(a)
    <3>1. IsBuilder(f) => /\ f.base \in Nat /\ f.count \in Nat
                          /\ f.base + f.count <= Len(a) /\ Len(a) \in Nat
      BY <1>3, <2>1, TopBuilderFact
    <3> QED BY <3>1
  <2>4. ArenaFollows(a, b, f, g) /\ MayReplace(u, f) /\ f = old[1]
    BY <1>1, <1>3, <1>4, <2>1
  <2> QED BY <1>1, <1>6, <2>2, <2>3, <2>4, TempStep
<1>9. ASSUME new # <<>> PROVE Takes(new[1], r)
  <2>1. 1 \in 1 .. Len(new)
    BY <1>2, <1>9
  <2>2. CASE Len(u) > 0
    <3>1. new[1] = u[1]
      BY <1>6, <2>1, <2>2 DEF Replaced
    <3> QED BY <1>5, <2>2, <3>1
  <2>3. CASE Len(u) = 0
    <3>1. new[1] = old[1 + 1] /\ 1 \in 1 .. Len(old) - 1
      BY <1>1, <1>6, <2>1, <2>3 DEF Replaced
    <3>2. Returns(old[1], old[1 + 1])
      BY <1>1, <3>1 DEF ShapesInv, StackFits
    <3>3. Gives(old[1], r)
      BY <1>1, <1>5, <2>3
    <3> QED BY <3>1, <3>2, <3>3 DEF Returns, Gives, Takes, ExpressionConsumers, StatementConsumers
  <2> QED BY <1>6, <2>2, <2>3
<1>10. AllFitExpression(expressions') /\ AllFitStatement(statements')
  <2>1. expressions' = expressions \o exprs /\ statements' = statements \o stmts
    BY DEF Commit
  <2>2. AllFitExpression(expressions) /\ AllFitStatement(statements)
    BY DEF ShapesInv
  <2>3. /\ expressions \in Seq(Nodes) /\ statements \in Seq(Nodes)
        /\ exprs \in Seq(Nodes) /\ stmts \in Seq(Nodes)
    BY DEF IInv, TypeOK, NodeSeqs
  <2> QED BY <2>1, <2>2, <2>3, FitConcat
<1> QED BY <1>2, <1>4, <1>5, <1>7, <1>8, <1>9, <1>10 DEF ShapesInv, Top
LEMMA ShapesReturn ==
  ASSUME IInv, IInv', ShapesInv, calls # <<>>, Become(<<>>), Gives(Top, result'),
         NEW g, ~IsBuilder(g), ArenaFollows(temp, temp', Top, g),
         NEW to, NEW errors, NEW exprs \in NodeSeqs, NEW stmts \in NodeSeqs,
         Commit(to, errors, exprs, stmts), AllFitExpression(exprs), AllFitStatement(stmts)
  PROVE  ShapesInv'
<1>1. PICK u : u = <<>>
  OBVIOUS
<1>2. u \in Seq({}) /\ Len(u) = 0 /\ Become(u)
  BY <1>1
<1>3. MayReplace(u, Top)
  BY <1>2 DEF MayReplace
<1>4. /\ IF Len(u) > 0 THEN Takes(u[1], result') ELSE Gives(Top, result')
      /\ IF Len(u) > 0 THEN g = u[Len(u)] ELSE ~IsBuilder(g)
  BY <1>2
<1> QED BY <1>2, <1>3, <1>4, ShapesStep

LEMMA ShapesOne ==
  ASSUME IInv, IInv', ShapesInv, calls # <<>>, NEW f, Become(<<f>>),
         FrameFits(f), ParsesExpression(f) <=> ParsesExpression(Top), Takes(f, result'),
         ArenaFollows(temp, temp', Top, f),
         NEW to, NEW errors, NEW exprs \in NodeSeqs, NEW stmts \in NodeSeqs,
         Commit(to, errors, exprs, stmts), AllFitExpression(exprs), AllFitStatement(stmts)
  PROVE  ShapesInv'
<1>1. PICK u : u = <<f>>
  OBVIOUS
<1>2. u \in Seq({f}) /\ Len(u) = 1 /\ u[1] = f /\ Become(u)
  BY <1>1
<1>3. MayReplace(u, Top)
  BY <1>2 DEF MayReplace
<1>4. /\ IF Len(u) > 0 THEN Takes(u[1], result') ELSE Gives(Top, result')
      /\ IF Len(u) > 0 THEN f = u[Len(u)] ELSE ~IsBuilder(f)
  BY <1>2
<1> QED BY <1>2, <1>3, <1>4, ShapesStep

LEMMA ShapesTwo ==
  ASSUME IInv, IInv', ShapesInv, calls # <<>>, NEW e, NEW f, Become(<<e, f>>),
         FrameFits(e), FrameFits(f), Returns(e, f), ~IsBuilder(e),
         ParsesExpression(f) <=> ParsesExpression(Top), Takes(e, result'),
         ArenaFollows(temp, temp', Top, f),
         NEW to, NEW errors, NEW exprs \in NodeSeqs, NEW stmts \in NodeSeqs,
         Commit(to, errors, exprs, stmts), AllFitExpression(exprs), AllFitStatement(stmts)
  PROVE  ShapesInv'
<1>1. PICK u : u = <<e, f>>
  OBVIOUS
<1>2. u \in Seq({e, f}) /\ Len(u) = 2 /\ u[1] = e /\ u[2] = f /\ Become(u)
  BY <1>1
<1>3. MayReplace(u, Top)
  BY <1>2 DEF MayReplace
<1>4. /\ IF Len(u) > 0 THEN Takes(u[1], result') ELSE Gives(Top, result')
      /\ IF Len(u) > 0 THEN f = u[Len(u)] ELSE ~IsBuilder(f)
  BY <1>2
<1> QED BY <1>2, <1>3, <1>4, ShapesStep

LEMMA ShapesThree ==
  ASSUME IInv, IInv', ShapesInv, calls # <<>>,
         NEW f, NEW min, Become(ExpressionCall(min) \o <<f>>),
         FrameFits(f), f.at \in ExpressionConsumers,
         ParsesExpression(f) <=> ParsesExpression(Top),
         ArenaFollows(temp, temp', Top, f),
         NEW to, NEW errors, NEW exprs \in NodeSeqs, NEW stmts \in NodeSeqs,
         Commit(to, errors, exprs, stmts), AllFitExpression(exprs), AllFitStatement(stmts)
  PROVE  ShapesInv'
<1>1. PICK d : d = [at |-> "operand"]
  OBVIOUS
<1>2. PICK e : e = [at |-> "operators", min |-> min]
  OBVIOUS
<1>3. d.at = "operand" /\ e.at = "operators"
  BY <1>1, <1>2
<1>0. PICK u : u = ExpressionCall(min) \o <<f>>
  OBVIOUS
<1>4. /\ u \in Seq({d, e, f}) /\ Len(u) = 3 /\ u[1] = d /\ u[2] = e /\ u[3] = f
      /\ Become(u)
  BY <1>0, <1>1, <1>2 DEF ExpressionCall
<1>5. /\ FrameFits(d) /\ FrameFits(e) /\ ~IsBuilder(d) /\ ~IsBuilder(e)
      /\ Returns(d, e) /\ Returns(e, f) /\ Takes(d, result')
  BY <1>3 DEF FrameFits, IsBuilder, BuilderLabels, Returns, ParsesExpression, ExpressionLabels,
              ExpressionConsumers, StatementConsumers, Takes
<1>6. MayReplace(u, Top)
  <2>1. \A i \in 1 .. 3 : i = 1 \/ i = 2 \/ i = 3
    OBVIOUS
  <2> QED BY <1>4, <1>5, <2>1 DEF MayReplace
<1>7. /\ IF Len(u) > 0 THEN Takes(u[1], result') ELSE Gives(Top, result')
      /\ IF Len(u) > 0 THEN f = u[Len(u)] ELSE ~IsBuilder(f)
  BY <1>4, <1>5
<1> QED BY <1>4, <1>6, <1>7, ShapesStep

LEMMA ArenaStays ==
  ASSUME IInv, ~IsBuilder(Top), temp' = temp, NEW g, ~IsBuilder(g)
  PROVE  ArenaFollows(temp, temp', Top, g)
<1>1. Len(temp) \in Nat
  BY DEF IInv, TypeOK
<1> QED BY <1>1 DEF ArenaFollows

LEMMA NothingFits ==
  <<>> \in NodeSeqs /\ AllFitExpression(<<>>) /\ AllFitStatement(<<>>)
BY DEF NodeSeqs, AllFitExpression, AllFitStatement

LEMMA OneFits ==
  ASSUME NEW node \in Nodes
  PROVE  /\ <<node>> \in NodeSeqs
         /\ FitsExpression(node) => AllFitExpression(<<node>>)
         /\ FitsStatement(node) => AllFitStatement(<<node>>)
BY DEF NodeSeqs, AllFitExpression, AllFitStatement

LEMMA BothFit ==
  ASSUME NEW node \in Nodes, NEW node2 \in Nodes, FitsExpression(node), FitsExpression(node2)
  PROVE  <<node, node2>> \in NodeSeqs /\ AllFitExpression(<<node, node2>>)
BY DEF NodeSeqs, AllFitExpression

\* What the step does to the arena and the result, where a function other than
\* function() and no builder is on top.
LEMMA AtShapes ==
  ASSUME IInv, ShapesInv, NEW label, At(label)
  PROVE  /\ calls # <<>> /\ calls \in Seq(Frames) /\ Top.at = label /\ Top \in Frames
         /\ FrameFits(Top) /\ result \in Nodes
         /\ label \in ExpressionConsumers => FitsExpression(result)
         /\ label \in StatementConsumers => FitsStatement(result)
         /\ label \in ExpressionLabels <=> ParsesExpression(Top)
         /\ label \in BuilderLabels <=> IsBuilder(Top)
<1>1. /\ calls # <<>> /\ calls \in Seq(Frames) /\ Top.at = label /\ result \in Nodes
      /\ 1 \in 1 .. Len(calls)
  BY DEF At, IInv, TypeOK
<1>2. Top \in Frames /\ FrameFits(Top)
  BY <1>1 DEF Top, ShapesInv, StackFits
<1>3. Takes(Top, result)
  BY <1>1 DEF ShapesInv
<1> QED BY <1>1, <1>2, <1>3 DEF Takes, ParsesExpression, IsBuilder

\* Nodes made where they are returned.
LEMMA ShapeFact ==
  ASSUME NEW kind, NEW start, NEW end
  PROVE  /\ kind \in {"missing", "int_literal", "variable"} =>
              \A data : FitsExpression(Node(kind, data, start, end))
         /\ kind = "missing" => \A data : FitsStatement(Node(kind, data, start, end))
         /\ kind \in {"address_of", "dereference"} =>
              \A x : FitsExpression(Node(kind, <<x>>, start, end))
         /\ kind \in BinaryOperators \cup {"index", "array_literal"} =>
              \A x, y : FitsExpression(Node(kind, <<x, y>>, start, end))
         /\ kind = "return" => \A x : FitsStatement(Node(kind, <<x>>, start, end))
         /\ kind \in {"assign", "local_definition", "while", "block"} =>
              \A x, y : FitsStatement(Node(kind, <<x, y>>, start, end))
         /\ kind = "if" => \A x, y, z : y # NoNode =>
              FitsStatement(Node(kind, <<x, y, z>>, start, end))
<1>1. \A data : Node(kind, data, start, end).kind = kind /\ Node(kind, data, start, end).data = data
  BY DEF Node
<1>2. \A x, y, z : Len(<<x>>) = 1 /\ Len(<<x, y>>) = 2 /\ Len(<<x, y, z>>) = 3 /\ <<x, y, z>>[2] = y
  OBVIOUS
<1>3. kind \in {"missing", "int_literal", "variable"} =>
        \A data : FitsExpression(Node(kind, data, start, end))
  BY <1>1 DEF FitsExpression, BinaryOperators
<1>4. kind = "missing" => \A data : FitsStatement(Node(kind, data, start, end))
  BY <1>1 DEF FitsStatement
<1>5. kind \in {"address_of", "dereference"} =>
        \A x : FitsExpression(Node(kind, <<x>>, start, end))
  BY <1>1, <1>2 DEF FitsExpression, BinaryOperators
<1>6. kind \in BinaryOperators \cup {"index", "array_literal"} =>
        \A x, y : FitsExpression(Node(kind, <<x, y>>, start, end))
  BY <1>1, <1>2 DEF FitsExpression, BinaryOperators
<1>7. kind = "return" => \A x : FitsStatement(Node(kind, <<x>>, start, end))
  BY <1>1, <1>2 DEF FitsStatement
<1>8. kind \in {"assign", "local_definition", "while", "block"} =>
        \A x, y : FitsStatement(Node(kind, <<x, y>>, start, end))
  BY <1>1, <1>2 DEF FitsStatement
<1>9. kind = "if" => \A x, y, z : y # NoNode =>
        FitsStatement(Node(kind, <<x, y, z>>, start, end))
  BY <1>1, <1>2 DEF FitsStatement
<1> QED BY <1>3, <1>4, <1>5, <1>6, <1>7, <1>8, <1>9
------------------------------------------------------------------------------
(* Steps that leave the builders alone, by how they end.                   *)

LEMMA PlainReturn ==
  ASSUME IInv, IInv', ShapesInv, NEW label, At(label), label \notin BuilderLabels,
         NEW value, Return(value),
         IF label \in ExpressionLabels THEN FitsExpression(value) ELSE FitsStatement(value),
         NEW to, NEW errors, NEW exprs \in NodeSeqs, NEW stmts \in NodeSeqs,
         Commit(to, errors, exprs, stmts), AllFitExpression(exprs), AllFitStatement(stmts)
  PROVE  ShapesInv'
<1>1. PICK g : g = [at |-> "postfix"]
  OBVIOUS
<1>2. ~IsBuilder(g)
  BY <1>1 DEF IsBuilder, BuilderLabels
<1>3. /\ calls # <<>> /\ ~IsBuilder(Top) /\ Gives(Top, result') /\ Become(<<>>)
      /\ temp' = temp
  BY AtShapes DEF Return, ReturnTo, Gives
<1>4. ArenaFollows(temp, temp', Top, g)
  BY <1>2, <1>3, ArenaStays
<1> QED BY <1>2, <1>3, <1>4, ShapesReturn

LEMMA PlainOperand ==
  ASSUME IInv, IInv', ShapesInv, NEW label, At(label), label \in ExpressionLabels \ BuilderLabels,
         NEW value, Operand(value), FitsExpression(value),
         NEW to, NEW errors, NEW exprs \in NodeSeqs,
         Commit(to, errors, exprs, <<>>), AllFitExpression(exprs)
  PROVE  ShapesInv'
<1>1. PICK f : f = [at |-> "postfix"]
  OBVIOUS
<1>2. ~IsBuilder(f) /\ ParsesExpression(f) /\ FrameFits(f) /\ (FitsExpression(value) => Takes(f, value))
  BY <1>1 DEF IsBuilder, BuilderLabels, ParsesExpression, ExpressionLabels, FrameFits, Takes,
              StatementConsumers
<1>3. /\ calls # <<>> /\ ~IsBuilder(Top) /\ ParsesExpression(Top) /\ Become(<<f>>)
      /\ temp' = temp /\ result' = value
  BY <1>1, AtShapes DEF Operand, ReturnTo
<1>4. ArenaFollows(temp, temp', Top, f)
  BY <1>2, <1>3, ArenaStays
<1> QED BY <1>2, <1>3, <1>4, ShapesOne, NothingFits

\* A function goes on, and nothing takes the result.
LEMMA PlainOne ==
  ASSUME IInv, IInv', ShapesInv, NEW label, At(label), label \notin BuilderLabels,
         NEW f, Become(<<f>>), temp' = temp, FrameFits(f), ~IsBuilder(f), Takes(f, result'),
         ParsesExpression(f) <=> label \in ExpressionLabels,
         NEW to, NEW errors, NEW exprs \in NodeSeqs,
         Commit(to, errors, exprs, <<>>), AllFitExpression(exprs)
  PROVE  ShapesInv'
<1>1. calls # <<>> /\ ~IsBuilder(Top) /\ (ParsesExpression(f) <=> ParsesExpression(Top))
  BY AtShapes
<1>2. ArenaFollows(temp, temp', Top, f)
  BY <1>1, ArenaStays
<1> QED BY <1>1, <1>2, ShapesOne, NothingFits

\* A function calls statement(), blockStatement() or expressionLhs().
LEMMA PlainTwo ==
  ASSUME IInv, IInv', ShapesInv, NEW label, At(label), label \notin BuilderLabels,
         NEW e, NEW f, Become(<<e, f>>), temp' = temp, FrameFits(f), ~IsBuilder(f),
         \/ /\ e.at = "operand" /\ f.at \in ExpressionConsumers
         \/ /\ e.at \in {"statement", "block"} /\ f.at \in StatementConsumers,
         ParsesExpression(f) <=> label \in ExpressionLabels,
         NEW to, NEW errors, NEW exprs \in NodeSeqs, NEW stmts \in NodeSeqs,
         Commit(to, errors, exprs, stmts), AllFitExpression(exprs), AllFitStatement(stmts)
  PROVE  ShapesInv'
<1>1. calls # <<>> /\ ~IsBuilder(Top) /\ (ParsesExpression(f) <=> ParsesExpression(Top))
  BY AtShapes
<1>2. ArenaFollows(temp, temp', Top, f)
  BY <1>1, ArenaStays
<1>3. FrameFits(e) /\ ~IsBuilder(e) /\ Takes(e, result') /\ Returns(e, f)
  BY DEF FrameFits, IsBuilder, BuilderLabels, Takes, Returns, ParsesExpression,
         ExpressionLabels, ExpressionConsumers, StatementConsumers
<1> QED BY <1>1, <1>2, <1>3, ShapesTwo

\* A function calls expression().
LEMMA PlainThree ==
  ASSUME IInv, IInv', ShapesInv, NEW label, At(label), label \notin BuilderLabels,
         NEW f, NEW min, Become(ExpressionCall(min) \o <<f>>), temp' = temp,
         FrameFits(f), f.at \in ExpressionConsumers \ BuilderLabels,
         ParsesExpression(f) <=> label \in ExpressionLabels,
         NEW to, NEW errors, NEW exprs \in NodeSeqs,
         Commit(to, errors, exprs, <<>>), AllFitExpression(exprs)
  PROVE  ShapesInv'
<1>1. calls # <<>> /\ ~IsBuilder(Top) /\ (ParsesExpression(f) <=> ParsesExpression(Top))
  BY AtShapes
<1>2. ~IsBuilder(f)
  BY DEF IsBuilder
<1>3. ArenaFollows(temp, temp', Top, f)
  BY <1>1, <1>2, ArenaStays
<1> QED BY <1>1, <1>3, ShapesThree, NothingFits
------------------------------------------------------------------------------
(* Each action.                                                            *)

LEMMA OperandShapes ==
  ASSUME IInv, IInv', ShapesInv,
         \/ Literal \/ BeginPrefix \/ EndPrefix \/ BeginParentheses \/ EndParentheses
         \/ BeginIndex \/ EndIndex \/ EndOperand \/ MissingOperand
  PROVE  ShapesInv'
<1>0. <<>> \in NodeSeqs /\ AllFitExpression(<<>>) /\ AllFitStatement(<<>>)
  BY NothingFits
<1>1. CASE Literal
  <2>1. PICK kind, data, start, end, to :
          /\ At("operand") /\ kind \in {"int_literal", "variable"}
          /\ Operand(Node(kind, data, start, end)) /\ Commit(to, <<>>, <<>>, <<>>)
    BY <1>1 DEF Literal, Advance
  <2>2. PICK value : value = Node(kind, data, start, end)
    OBVIOUS
  <2>3. FitsExpression(value)
    BY <2>1, <2>2, ShapeFact
  <2> QED BY <1>0, <2>1, <2>2, <2>3, PlainOperand DEF ExpressionLabels, BuilderLabels
<1>2. CASE BeginPrefix
  <2>0. PICK e : e = [at |-> "operand"]
    OBVIOUS
  <2>1. PICK f, to :
          /\ At("operand") /\ f.at = "prefix"
          /\ Become(<<e, f>>) /\ temp' = temp /\ Commit(to, <<>>, <<>>, <<>>)
    <3>1. PICK f : f = [at |-> "prefix", start |-> SpanStart(cursor),
                        kind |-> IF Kind(cursor) = "&" THEN "address_of" ELSE "dereference"]
      OBVIOUS
    <3>2. At("operand") /\ Call(<<e, f>>) /\ Commit(cursor + 1, <<>>, <<>>, <<>>)
      BY <1>2, <2>0, <3>1 DEF BeginPrefix, Advance
    <3>3. f.at = "prefix"
      BY <3>1
    <3> QED BY <3>2, <3>3 DEF Call
  <2>2. /\ f.at \in ExpressionConsumers /\ ~IsBuilder(f) /\ FrameFits(f) /\ ParsesExpression(f)
        /\ "operand" \in ExpressionLabels \ BuilderLabels
    BY <2>1 DEF ExpressionConsumers, IsBuilder, BuilderLabels, FrameFits, ParsesExpression,
                ExpressionLabels
  <2> QED BY <1>0, <2>0, <2>1, <2>2, PlainTwo
<1>3. CASE EndPrefix
  <2>1. PICK value : value = Node(Top.kind, <<NextExpression>>, Top.start, EndOf(cursor))
    OBVIOUS
  <2>2. /\ At("prefix") /\ Operand(value) /\ Commit(cursor, <<>>, <<result>>, <<>>)
    BY <1>3, <2>1 DEF EndPrefix, AllocateExpressions
  <2>3. FitsExpression(result) /\ result \in Nodes /\ Top.kind \in {"address_of", "dereference"}
    <3>1. FitsExpression(result) /\ result \in Nodes /\ Top \in Frames /\ Top.at = "prefix"
      BY <2>2, AtShapes DEF ExpressionConsumers
    <3>2. Top.kind \in {"address_of", "dereference"}
      BY <3>1 DEF Frames
    <3> QED BY <3>1, <3>2
  <2>4. FitsExpression(value)
    BY <2>1, <2>3, ShapeFact
  <2>5. <<result>> \in NodeSeqs /\ AllFitExpression(<<result>>)
    BY <2>3, OneFits
  <2> QED BY <2>2, <2>4, <2>5, PlainOperand DEF ExpressionLabels, BuilderLabels
<1>4. CASE BeginParentheses
  <2>1. PICK f, to :
          /\ At("operand") /\ f = [at |-> "parentheses"]
          /\ Become(ExpressionCall(0) \o <<f>>) /\ temp' = temp /\ Commit(to, <<>>, <<>>, <<>>)
    BY <1>4 DEF BeginParentheses, Advance, Call
  <2>2. /\ f.at \in ExpressionConsumers \ BuilderLabels /\ FrameFits(f) /\ ParsesExpression(f)
        /\ "operand" \in ExpressionLabels \ BuilderLabels
    BY <2>1 DEF ExpressionConsumers, BuilderLabels, FrameFits, ParsesExpression, ExpressionLabels
  <2> QED BY <1>0, <2>1, <2>2, PlainThree
<1>5. CASE EndParentheses
  <2>1. PICK to, errors, value :
          /\ At("parentheses") /\ value = [result EXCEPT !.end = EndOf(to)]
          /\ Operand(value) /\ Commit(to, errors, <<>>, <<>>)
    BY <1>5 DEF EndParentheses
  <2>2. FitsExpression(result) /\ result \in Nodes
    BY <2>1, AtShapes DEF ExpressionConsumers
  <2>3. value.kind = result.kind /\ value.data = result.data
    BY <2>1, <2>2 DEF Nodes
  <2>4. FitsExpression(value)
    BY <2>2, <2>3 DEF FitsExpression
  <2> QED BY <1>0, <2>1, <2>4, PlainOperand DEF ExpressionLabels, BuilderLabels
<1>6. CASE BeginIndex
  <2>1. PICK f, to :
          /\ At("postfix") /\ f = [at |-> "index", array |-> result]
          /\ Become(ExpressionCall(0) \o <<f>>) /\ temp' = temp /\ Commit(to, <<>>, <<>>, <<>>)
    BY <1>6 DEF BeginIndex, Advance, Call
  <2>2. FitsExpression(result)
    BY <2>1, AtShapes DEF ExpressionConsumers
  <2>3. /\ f.at \in ExpressionConsumers \ BuilderLabels /\ FrameFits(f) /\ ParsesExpression(f)
        /\ "postfix" \in ExpressionLabels \ BuilderLabels
    BY <2>1, <2>2 DEF ExpressionConsumers, BuilderLabels, FrameFits, ParsesExpression,
                      ExpressionLabels
  <2> QED BY <1>0, <2>1, <2>3, PlainThree
<1>7. CASE EndIndex
  <2>1. PICK to, errors, value :
          /\ At("index") /\ Operand(value) /\ Commit(to, errors, <<result, Top.array>>, <<>>)
          /\ value = Node("index", <<NextExpression + 1, NextExpression>>,
                          Top.array.start, EndOf(to))
    BY <1>7 DEF EndIndex
  <2>2. /\ FitsExpression(result) /\ result \in Nodes
        /\ FitsExpression(Top.array) /\ Top.array \in Nodes
    <3>1. /\ FitsExpression(result) /\ result \in Nodes
          /\ Top \in Frames /\ Top.at = "index" /\ FrameFits(Top)
      BY <2>1, AtShapes DEF ExpressionConsumers
    <3> QED BY <3>1, FrameFields DEF FrameFits
  <2>3. <<result, Top.array>> \in NodeSeqs /\ AllFitExpression(<<result, Top.array>>)
    BY <2>2, BothFit
  <2>4. FitsExpression(value)
    BY <2>1, ShapeFact
  <2> QED BY <2>1, <2>3, <2>4, PlainOperand DEF ExpressionLabels, BuilderLabels
<1>8. CASE EndOperand
  <2>1. At("postfix") /\ Return(result) /\ Commit(cursor, <<>>, <<>>, <<>>)
    BY <1>8 DEF EndOperand, Stay
  <2>2. FitsExpression(result)
    BY <2>1, AtShapes DEF ExpressionConsumers
  <2> QED BY <1>0, <2>1, <2>2, PlainReturn DEF ExpressionLabels, BuilderLabels
<1>9. CASE MissingOperand
  <2>1. PICK to, errors, value :
          /\ At("operand") /\ Operand(value) /\ Commit(to, errors, <<>>, <<>>)
          /\ value = Node("missing", <<>>, SpanStart(cursor), EndOf(to))
    BY <1>9 DEF MissingOperand
  <2>2. FitsExpression(value)
    BY <2>1, ShapeFact
  <2> QED BY <1>0, <2>1, <2>2, PlainOperand DEF ExpressionLabels, BuilderLabels
<1> QED BY <1>1, <1>2, <1>3, <1>4, <1>5, <1>6, <1>7, <1>8, <1>9
LEMMA OperatorShapes ==
  ASSUME IInv, IInv', ShapesInv, BeginRhs \/ EndRhs \/ EndExpression
  PROVE  ShapesInv'
<1>0. <<>> \in NodeSeqs /\ AllFitExpression(<<>>) /\ AllFitStatement(<<>>)
  BY NothingFits
<1>1. CASE BeginRhs
  <2>1. PICK f : f = [at |-> "rhs", min |-> Top.min, lhs |-> result, op |-> Kind(cursor)]
    OBVIOUS
  <2>2. PICK min : min = BindingPower[Kind(cursor)] + 1
    OBVIOUS
  <2>3. /\ At("operators") /\ Commit(cursor + 1, <<>>, <<>>, <<>>)
        /\ Become(ExpressionCall(min) \o <<f>>) /\ temp' = temp
    BY <1>1, <2>1, <2>2 DEF BeginRhs, Advance, Call
  <2>4. FitsExpression(result)
    BY <2>3, AtShapes DEF ExpressionConsumers
  <2>5. /\ f.at \in ExpressionConsumers \ BuilderLabels /\ FrameFits(f) /\ ParsesExpression(f)
        /\ "operators" \in ExpressionLabels \ BuilderLabels
    BY <2>1, <2>4 DEF ExpressionConsumers, BuilderLabels, FrameFits, ParsesExpression,
                      ExpressionLabels
  <2> QED BY <1>0, <2>3, <2>5, PlainThree
<1>2. CASE EndRhs
  <2>1. PICK value : value = Node(Top.op, <<NextExpression, NextExpression + 1>>,
                                  Top.lhs.start, EndOf(cursor))
    OBVIOUS
  <2>2. PICK f : f = [at |-> "operators", min |-> Top.min]
    OBVIOUS
  <2>3. /\ At("rhs") /\ Become(<<f>>) /\ result' = value /\ temp' = temp
        /\ Commit(cursor, <<>>, <<Top.lhs, result>>, <<>>)
    BY <1>2, <2>1, <2>2 DEF EndRhs, AllocateExpressions
  <2>4. /\ FitsExpression(result) /\ result \in Nodes
        /\ FitsExpression(Top.lhs) /\ Top.lhs \in Nodes /\ Top.op \in BinaryOperators
    <3>1. /\ FitsExpression(result) /\ result \in Nodes
          /\ Top \in Frames /\ Top.at = "rhs" /\ FrameFits(Top)
      BY <2>3, AtShapes DEF ExpressionConsumers
    <3> QED BY <3>1, FrameFields DEF FrameFits
  <2>5. <<Top.lhs, result>> \in NodeSeqs /\ AllFitExpression(<<Top.lhs, result>>)
    BY <2>4, BothFit
  <2>6. FitsExpression(value)
    BY <2>1, <2>4, ShapeFact
  <2>7. FrameFits(f) /\ ~IsBuilder(f) /\ Takes(f, value) /\ ParsesExpression(f)
    BY <2>2, <2>6 DEF FrameFits, IsBuilder, BuilderLabels, Takes, StatementConsumers,
                      ParsesExpression, ExpressionLabels
  <2> QED BY <2>3, <2>5, <2>7, PlainOne DEF ExpressionLabels, BuilderLabels
<1>3. CASE EndExpression
  <2>1. At("operators") /\ Return(result) /\ Commit(cursor, <<>>, <<>>, <<>>)
    BY <1>3 DEF EndExpression, Stay
  <2>2. FitsExpression(result)
    BY <2>1, AtShapes DEF ExpressionConsumers
  <2> QED BY <1>0, <2>1, <2>2, PlainReturn DEF ExpressionLabels, BuilderLabels
<1> QED BY <1>1, <1>2, <1>3

LEMMA CallShapes ==
  ASSUME IInv, IInv', ShapesInv,
         \/ BeginNotABlock \/ BeginStatement \/ BeginSetValue \/ BeginTrueBranch
         \/ BeginFalseBranch \/ BeginWhileBody \/ StatementIsBlock \/ BeginDefinition
  PROVE  ShapesInv'
<1>0. <<>> \in NodeSeqs /\ AllFitExpression(<<>>) /\ AllFitStatement(<<>>)
  BY NothingFits
<1> USE DEF Call
<1>1. CASE BeginNotABlock
  <2>1. PICK e : e = [at |-> "statement"]
    OBVIOUS
  <2>2. PICK f : f = [at |-> "not_a_block", start |-> SpanStart(cursor)]
    OBVIOUS
  <2>3. /\ At("block") /\ Commit(cursor, <<>>, <<>>, <<>>)
        /\ Become(<<e, f>>) /\ temp' = temp
    BY <1>1, <2>1, <2>2, CallsFact DEF BeginNotABlock, Stay
  <2>4. /\ e.at = "statement" /\ f.at \in StatementConsumers
        /\ FrameFits(f) /\ ~IsBuilder(f) /\ ~ParsesExpression(f)
        /\ "block" \notin ExpressionLabels \cup BuilderLabels
    BY <2>1, <2>2 DEF StatementConsumers, FrameFits, IsBuilder, BuilderLabels, ParsesExpression,
                      ExpressionLabels
  <2> QED BY <1>0, <2>3, <2>4, PlainTwo
<1>2. CASE BeginStatement
  <2>1. PICK f : f = [at |-> Kind(cursor), start |-> SpanStart(cursor)]
    OBVIOUS
  <2>2. /\ At("statement") /\ Commit(cursor + 1, <<>>, <<>>, <<>>)
        /\ Become(ExpressionCall(0) \o <<f>>) /\ temp' = temp
        /\ f.at \in {"return", "set", "if", "while"}
    BY <1>2, <2>1 DEF BeginStatement, Advance
  <2>3. /\ f.at \in ExpressionConsumers \ BuilderLabels /\ FrameFits(f) /\ ~ParsesExpression(f)
        /\ "statement" \notin ExpressionLabels \cup BuilderLabels
    BY <2>2 DEF ExpressionConsumers, BuilderLabels, FrameFits, ParsesExpression, ExpressionLabels
  <2> QED BY <1>0, <2>2, <2>3, PlainThree
<1>3. CASE BeginSetValue
  <2>1. PICK f : f = [at |-> "set_value", start |-> Top.start, lhs |-> NextExpression]
    OBVIOUS
  <2>2. PICK to, errors :
          /\ At("set") /\ Commit(to, errors, <<result>>, <<>>)
          /\ Become(ExpressionCall(0) \o <<f>>) /\ temp' = temp
    BY <1>3, <2>1 DEF BeginSetValue
  <2>3. /\ f.at \in ExpressionConsumers \ BuilderLabels /\ FrameFits(f) /\ ~ParsesExpression(f)
        /\ "set" \notin ExpressionLabels \cup BuilderLabels
    BY <2>1 DEF ExpressionConsumers, BuilderLabels, FrameFits, ParsesExpression, ExpressionLabels
  <2>4. <<result>> \in NodeSeqs /\ AllFitExpression(<<result>>)
    BY <2>2, AtShapes, OneFits DEF ExpressionConsumers
  <2> QED BY <2>2, <2>3, <2>4, PlainThree
<1>4. CASE BeginTrueBranch \/ BeginWhileBody
  <2>1. PICK e : e = [at |-> "block"]
    OBVIOUS
  <2>2. PICK f, label :
          /\ f.at \in {"true_branch", "while_body"} /\ label \in {"if", "while"}
          /\ At(label) /\ Commit(cursor, <<>>, <<result>>, <<>>)
          /\ Become(<<e, f>>) /\ temp' = temp
    <3>1. PICK f : f = [at |-> "true_branch", start |-> Top.start, condition |-> NextExpression]
      OBVIOUS
    <3>2. PICK g : g = [at |-> "while_body", start |-> Top.start, condition |-> NextExpression]
      OBVIOUS
    <3>3. f.at = "true_branch" /\ g.at = "while_body"
      BY <3>1, <3>2
    <3>4. /\ Commit(cursor, <<>>, <<result>>, <<>>) /\ temp' = temp
          /\ \/ At("if") /\ Become(<<e, f>>)
             \/ At("while") /\ Become(<<e, g>>)
      BY <1>4, <2>1, <3>1, <3>2, CallsFact DEF BeginTrueBranch, BeginWhileBody, AllocateExpressions
    <3> QED BY <3>3, <3>4
  <2>3. /\ e.at = "block" /\ f.at \in StatementConsumers
        /\ FrameFits(f) /\ ~IsBuilder(f) /\ ~ParsesExpression(f)
        /\ label \notin ExpressionLabels \cup BuilderLabels
    BY <2>1, <2>2 DEF StatementConsumers, FrameFits, IsBuilder, BuilderLabels, ParsesExpression,
                      ExpressionLabels
  <2>4. <<result>> \in NodeSeqs /\ AllFitExpression(<<result>>)
    BY <2>2, AtShapes, OneFits DEF ExpressionConsumers
  <2> QED BY <1>0, <2>2, <2>3, <2>4, PlainTwo
<1>5. CASE BeginFalseBranch
  <2>1. PICK e : e = [at |-> "block"]
    OBVIOUS
  <2>2. PICK f : f = [at |-> "false_branch", start |-> Top.start, condition |-> Top.condition,
                      true_block |-> NextStatement]
    OBVIOUS
  <2>3. /\ At("true_branch") /\ Commit(cursor + 1, <<>>, <<>>, <<result>>)
        /\ Become(<<e, f>>) /\ temp' = temp
    BY <1>5, <2>1, <2>2, CallsFact DEF BeginFalseBranch
  <2>4. NextStatement # NoNode
    BY DEF NextStatement, NoNode, IInv, TypeOK
  <2>5. /\ e.at = "block" /\ f.at \in StatementConsumers
        /\ FrameFits(f) /\ ~IsBuilder(f) /\ ~ParsesExpression(f)
        /\ "true_branch" \notin ExpressionLabels \cup BuilderLabels
    BY <2>1, <2>2, <2>4 DEF StatementConsumers, FrameFits, IsBuilder, BuilderLabels,
                            ParsesExpression, ExpressionLabels
  <2>6. <<result>> \in NodeSeqs /\ AllFitStatement(<<result>>)
    BY <2>3, AtShapes, OneFits DEF StatementConsumers
  <2> QED BY <1>0, <2>3, <2>5, <2>6, PlainTwo
<1>6. CASE StatementIsBlock
  <2>1. PICK f : f = [at |-> "block"]
    OBVIOUS
  <2>2. /\ At("statement") /\ Commit(cursor, <<>>, <<>>, <<>>)
        /\ Become(<<f>>) /\ temp' = temp
    BY <1>6, <2>1 DEF StatementIsBlock, AtStatement, BlockCall, Stay
  <2>3. /\ FrameFits(f) /\ ~IsBuilder(f) /\ ~ParsesExpression(f) /\ Takes(f, result')
        /\ "statement" \notin ExpressionLabels \cup BuilderLabels
    BY <2>1 DEF StatementConsumers, ExpressionConsumers, FrameFits, IsBuilder, BuilderLabels,
                ParsesExpression, ExpressionLabels, Takes
  <2> QED BY <1>0, <2>2, <2>3, PlainOne
<1>7. CASE BeginDefinition
  <2>1. PICK f : f = [at |-> "definition", start |-> SpanStart(cursor), name |-> cursor + 1]
    OBVIOUS
  <2>2. PICK to, errors :
          /\ At("statement") /\ Commit(to, errors, <<>>, <<>>)
          /\ Become(ExpressionCall(0) \o <<f>>) /\ temp' = temp
    BY <1>7, <2>1 DEF BeginDefinition, AtStatement
  <2>3. /\ f.at \in ExpressionConsumers \ BuilderLabels /\ FrameFits(f) /\ ~ParsesExpression(f)
        /\ "statement" \notin ExpressionLabels \cup BuilderLabels
    BY <2>1 DEF ExpressionConsumers, BuilderLabels, FrameFits, ParsesExpression, ExpressionLabels
  <2> QED BY <1>0, <2>2, <2>3, PlainThree
<1> QED BY <1>1, <1>2, <1>3, <1>4, <1>5, <1>6, <1>7

LEMMA ReturnShapes ==
  ASSUME IInv, IInv', ShapesInv,
         \/ EndNotABlock \/ EndReturn \/ EndSet \/ EndIfWithoutElse \/ EndIfElse
         \/ UnmatchedElse \/ EndWhile \/ EndDefinition \/ MissingStatement
  PROVE  ShapesInv'
<1>0. <<>> \in NodeSeqs /\ AllFitExpression(<<>>) /\ AllFitStatement(<<>>)
  BY NothingFits
<1>1. CASE EndNotABlock \/ UnmatchedElse \/ MissingStatement
  <2>1. PICK start, end, to, errors, label, value :
          /\ At(label) /\ label \in {"not_a_block", "statement"}
          /\ value = Node("missing", <<>>, start, end)
          /\ Return(value) /\ Commit(to, errors, <<>>, <<>>)
    BY <1>1 DEF EndNotABlock, UnmatchedElse, MissingStatement, AtStatement
  <2>2. FitsStatement(value)
    BY <2>1, ShapeFact
  <2> QED BY <1>0, <2>1, <2>2, PlainReturn DEF ExpressionLabels, BuilderLabels
<1>2. CASE EndReturn \/ EndSet \/ EndDefinition
  <2>1. PICK value, label :
          /\ label \in {"return", "set_value", "definition"} /\ At(label)
          /\ Return(value) /\ Commit(cursor, <<>>, <<result>>, <<>>)
          /\ \/ value = Node("return", <<NextExpression>>, Top.start, EndOf(cursor))
             \/ value = Node("assign", <<Top.lhs, NextExpression>>, Top.start, EndOf(cursor))
             \/ value = Node("local_definition", <<Top.name, NextExpression>>,
                             Top.start, EndOf(cursor))
    BY <1>2 DEF EndReturn, EndSet, EndDefinition, AllocateExpressions
  <2>2. FitsStatement(value)
    BY <2>1, ShapeFact
  <2>3. <<result>> \in NodeSeqs /\ AllFitExpression(<<result>>)
    BY <2>1, AtShapes, OneFits DEF ExpressionConsumers
  <2> QED BY <1>0, <2>1, <2>2, <2>3, PlainReturn DEF ExpressionLabels, BuilderLabels
<1>3. CASE EndIfWithoutElse \/ EndIfElse \/ EndWhile
  <2>1. PICK value, label :
          /\ label \in {"true_branch", "false_branch", "while_body"} /\ At(label)
          /\ Return(value) /\ Commit(cursor, <<>>, <<>>, <<result>>)
          /\ \/ value = Node("if", <<Top.condition, NextStatement, NoNode>>,
                             Top.start, EndOf(cursor))
             \/ label = "false_branch"
                /\ value = Node("if", <<Top.condition, Top.true_block, NextStatement>>,
                                Top.start, EndOf(cursor))
             \/ value = Node("while", <<Top.condition, NextStatement>>, Top.start, EndOf(cursor))
    BY <1>3 DEF EndIfWithoutElse, EndIfElse, EndWhile, AllocateStatement
  <2>2. NextStatement # NoNode /\ (label = "false_branch" => Top.true_block # NoNode)
    <3>1. NextStatement # NoNode
      BY DEF NextStatement, NoNode, IInv, TypeOK
    <3> QED BY <2>1, <3>1, AtShapes DEF FrameFits
  <2>3. FitsStatement(value)
    BY <2>1, <2>2, ShapeFact
  <2>4. <<result>> \in NodeSeqs /\ AllFitStatement(<<result>>)
    BY <2>1, AtShapes, OneFits DEF StatementConsumers
  <2> QED BY <1>0, <2>1, <2>3, <2>4, PlainReturn DEF ExpressionLabels, BuilderLabels
<1> QED BY <1>1, <1>2, <1>3
\* A builder that begins, waits or has got an element, and the arena.
LEMMA BeginBuilderShape ==
  ASSUME IInv, NEW f, f.base = Len(temp), ~IsBuilder(Top), temp' = temp
  PROVE  ArenaFollows(temp, temp', Top, f)
<1>1. Len(temp) \in Nat
  BY DEF IInv, TypeOK
<1> QED BY <1>1 DEF ArenaFollows

LEMMA WaitShape ==
  ASSUME IInv, calls # <<>>, IsBuilder(Top), NEW f, IsBuilder(f), f.base = Top.base, temp' = temp
  PROVE  ArenaFollows(temp, temp', Top, f)
<1>1. Len(temp) \in Nat /\ Top.base \in Nat
  BY TopBuilderFact
<1> QED BY <1>1 DEF ArenaFollows

LEMMA PushShape ==
  ASSUME IInv, calls # <<>>, IsBuilder(Top), NEW f, IsBuilder(f), f.base = Top.base,
         temp' = Append(temp, result), Gives(f, result)
  PROVE  ArenaFollows(temp, temp', Top, f)
<1>1. PICK a \in Seq(Nodes) : a = temp
  BY DEF IInv, TypeOK
<1>2. PICK n \in Nat : n = Len(a)
  BY <1>1
<1>3. PICK r \in Nodes : r = result
  BY DEF IInv, TypeOK
<1>4. PICK b : b = temp'
  OBVIOUS
<1>5. b = Append(a, r)
  BY <1>1, <1>3, <1>4
<1>6. Len(b) = n + 1 /\ b[n + 1] = r /\ \A k \in 1 .. n : b[k] = a[k]
  BY <1>2, <1>5
<1>7. ArenaFollows(a, b, Top, f)
  BY <1>2, <1>3, <1>6 DEF ArenaFollows
<1> QED BY <1>1, <1>4, <1>7

\* What is popped has been collected.
LEMMA PopShape ==
  ASSUME IInv, ShapesInv, calls # <<>>, IsBuilder(Top), NEW g, ~IsBuilder(g),
         temp' = SubSeq(temp, 1, Top.base)
  PROVE  /\ ArenaFollows(temp, temp', Top, g)
         /\ Built(Top) \in NodeSeqs
         /\ \A i \in 1 .. Len(Built(Top)) : Gives(Top, Built(Top)[i])
<1>1. PICK a \in Seq(Nodes) : a = temp
  BY DEF IInv, TypeOK
<1>2. PICK n \in Nat : n = Len(a)
  BY <1>1
<1>3. PICK base \in Nat : base = Top.base
  BY TopBuilderFact
<1>4. PICK count \in Nat : count = Top.count
  BY TopBuilderFact
<1>5. base + count <= n
  BY <1>1, <1>2, <1>3, <1>4, TopBuilderFact
<1>6. PICK b : b = temp'
  OBVIOUS
<1>7. Len(b) = base /\ \A k \in 1 .. base : b[k] = a[k]
  <2>1. b = SubSeq(a, 1, base) /\ base <= n
    BY <1>1, <1>3, <1>5, <1>6
  <2>2. Len(SubSeq(a, 1, base)) = base
    BY <1>2, <2>1
  <2>3. \A k \in 1 .. base : SubSeq(a, 1, base)[k] = a[k]
    BY <1>2, <2>1
  <2> QED BY <2>1, <2>2, <2>3
<1>8. ArenaFollows(a, b, Top, g)
  BY <1>2, <1>3, <1>5, <1>7 DEF ArenaFollows
<1>9. PICK built \in NodeSeqs : built = Built(Top)
  BY TopBuilderFact
<1>10. Len(built) = count /\ \A k \in 1 .. count : built[k] = a[base + k]
  <2>1. built = SubSeq(a, base + 1, base + count)
    BY <1>1, <1>3, <1>4, <1>9 DEF Built
  <2> QED BY <1>2, <1>5, <2>1
<1>11. ASSUME NEW i \in 1 .. count PROVE Gives(Top, a[base + i])
  <2>1. base + i \in 1 .. n /\ 1 \in 1 .. Len(calls)
    BY <1>5 DEF IInv, TypeOK
  <2>2. Holder(calls, 1, base + i)
    BY <1>3 DEF Holder, Top
  <2>3. TempFits(calls, a)
    BY <1>1 DEF ShapesInv
  <2>4. Gives(calls[1], a[base + i])
    BY <1>2, <2>1, <2>2, <2>3 DEF TempFits
  <2> QED BY <2>4 DEF Top
<1>12. \A i \in 1 .. Len(built) : Gives(Top, built[i])
  BY <1>10, <1>11
<1> QED BY <1>1, <1>6, <1>8, <1>9, <1>12

LEMMA BuilderShapes ==
  ASSUME IInv, IInv', ShapesInv,
         \/ BeginArray \/ BeginElement \/ EndElement \/ EndArray
         \/ BeginBlock \/ BeginBlockStatement \/ EndBlockStatement \/ EndBlock
  PROVE  ShapesInv'
<1>0. <<>> \in NodeSeqs /\ AllFitExpression(<<>>) /\ AllFitStatement(<<>>)
  BY NothingFits
<1>1. CASE BeginArray \/ BeginBlock
  <2>1. PICK f, to, label, l :
          /\ f = Builder(l, SpanStart(cursor)) /\ At(label)
          /\ \/ l = "array" /\ label = "operand"
             \/ l = "statements" /\ label = "block"
          /\ Call(<<f>>) /\ Commit(to, <<>>, <<>>, <<>>)
    BY <1>1 DEF BeginArray, BeginBlock, Advance
  <2>2. f.at = l /\ f.base = Len(temp)
    BY <2>1 DEF Builder
  <2>3. /\ calls # <<>> /\ ~IsBuilder(Top) /\ (ParsesExpression(f) <=> ParsesExpression(Top))
        /\ FrameFits(f) /\ Takes(f, result') /\ Become(<<f>>) /\ temp' = temp
    BY <2>1, <2>2, AtShapes DEF BuilderLabels, ParsesExpression, ExpressionLabels,
             FrameFits, Takes, ExpressionConsumers, StatementConsumers, Call
  <2>4. ArenaFollows(temp, temp', Top, f)
    BY <2>2, <2>3, BeginBuilderShape
  <2> QED BY <1>0, <2>1, <2>3, <2>4, ShapesOne
<1>2. CASE BeginElement
  <2>1. PICK f : f = [Top EXCEPT !.at = "element"]
    OBVIOUS
  <2>2. /\ At("array") /\ Commit(cursor, <<>>, <<>>, <<>>)
        /\ Become(ExpressionCall(0) \o <<f>>) /\ temp' = temp
    BY <1>2, <2>1 DEF BeginElement, Stay, Call
  <2>3. calls # <<>> /\ IsBuilder(Top) /\ ParsesExpression(Top)
    BY <2>2, AtShapes DEF ExpressionLabels, BuilderLabels
  <2>4. f.at = "element" /\ f.base = Top.base
    <3>1. Top \in BuilderFrame
      BY <2>3, TopBuilderFact
    <3> QED BY <2>1, <3>1 DEF BuilderFrame
  <2>5. /\ IsBuilder(f) /\ f.at \in ExpressionConsumers /\ FrameFits(f) /\ ParsesExpression(f)
    BY <2>4 DEF IsBuilder, BuilderLabels, ExpressionConsumers, FrameFits, ParsesExpression,
                ExpressionLabels
  <2>6. ArenaFollows(temp, temp', Top, f)
    BY <2>2, <2>3, <2>4, <2>5, WaitShape
  <2> QED BY <1>0, <2>2, <2>3, <2>5, <2>6, ShapesThree
<1>3. CASE BeginBlockStatement
  <2>1. PICK f : f = [Top EXCEPT !.at = "block_statement"]
    OBVIOUS
  <2>2. PICK e : e = [at |-> "statement"]
    OBVIOUS
  <2>3. /\ At("statements") /\ Commit(cursor, <<>>, <<>>, <<>>)
        /\ Become(<<e, f>>) /\ temp' = temp
    BY <1>3, <2>1, <2>2, CallsFact DEF BeginBlockStatement, Stay, Call
  <2>4. calls # <<>> /\ IsBuilder(Top) /\ ~ParsesExpression(Top)
    BY <2>3, AtShapes DEF ExpressionLabels, BuilderLabels
  <2>5. f.at = "block_statement" /\ f.base = Top.base
    <3>1. Top \in BuilderFrame
      BY <2>4, TopBuilderFact
    <3> QED BY <2>1, <3>1 DEF BuilderFrame
  <2>6. e.at = "statement"
    BY <2>2
  <2>7. /\ IsBuilder(f) /\ ~IsBuilder(e) /\ FrameFits(f) /\ FrameFits(e)
        /\ Returns(e, f) /\ Takes(e, result') /\ ~ParsesExpression(f)
    BY <2>5, <2>6 DEF IsBuilder, BuilderLabels, ExpressionConsumers, StatementConsumers,
                      FrameFits, ParsesExpression, ExpressionLabels, Returns, Takes
  <2>8. ArenaFollows(temp, temp', Top, f)
    BY <2>3, <2>4, <2>5, <2>7, WaitShape
  <2> QED BY <1>0, <2>3, <2>4, <2>7, <2>8, ShapesTwo
<1>4. CASE EndElement \/ EndBlockStatement
  <2>1. PICK to, errors, label, l, f :
          /\ f = Pushed(Top, l) /\ At(label)
          /\ \/ l = "array" /\ label = "element"
             \/ l = "statements" /\ label = "block_statement"
          /\ Commit(to, errors, <<>>, <<>>) /\ temp' = Append(temp, result)
          /\ Become(<<f>>)
    BY <1>4 DEF EndElement, EndBlockStatement, Stay
  <2>2. /\ calls # <<>> /\ IsBuilder(Top)
        /\ label = "element" => ParsesExpression(Top) /\ FitsExpression(result)
        /\ label = "block_statement" => ~ParsesExpression(Top) /\ FitsStatement(result)
    BY <2>1, AtShapes DEF ExpressionLabels, BuilderLabels, ExpressionConsumers, StatementConsumers
  <2>3. f.at = l /\ f.base = Top.base
    <3>1. Top \in BuilderFrame
      BY <2>2, TopBuilderFact
    <3> QED BY <2>1, <3>1 DEF BuilderFrame, Pushed
  <2>4. /\ IsBuilder(f) /\ FrameFits(f) /\ Takes(f, result')
        /\ ParsesExpression(f) <=> ParsesExpression(Top)
        /\ Gives(f, result)
    BY <2>1, <2>2, <2>3 DEF IsBuilder, BuilderLabels, ExpressionConsumers, StatementConsumers,
                            FrameFits, ParsesExpression, ExpressionLabels, Takes, Gives
  <2>5. ArenaFollows(temp, temp', Top, f)
    BY <2>1, <2>2, <2>3, <2>4, PushShape
  <2> QED BY <1>0, <2>1, <2>2, <2>4, <2>5, ShapesOne
<1>5. CASE EndArray
  <2>1. PICK f : f = [at |-> "postfix"]
    OBVIOUS
  <2>2. PICK to, errors, value :
          /\ At("array") /\ Commit(to, errors, Built(Top), <<>>)
          /\ value = Node("array_literal", <<FirstOf(Top, NextExpression), Top.count>>,
                          Top.start, EndOf(to))
          /\ Become(<<f>>) /\ result' = value /\ temp' = SubSeq(temp, 1, Top.base)
    BY <1>5, <2>1 DEF EndArray, ReturnTo
  <2>3. calls # <<>> /\ IsBuilder(Top) /\ ParsesExpression(Top)
    BY <2>2, AtShapes DEF ExpressionLabels, BuilderLabels
  <2>4. FitsExpression(value)
    BY <2>2, ShapeFact
  <2>5. ~IsBuilder(f) /\ FrameFits(f) /\ ParsesExpression(f) /\ Takes(f, value)
    BY <2>1, <2>4 DEF IsBuilder, BuilderLabels, StatementConsumers, FrameFits, ParsesExpression,
                      ExpressionLabels, Takes
  <2>6. /\ ArenaFollows(temp, temp', Top, f) /\ Built(Top) \in NodeSeqs
        /\ \A i \in 1 .. Len(Built(Top)) : Gives(Top, Built(Top)[i])
    BY <2>2, <2>3, <2>5, PopShape
  <2>7. AllFitExpression(Built(Top))
    BY <2>3, <2>6 DEF AllFitExpression, Gives
  <2> QED BY <1>0, <2>2, <2>3, <2>5, <2>6, <2>7, ShapesOne
<1>6. CASE EndBlock
  <2>1. PICK f : f = [at |-> "postfix"]
    OBVIOUS
  <2>2. PICK to, errors, value :
          /\ At("statements") /\ Commit(to, errors, <<>>, Built(Top))
          /\ value = Node("block", <<FirstOf(Top, NextStatement), Top.count>>,
                          Top.start, EndOf(to))
          /\ Become(<<>>) /\ result' = value /\ temp' = SubSeq(temp, 1, Top.base)
    BY <1>6 DEF EndBlock, ReturnTo
  <2>3. calls # <<>> /\ IsBuilder(Top) /\ ~ParsesExpression(Top)
    BY <2>2, AtShapes DEF ExpressionLabels, BuilderLabels
  <2>4. Gives(Top, value)
    BY <2>2, <2>3, ShapeFact DEF Gives
  <2>5. ~IsBuilder(f)
    BY <2>1 DEF IsBuilder, BuilderLabels
  <2>6. /\ ArenaFollows(temp, temp', Top, f) /\ Built(Top) \in NodeSeqs
        /\ \A i \in 1 .. Len(Built(Top)) : Gives(Top, Built(Top)[i])
    BY <2>2, <2>3, <2>5, PopShape
  <2>7. AllFitStatement(Built(Top))
    BY <2>3, <2>6 DEF AllFitStatement, Gives
  <2> QED BY <1>0, <2>2, <2>3, <2>4, <2>5, <2>6, <2>7, ShapesReturn
<1> QED BY <1>1, <1>2, <1>3, <1>4, <1>5, <1>6

\* parse() and function().
LEMMA FunctionShapes ==
  ASSUME IInv, IInv', ShapesInv, BeginFunction \/ EndFunction \/ NotAFunction \/ EndParse
  PROVE  ShapesInv'
<1>0. <<>> \in NodeSeqs /\ AllFitExpression(<<>>) /\ AllFitStatement(<<>>)
  BY NothingFits
<1>1. CASE BeginFunction
  <2>1. PICK e : e = [at |-> "statement"]
    OBVIOUS
  <2>2. PICK f, to, errors :
          /\ f.at = "function" /\ calls = <<>> /\ Commit(to, errors, <<>>, <<>>)
          /\ calls' = <<e, f>> /\ temp' = temp
    <3>1. PICK f : f = [at |-> "function", name |-> ExpectIdentifier(cursor + 1).name]
      OBVIOUS
    <3>2. /\ calls = <<>> /\ calls' = StatementCall \o <<f>> /\ temp' = temp
          /\ Commit(ExpectIdentifier(cursor + 1).to, ExpectIdentifier(cursor + 1).errors, <<>>, <<>>)
      BY <1>1, <3>1 DEF BeginFunction, TopLevel
    <3>3. f.at = "function" /\ calls' = <<e, f>>
      BY <2>1, <3>1, <3>2, CallsFact
    <3> QED BY <3>2, <3>3
  <2>3. e.at = "statement"
    BY <2>1
  <2>4. PICK new : new = calls'
    OBVIOUS
  <2>5. Len(new) = 2 /\ new[1] = e /\ new[2] = f
    BY <2>2, <2>4
  <2>6. /\ FrameFits(e) /\ FrameFits(f) /\ ~IsBuilder(e) /\ ~IsBuilder(f) /\ Returns(e, f)
        /\ Takes(e, result')
    BY <2>2, <2>3 DEF FrameFits, IsBuilder, BuilderLabels, Returns, ParsesExpression,
                      ExpressionLabels, ExpressionConsumers, StatementConsumers, Takes
  <2>7. \A i \in 1 .. 2 : i = 1 \/ i = 2
    OBVIOUS
  <2>8. StackFits(new)
    BY <2>5, <2>6, <2>7 DEF StackFits
  <2>9. TempFits(new, temp)
    BY <2>5, <2>6, <2>7 DEF TempFits, Holder
  <2>10. Takes(new[1], result')
    BY <2>5, <2>6
  <2>11. expressions' = expressions /\ statements' = statements
    BY <2>2 DEF Commit, IInv, TypeOK
  <2> QED BY <2>2, <2>4, <2>8, <2>9, <2>10, <2>11 DEF ShapesInv, Top
<1>2. CASE EndFunction
  <2>1. PICK f : f = [at |-> "postfix"]
    OBVIOUS
  <2>2. /\ At("function") /\ Become(<<>>) /\ temp' = temp /\ result' = result
        /\ Commit(cursor, <<>>, <<>>, <<result>>)
    BY <1>2 DEF EndFunction, AllocateStatement
  <2>3. /\ calls # <<>> /\ ~IsBuilder(Top) /\ ~ParsesExpression(Top) /\ FitsStatement(result)
        /\ result \in Nodes
    BY <2>2, AtShapes DEF ExpressionLabels, BuilderLabels, StatementConsumers
  <2>4. Gives(Top, result') /\ ~IsBuilder(f)
    BY <2>1, <2>2, <2>3 DEF Gives, IsBuilder, BuilderLabels
  <2>5. ArenaFollows(temp, temp', Top, f)
    BY <2>2, <2>3, <2>4, ArenaStays
  <2>6. <<result>> \in NodeSeqs /\ AllFitStatement(<<result>>)
    BY <2>3, OneFits
  <2> QED BY <1>0, <2>2, <2>3, <2>4, <2>5, <2>6, ShapesReturn
<1>3. CASE NotAFunction \/ EndParse
  <2>1. /\ calls' = calls /\ result' = result /\ temp' = temp
        /\ expressions' = expressions /\ statements' = statements
    <3>1. CASE NotAFunction
      <4>1. PICK to, errors : Commit(to, errors, <<>>, <<>>) /\ calls' = calls /\ result' = result
                              /\ temp' = temp
        BY <3>1 DEF NotAFunction
      <4> QED BY <4>1 DEF Commit, IInv, TypeOK
    <3>2. CASE EndParse
      BY <3>2 DEF EndParse
    <3> QED BY <1>3, <3>1, <3>2
  <2> QED BY <2>1 DEF ShapesInv, Top
<1> QED BY <1>1, <1>2, <1>3

LEMMA BeginShapes == Begin => ShapesInv
BY DEF Begin, ShapesInv, StackFits, TempFits, AllFitExpression, AllFitStatement

LEMMA InitShapes == Init => ShapesInv
BY BeginShapes DEF Init

LEMMA NextShapes == IInv /\ IInv' /\ ShapesInv /\ [Next]_vars => ShapesInv'
<1> SUFFICES ASSUME IInv, IInv', ShapesInv, [Next]_vars PROVE ShapesInv'
  OBVIOUS
<1>1. CASE Expressions
  BY <1>1, OperandShapes, OperatorShapes, BuilderShapes DEF Expressions
<1>2. CASE Statements
  BY <1>2, CallShapes, ReturnShapes, BuilderShapes DEF Statements
<1>3. CASE BeginFunction \/ EndFunction \/ NotAFunction \/ EndParse
  BY <1>3, FunctionShapes
<1>4. CASE UNCHANGED vars
  BY <1>4 DEF vars, ShapesInv, Top
<1> QED BY <1>1, <1>2, <1>3, <1>4 DEF Next
------------------------------------------------------------------------------
(* The nodes that fit and refer to nodes that are there make a whole AST.  *)

LEMMA ExpressionIsWhole ==
  ASSUME NEW node \in Nodes, FitsExpression(node), NEW exprs, ExpressionChildren(node) \subseteq exprs
  PROVE  IsExpression(node, exprs)
<1>1. PICK d \in Seq(Nat) : d = node.data
  BY DEF Nodes
<1>2. CASE node.kind \in {"missing", "variable"}
  BY <1>2 DEF IsExpression, BinaryOperators
<1>3. CASE node.kind = "int_literal"
  <2>1. d \in Seq(Int)
    OBVIOUS
  <2> QED BY <1>1, <1>3, <2>1 DEF IsExpression, BinaryOperators
<1>4. CASE node.kind \in {"address_of", "dereference"}
  <2>1. Len(d) = 1
    BY <1>1, <1>4 DEF FitsExpression
  <2>2. 1 \in DOMAIN d
    BY <2>1
  <2>3. {d[i] : i \in DOMAIN d} \subseteq exprs
    BY <1>1, <1>4 DEF ExpressionChildren
  <2>4. d[1] \in exprs
    BY <2>2, <2>3
  <2> QED BY <1>1, <1>4, <2>4 DEF IsExpression, BinaryOperators
<1>5. CASE node.kind \in BinaryOperators \cup {"index"}
  <2>1. Len(d) = 2
    BY <1>1, <1>5 DEF FitsExpression
  <2>2. 1 \in DOMAIN d /\ 2 \in DOMAIN d
    BY <2>1
  <2>3. {d[i] : i \in DOMAIN d} \subseteq exprs
    BY <1>1, <1>5, OperationUsesFact DEF Operations, ExpressionChildren, BinaryOperators
  <2>4. d[1] \in exprs /\ d[2] \in exprs
    BY <2>2, <2>3
  <2> QED BY <1>1, <1>5, <2>4 DEF IsExpression, BinaryOperators
<1>6. CASE node.kind = "array_literal"
  <2>1. Len(d) = 2
    BY <1>1, <1>6 DEF FitsExpression
  <2>2. d[1] \in Nat /\ d[2] \in Nat
    <3>1. 1 \in DOMAIN d /\ 2 \in DOMAIN d
      BY <2>1
    <3> QED BY <3>1
  <2>3. ArrayOrBlock(d[1], d[2]) \subseteq exprs
    BY <1>1, <1>6 DEF ExpressionChildren, BinaryOperators
  <2>4. IsList(d, exprs)
    BY <2>2, <2>3 DEF IsList, ArrayOrBlock
  <2> QED BY <1>1, <1>6, <2>4 DEF IsExpression, BinaryOperators
<1> QED BY <1>2, <1>3, <1>4, <1>5, <1>6 DEF FitsExpression

LEMMA StatementIsWhole ==
  ASSUME NEW node \in Nodes, FitsStatement(node), NEW exprs, NEW stmts,
         StatementExpressions(node) \subseteq exprs, StatementChildren(node) \subseteq stmts
  PROVE  IsStatement(node, exprs, stmts)
<1>1. PICK d \in Seq(Nat) : d = node.data
  BY DEF Nodes
<1>2. CASE node.kind = "missing"
  BY <1>2 DEF IsStatement
<1>3. CASE node.kind = "return"
  BY <1>3 DEF IsStatement, StatementExpressions
<1>4. CASE node.kind = "assign"
  BY <1>4 DEF IsStatement, StatementExpressions
<1>5. CASE node.kind = "local_definition"
  BY <1>5 DEF IsStatement, StatementExpressions
<1>6. CASE node.kind = "while"
  BY <1>6 DEF IsStatement, StatementExpressions, StatementChildren
<1>7. CASE node.kind = "if"
  <2>1. node.data[2] # NoNode
    BY <1>7 DEF FitsStatement
  <2>2. {node.data[2], node.data[3]} \ {NoNode} \subseteq stmts /\ node.data[1] \in exprs
    BY <1>7 DEF StatementExpressions, StatementChildren
  <2>3. node.data[2] \in stmts /\ node.data[3] \in stmts \cup {NoNode}
    BY <2>1, <2>2
  <2> QED BY <1>7, <2>2, <2>3 DEF IsStatement
<1>8. CASE node.kind = "block"
  <2>1. Len(d) = 2
    BY <1>1, <1>8 DEF FitsStatement
  <2>2. d[1] \in Nat /\ d[2] \in Nat
    <3>1. 1 \in DOMAIN d /\ 2 \in DOMAIN d
      BY <2>1
    <3> QED BY <3>1
  <2>3. ArrayOrBlock(d[1], d[2]) \subseteq stmts
    BY <1>1, <1>8 DEF StatementChildren
  <2>4. IsList(d, stmts)
    BY <2>2, <2>3 DEF IsList, ArrayOrBlock
  <2> QED BY <1>1, <1>8, <2>4 DEF IsStatement
<1> QED BY <1>2, <1>3, <1>4, <1>5, <1>6, <1>7, <1>8 DEF FitsStatement

LEMMA ShapesComplete ==
  ASSUME TypeOK, TreesInv, ShapesInv
  PROVE  AstIsComplete
<1>1. PICK m \in Nat : m = Len(expressions) /\ DOMAIN expressions = 1 .. m
  BY DEF TypeOK
<1>2. PICK n \in Nat : n = Len(statements) /\ DOMAIN statements = 1 .. n
  BY DEF TypeOK
<1>3. /\ \A i \in 1 .. m : ExpressionChildren(expressions[i]) \subseteq 1 .. i - 1
      /\ \A i \in 1 .. n : /\ StatementChildren(statements[i]) \subseteq 1 .. i - 1
                           /\ StatementExpressions(statements[i]) \subseteq 1 .. m
  BY <1>1, <1>2, TreesForm DEF NodesFormTrees
<1>4. ASSUME NEW i \in 1 .. m PROVE IsExpression(expressions[i], 1 .. m)
  <2>1. expressions[i] \in Nodes
    BY <1>1 DEF TypeOK
  <2>2. FitsExpression(expressions[i])
    BY <1>1 DEF ShapesInv, AllFitExpression
  <2>3. ExpressionChildren(expressions[i]) \subseteq 1 .. m
    BY <1>3
  <2> QED BY <2>1, <2>2, <2>3, ExpressionIsWhole
<1>5. ASSUME NEW i \in 1 .. n PROVE IsStatement(statements[i], 1 .. m, 1 .. n)
  <2>1. statements[i] \in Nodes
    BY <1>2 DEF TypeOK
  <2>2. FitsStatement(statements[i])
    BY <1>2 DEF ShapesInv, AllFitStatement
  <2>3. /\ StatementExpressions(statements[i]) \subseteq 1 .. m
        /\ StatementChildren(statements[i]) \subseteq 1 .. n
    BY <1>3
  <2> QED BY <2>1, <2>2, <2>3, StatementIsWhole
<1>6. IsSequence(functions)
  <2> DEFINE S == {functions[i] : i \in DOMAIN functions}
  <2>1. functions \in [1 .. Len(functions) -> S] /\ Len(functions) \in Nat
    BY DEF TypeOK
  <2>2. functions \in Seq(S)
    <3> HIDE DEF S
    <3> QED BY <2>1
  <2> QED BY <2>2 DEF IsSequence
<1>7. ASSUME NEW i \in DOMAIN functions PROVE functions[i].body \in 1 .. n
  <2>1. PICK owner : Owns("statements", owner)
    BY DEF TreesInv, Sides
  <2>2. FunctionsOwn("statements", owner, n, functions) /\ i \in 1 .. Len(functions)
    BY <1>2, <2>1 DEF Owns, Count, TypeOK
  <2> QED BY <2>2 DEF FunctionsOwn
<1> QED BY <1>1, <1>2, <1>4, <1>5, <1>6, <1>7 DEF AstIsComplete, IsAst

\* Whatever the tokens and the limits, errors and limits that abort included,
\* every node that has been allocated has the data of its kind and refers to
\* allocated nodes (parse.c:28-61): what Lower assumes of the ASTs it lowers.
THEOREM AstIsWellFormed == Spec => []AstIsComplete
<1>1. IInv /\ TreesInv /\ ShapesInv => AstIsComplete
  BY ShapesComplete DEF IInv
<1>2. Spec => [](IInv /\ TreesInv /\ ShapesInv)
  <2>1. Init => IInv /\ TreesInv /\ ShapesInv
    BY InitInv, InitTrees, InitShapes
  <2>2. IInv /\ TreesInv /\ ShapesInv /\ [Next]_vars => (IInv /\ TreesInv /\ ShapesInv)'
    BY NextInv, NextTrees, NextShapes
  <2> QED BY <2>1, <2>2, PTL DEF Spec
<1> QED BY <1>1, <1>2, PTL

--------------------------------------------------------------------------------
(* Literals.  P is to be the positions of the number tokens: every literal *)
(* that is returned, waits, is collected or has been allocated is one of   *)
(* these.                                                                  *)

Literals(P) == {n \in Nodes : n.kind = "int_literal" => n.data[1] \in P}
FrameLiterals(P, f) ==
  /\ f.at = "index" => f.array \in Literals(P)
  /\ f.at = "rhs" => f.lhs \in Literals(P)
LiteralsInv(P) ==
  /\ \A i \in 1 .. Len(tokens) : tokens[i] = "number" => i \in P
  /\ \A i \in 1 .. Len(calls) : FrameLiterals(P, calls[i])
  /\ result \in Literals(P)
  /\ temp \in Seq(Literals(P))
  /\ expressions \in Seq(Literals(P))

\* What becomes of a result, and of the arena.
ResultFollows(P) ==
  \/ result'.kind # "int_literal"
  \/ result'.data[1] \in P
  \/ result'.kind = result.kind /\ result'.data = result.data
ArenaSame == \/ temp' = temp
             \/ temp' = Append(temp, result)
             \/ IsBuilder(Top) /\ temp' = SubSeq(temp, 1, Top.base)

\* The step lemma, for the frames u that take the place of the top one.
LEMMA LiteralsStep ==
  ASSUME NEW P, IInv, IInv', LiteralsInv(P), calls # <<>>,
         NEW S, NEW u \in Seq(S), Become(u), \A i \in 1 .. Len(u) : FrameLiterals(P, u[i]),
         ResultFollows(P), ArenaSame,
         NEW to, NEW errors, NEW exprs \in Seq(Literals(P)), NEW stmts,
         Commit(to, errors, exprs, stmts)
  PROVE  LiteralsInv(P)'
<1>1. PICK old \in Seq(Frames) : old = calls /\ old # <<>>
  BY DEF IInv, TypeOK
<1>2. PICK new \in Seq(Frames) : new = calls'
  BY DEF IInv, TypeOK
<1>3. \A i \in 1 .. Len(new) : FrameLiterals(P, new[i])
  <2>1. Replaced(old, new, u) /\ Len(u) \in Nat
    BY <1>1, <1>2, BecomeFact
  <2>2. PICK m \in Nat : m = Len(u)
    BY <2>1
  <2>3. PICK n \in Nat : n = Len(old) /\ n >= 1
    BY <1>1
  <2>4. /\ Len(new) = m + n - 1
        /\ \A i \in 1 .. m + n - 1 : new[i] = IF i <= m THEN u[i] ELSE old[i - m + 1]
    BY <2>1, <2>2, <2>3 DEF Replaced
  <2>5. ASSUME NEW i \in 1 .. m + n - 1 PROVE FrameLiterals(P, new[i])
    <3>1. CASE i <= m
      BY <2>2, <2>4, <3>1
    <3>2. CASE i > m
      <4>1. i - m + 1 \in 1 .. n
        BY <3>2
      <4>2. FrameLiterals(P, old[i - m + 1])
        BY <1>1, <2>3, <4>1 DEF LiteralsInv
      <4> QED BY <2>4, <3>2, <4>2
    <3> QED BY <3>1, <3>2
  <2> QED BY <2>4, <2>5
<1>4. result' \in Literals(P)
  <2>1. result' \in Nodes /\ result \in Literals(P)
    BY DEF IInv, TypeOK, LiteralsInv
  <2> QED BY <2>1 DEF Literals, ResultFollows
<1>5. temp' \in Seq(Literals(P))
  <2>1. temp \in Seq(Literals(P)) /\ result \in Literals(P)
    BY DEF LiteralsInv
  <2>2. CASE IsBuilder(Top) /\ temp' = SubSeq(temp, 1, Top.base)
    <3>1. PICK base \in Nat : base = Top.base /\ base <= Len(temp)
      BY <2>2, TopBuilderFact
    <3> QED BY <2>1, <2>2, <3>1
  <2>3. CASE temp' = Append(temp, result)
    BY <2>1, <2>3
  <2>4. CASE temp' = temp
    BY <2>1, <2>4
  <2> QED BY <2>2, <2>3, <2>4 DEF ArenaSame
<1>6. tokens' = tokens /\ expressions' = expressions \o exprs
  BY DEF Commit
<1>7. expressions' \in Seq(Literals(P))
  BY <1>6 DEF LiteralsInv
<1>8. \A i \in 1 .. Len(tokens') : tokens'[i] = "number" => i \in P
  BY <1>6 DEF LiteralsInv
<1> QED BY <1>2, <1>3, <1>4, <1>5, <1>7, <1>8 DEF LiteralsInv

\* Frames that hold no node.
LEMMA NoLiterals ==
  ASSUME NEW P
  PROVE  /\ \A f : f.at \notin {"index", "rhs"} => FrameLiterals(P, f)
         /\ <<>> \in Seq(Literals(P))
         /\ \A n \in Literals(P) : <<n>> \in Seq(Literals(P))
         /\ \A n, m \in Literals(P) : <<n, m>> \in Seq(Literals(P))
BY DEF FrameLiterals

\* A function returns, goes on, or calls another or expression().
LEMMA LiteralsReturn ==
  ASSUME NEW P, IInv, IInv', LiteralsInv(P), calls # <<>>, Become(<<>>),
         ResultFollows(P), ArenaSame,
         NEW to, NEW errors, NEW exprs \in Seq(Literals(P)), NEW stmts,
         Commit(to, errors, exprs, stmts)
  PROVE  LiteralsInv(P)'
<1>1. PICK u : u = <<>>
  OBVIOUS
<1>2. u \in Seq({}) /\ Len(u) = 0 /\ Become(u)
  BY <1>1
<1>3. \A i \in 1 .. Len(u) : FrameLiterals(P, u[i])
  BY <1>2
<1> QED BY <1>2, <1>3, LiteralsStep

LEMMA LiteralsOne ==
  ASSUME NEW P, IInv, IInv', LiteralsInv(P), calls # <<>>,
         NEW f, f.at \notin {"index", "rhs"}, Become(<<f>>),
         ResultFollows(P), ArenaSame,
         NEW to, NEW errors, NEW exprs \in Seq(Literals(P)), NEW stmts,
         Commit(to, errors, exprs, stmts)
  PROVE  LiteralsInv(P)'
<1>1. PICK u : u = <<f>>
  OBVIOUS
<1>2. u \in Seq({f}) /\ Len(u) = 1 /\ u[1] = f /\ Become(u)
  BY <1>1
<1>3. \A i \in 1 .. Len(u) : FrameLiterals(P, u[i])
  BY <1>2, NoLiterals
<1> QED BY <1>2, <1>3, LiteralsStep

LEMMA LiteralsTwo ==
  ASSUME NEW P, IInv, IInv', LiteralsInv(P), calls # <<>>,
         NEW e, e.at \notin {"index", "rhs"}, NEW f, f.at \notin {"index", "rhs"},
         Become(<<e, f>>), ResultFollows(P), ArenaSame,
         NEW to, NEW errors, NEW exprs \in Seq(Literals(P)), NEW stmts,
         Commit(to, errors, exprs, stmts)
  PROVE  LiteralsInv(P)'
<1>1. PICK u : u = <<e, f>>
  OBVIOUS
<1>2. u \in Seq({e, f}) /\ Len(u) = 2 /\ u[1] = e /\ u[2] = f /\ Become(u)
  BY <1>1
<1>3. \A i \in 1 .. Len(u) : FrameLiterals(P, u[i])
  <2>1. \A i \in 1 .. 2 : i = 1 \/ i = 2
    OBVIOUS
  <2> QED BY <1>2, <2>1, NoLiterals
<1> QED BY <1>2, <1>3, LiteralsStep

LEMMA LiteralsThree ==
  ASSUME NEW P, IInv, IInv', LiteralsInv(P), calls # <<>>,
         NEW f, FrameLiterals(P, f), NEW min, Become(ExpressionCall(min) \o <<f>>),
         result' = result, temp' = temp,
         NEW to, NEW errors, NEW exprs \in Seq(Literals(P)), NEW stmts,
         Commit(to, errors, exprs, stmts)
  PROVE  LiteralsInv(P)'
<1>1. PICK d : d = [at |-> "operand"]
  OBVIOUS
<1>2. PICK e : e = [at |-> "operators", min |-> min]
  OBVIOUS
<1>3. d.at = "operand" /\ e.at = "operators"
  BY <1>1, <1>2
<1>4. PICK u : u = ExpressionCall(min) \o <<f>>
  OBVIOUS
<1>5. /\ u \in Seq({d, e, f}) /\ Len(u) = 3 /\ u[1] = d /\ u[2] = e /\ u[3] = f
      /\ Become(u)
  BY <1>1, <1>2, <1>4 DEF ExpressionCall
<1>6. \A i \in 1 .. Len(u) : FrameLiterals(P, u[i])
  <2>1. \A i \in 1 .. 3 : i = 1 \/ i = 2 \/ i = 3
    OBVIOUS
  <2>2. FrameLiterals(P, d) /\ FrameLiterals(P, e)
    BY <1>3, NoLiterals
  <2> QED BY <1>5, <2>1, <2>2
<1>7. ResultFollows(P) /\ ArenaSame
  BY DEF ResultFollows, ArenaSame
<1> QED BY <1>5, <1>6, <1>7, LiteralsStep
------------------------------------------------------------------------------
(* Each action.                                                            *)

LEMMA AtLiterals ==
  ASSUME NEW P, IInv, LiteralsInv(P), NEW label, At(label)
  PROVE  /\ calls # <<>> /\ Top \in Frames /\ Top.at = label /\ FrameLiterals(P, Top)
         /\ result \in Literals(P)
         /\ label \in BuilderLabels <=> IsBuilder(Top)
<1>1. calls # <<>> /\ calls \in Seq(Frames) /\ Top.at = label /\ 1 \in 1 .. Len(calls)
  BY DEF At, IInv, TypeOK
<1> QED BY <1>1 DEF Top, LiteralsInv, IsBuilder

LEMMA NodeKind == \A kind, data, start, end : /\ Node(kind, data, start, end).kind = kind
                                              /\ Node(kind, data, start, end).data = data
BY DEF Node

LEMMA ReturnLiterals ==
  ASSUME NEW P, IInv, IInv', LiteralsInv(P),
         \/ EndOperand \/ EndExpression \/ EndNotABlock \/ EndReturn \/ EndSet
         \/ EndIfWithoutElse \/ EndIfElse \/ UnmatchedElse \/ EndWhile \/ EndDefinition
         \/ MissingStatement
  PROVE  LiteralsInv(P)'
<1>1. PICK label, value, to, errors, exprs, stmts :
        /\ At(label) /\ Return(value) /\ Commit(to, errors, exprs, stmts)
        /\ value = result \/ value.kind # "int_literal"
        /\ exprs = <<>> \/ exprs = <<result>>
  <2>1. CASE EndOperand \/ EndExpression
    BY <2>1, Zenon DEF EndOperand, EndExpression, Stay
  <2>2. CASE EndNotABlock
    <3>1. PICK value : value = Node("missing", <<>>, Top.start, 0)
      OBVIOUS
    <3>2. value.kind # "int_literal"
      BY <3>1, NodeKind
    <3> QED BY <2>2, <3>1, <3>2, Zenon DEF EndNotABlock
  <2>3. CASE EndReturn
    <3>1. PICK value : value = Node("return", <<NextExpression>>, Top.start, EndOf(cursor))
      OBVIOUS
    <3>2. value.kind # "int_literal"
      BY <3>1, NodeKind
    <3> QED BY <2>3, <3>1, <3>2, Zenon DEF EndReturn, AllocateExpressions
  <2>4. CASE EndSet
    <3>1. PICK value : value = Node("assign", <<Top.lhs, NextExpression>>, Top.start, EndOf(cursor))
      OBVIOUS
    <3>2. value.kind # "int_literal"
      BY <3>1, NodeKind
    <3> QED BY <2>4, <3>1, <3>2, Zenon DEF EndSet, AllocateExpressions
  <2>5. CASE EndIfWithoutElse
    <3>1. PICK value : value = Node("if", <<Top.condition, NextStatement, NoNode>>,
                                    Top.start, EndOf(cursor))
      OBVIOUS
    <3>2. value.kind # "int_literal"
      BY <3>1, NodeKind
    <3> QED BY <2>5, <3>1, <3>2, Zenon DEF EndIfWithoutElse, AllocateStatement
  <2>6. CASE EndIfElse
    <3>1. PICK value : value = Node("if", <<Top.condition, Top.true_block, NextStatement>>,
                                    Top.start, EndOf(cursor))
      OBVIOUS
    <3>2. value.kind # "int_literal"
      BY <3>1, NodeKind
    <3> QED BY <2>6, <3>1, <3>2, Zenon DEF EndIfElse, AllocateStatement
  <2>7. CASE UnmatchedElse
    <3>1. PICK value : value = Node("missing", <<>>, SpanStart(cursor), EndOf(cursor + 1))
      OBVIOUS
    <3>2. value.kind # "int_literal"
      BY <3>1, NodeKind
    <3> QED BY <2>7, <3>1, <3>2, Zenon DEF UnmatchedElse, AtStatement
  <2>8. CASE EndWhile
    <3>1. PICK value : value = Node("while", <<Top.condition, NextStatement>>,
                                    Top.start, EndOf(cursor))
      OBVIOUS
    <3>2. value.kind # "int_literal"
      BY <3>1, NodeKind
    <3> QED BY <2>8, <3>1, <3>2, Zenon DEF EndWhile, AllocateStatement
  <2>9. CASE EndDefinition
    <3>1. PICK value : value = Node("local_definition", <<Top.name, NextExpression>>,
                                    Top.start, EndOf(cursor))
      OBVIOUS
    <3>2. value.kind # "int_literal"
      BY <3>1, NodeKind
    <3> QED BY <2>9, <3>1, <3>2, Zenon DEF EndDefinition, AllocateExpressions
  <2>10. CASE MissingStatement
    <3>1. PICK e : e = Error(cursor, "recover")
      OBVIOUS
    <3>2. PICK value : value = Node("missing", <<>>, SpanStart(cursor), EndOf(e.to))
      OBVIOUS
    <3>3. value.kind # "int_literal"
      BY <3>2, NodeKind
    <3> QED BY <2>10, <3>1, <3>2, <3>3, Zenon DEF MissingStatement
  <2> QED BY <2>1, <2>2, <2>3, <2>4, <2>5, <2>6, <2>7, <2>8, <2>9, <2>10
<1>2. calls # <<>> /\ exprs \in Seq(Literals(P))
  BY <1>1, AtLiterals, NoLiterals
<1>3. Become(<<>>) /\ result' = value /\ temp' = temp
  BY <1>1, Zenon DEF Return, ReturnTo
<1>4. ResultFollows(P) /\ ArenaSame
  BY <1>1, <1>3 DEF ResultFollows, ArenaSame
<1> QED BY <1>1, <1>2, <1>3, <1>4, LiteralsReturn

LEMMA OperandLiterals ==
  ASSUME NEW P, IInv, IInv', LiteralsInv(P),
         \/ Literal \/ EndPrefix \/ EndParentheses \/ EndIndex \/ MissingOperand \/ EndRhs
         \/ EndArray
  PROVE  LiteralsInv(P)'
<1>0. PICK f : f = [at |-> "postfix"]
  OBVIOUS
<1>1. f.at \notin {"index", "rhs"} /\ <<>> \in Seq(Literals(P))
  BY <1>0, NoLiterals
<1>2. CASE Literal
  <2>1. PICK value :
          value = Node(IF Kind(cursor) = "number" THEN "int_literal" ELSE "variable",
                       <<cursor + 1>>, SpanStart(cursor), EndOf(cursor + 1))
    OBVIOUS
  <2>2. At("operand") /\ Become(<<f>>) /\ result' = value /\ temp' = temp
        /\ Commit(cursor + 1, <<>>, <<>>, <<>>)
    BY <1>0, <1>2, <2>1, Zenon DEF Literal, Operand, ReturnTo, Advance
  <2>3. value.kind # "int_literal" \/ value.data[1] \in P
    <3>1. ASSUME Kind(cursor) = "number" PROVE cursor + 1 \in P
      <4>1. cursor \in 0 .. Len(tokens) /\ Len(tokens) \in Nat
        BY DEF IInv, TypeOK
      <4>2. cursor # Len(tokens) /\ tokens[cursor + 1] = "number"
        BY <3>1 DEF Kind
      <4>3. cursor + 1 \in 1 .. Len(tokens)
        BY <4>1, <4>2
      <4> QED BY <4>2, <4>3 DEF LiteralsInv
    <3>2. value.kind = "int_literal" => Kind(cursor) = "number"
      BY <2>1, NodeKind
    <3>3. value.data = <<cursor + 1>>
      BY <2>1, NodeKind
    <3>4. value.data[1] = cursor + 1
      BY <3>3
    <3> QED BY <3>1, <3>2, <3>4
  <2>4. ResultFollows(P) /\ ArenaSame /\ calls # <<>>
    BY <2>2, <2>3, AtLiterals DEF ResultFollows, ArenaSame
  <2> QED BY <1>1, <2>2, <2>4, LiteralsOne
<1>3. CASE EndPrefix
  <2>1. PICK value : value = Node(Top.kind, <<NextExpression>>, Top.start, EndOf(cursor))
    OBVIOUS
  <2>2. At("prefix") /\ Become(<<f>>) /\ result' = value /\ temp' = temp
        /\ Commit(cursor, <<>>, <<result>>, <<>>)
    BY <1>0, <1>3, <2>1, Zenon DEF EndPrefix, Operand, ReturnTo, AllocateExpressions
  <2>3. Top \in Frames /\ Top.at = "prefix" /\ calls # <<>> /\ result \in Literals(P)
    BY <2>2, AtLiterals
  <2>4. Top.kind \in {"address_of", "dereference"}
    BY <2>3 DEF Frames
  <2>5. value.kind # "int_literal"
    BY <2>1, <2>4, NodeKind
  <2>6. ResultFollows(P) /\ ArenaSame /\ <<result>> \in Seq(Literals(P))
    BY <2>2, <2>3, <2>5, NoLiterals DEF ResultFollows, ArenaSame
  <2> QED BY <1>1, <2>2, <2>3, <2>6, LiteralsOne
<1>4. CASE EndParentheses
  <2>1. PICK to, errors, value :
          /\ At("parentheses") /\ value = [result EXCEPT !.end = EndOf(to)]
          /\ Operand(value) /\ Commit(to, errors, <<>>, <<>>)
    BY <1>4 DEF EndParentheses
  <2>2. Become(<<f>>) /\ result' = value /\ temp' = temp
    BY <1>0, <2>1, Zenon DEF Operand, ReturnTo
  <2>3. calls # <<>> /\ result \in Nodes
    BY <2>1, AtLiterals DEF Literals
  <2>4. value.kind = result.kind /\ value.data = result.data
    BY <2>1, <2>3 DEF Nodes
  <2>5. ResultFollows(P) /\ ArenaSame
    BY <2>2, <2>4 DEF ResultFollows, ArenaSame
  <2> QED BY <1>1, <2>1, <2>2, <2>3, <2>5, LiteralsOne
<1>5. CASE EndIndex
  <2>1. PICK to, errors, value :
          /\ At("index") /\ Operand(value) /\ Commit(to, errors, <<result, Top.array>>, <<>>)
          /\ value = Node("index", <<NextExpression + 1, NextExpression>>,
                          Top.array.start, EndOf(to))
    BY <1>5 DEF EndIndex
  <2>2. Become(<<f>>) /\ result' = value /\ temp' = temp
    BY <1>0, <2>1, Zenon DEF Operand, ReturnTo
  <2>3. value.kind # "int_literal"
    BY <2>1, NodeKind
  <2>4. calls # <<>> /\ result \in Literals(P) /\ Top.array \in Literals(P)
    BY <2>1, AtLiterals DEF FrameLiterals
  <2>5. ResultFollows(P) /\ ArenaSame /\ <<result, Top.array>> \in Seq(Literals(P))
    BY <2>2, <2>3, <2>4, NoLiterals DEF ResultFollows, ArenaSame
  <2> QED BY <1>1, <2>1, <2>2, <2>4, <2>5, LiteralsOne
<1>6. CASE MissingOperand
  <2>1. PICK to, errors, value :
          /\ At("operand") /\ Operand(value) /\ Commit(to, errors, <<>>, <<>>)
          /\ value = Node("missing", <<>>, SpanStart(cursor), EndOf(to))
    BY <1>6 DEF MissingOperand
  <2>2. Become(<<f>>) /\ result' = value /\ temp' = temp
    BY <1>0, <2>1, Zenon DEF Operand, ReturnTo
  <2>3. value.kind # "int_literal"
    BY <2>1, NodeKind
  <2>4. ResultFollows(P) /\ ArenaSame /\ calls # <<>>
    BY <2>1, <2>2, <2>3, AtLiterals DEF ResultFollows, ArenaSame
  <2> QED BY <1>1, <2>1, <2>2, <2>4, LiteralsOne
<1>7. CASE EndRhs
  <2>1. PICK value : value = Node(Top.op, <<NextExpression, NextExpression + 1>>,
                                  Top.lhs.start, EndOf(cursor))
    OBVIOUS
  <2>2. PICK h : h = [at |-> "operators", min |-> Top.min]
    OBVIOUS
  <2>3. /\ At("rhs") /\ Become(<<h>>) /\ result' = value /\ temp' = temp
        /\ Commit(cursor, <<>>, <<Top.lhs, result>>, <<>>)
    BY <1>7, <2>1, <2>2, Zenon DEF EndRhs, AllocateExpressions
  <2>4. /\ calls # <<>> /\ result \in Literals(P) /\ Top.lhs \in Literals(P)
        /\ Top \in Frames /\ Top.at = "rhs"
    BY <2>3, AtLiterals DEF FrameLiterals
  <2>5. value.kind # "int_literal"
    <3>1. Top.op \in BinaryOperators
      BY <2>4, FrameFields
    <3> QED BY <2>1, <3>1, NodeKind DEF BinaryOperators
  <2>6. ResultFollows(P) /\ ArenaSame /\ <<Top.lhs, result>> \in Seq(Literals(P))
    BY <2>3, <2>4, <2>5, NoLiterals DEF ResultFollows, ArenaSame
  <2>7. h.at \notin {"index", "rhs"}
    BY <2>2
  <2> QED BY <2>3, <2>4, <2>6, <2>7, LiteralsOne
<1>8. CASE EndArray
  <2>1. PICK to, errors, value :
          /\ At("array") /\ Commit(to, errors, Built(Top), <<>>)
          /\ value = Node("array_literal", <<FirstOf(Top, NextExpression), Top.count>>,
                          Top.start, EndOf(to))
          /\ Become(<<f>>) /\ result' = value /\ temp' = SubSeq(temp, 1, Top.base)
    BY <1>0, <1>8 DEF EndArray, ReturnTo
  <2>2. calls # <<>> /\ IsBuilder(Top)
    BY <2>1, AtLiterals DEF BuilderLabels
  <2>3. value.kind # "int_literal"
    BY <2>1, NodeKind
  <2>4. ResultFollows(P) /\ ArenaSame
    BY <2>1, <2>2, <2>3 DEF ResultFollows, ArenaSame
  <2>5. Built(Top) \in Seq(Literals(P))
    <3>1. PICK base \in Nat : base = Top.base
      BY <2>2, TopBuilderFact
    <3>2. PICK count \in Nat : count = Top.count
      BY <2>2, TopBuilderFact
    <3>3. base + count <= Len(temp) /\ temp \in Seq(Literals(P))
      BY <2>2, <3>1, <3>2, TopBuilderFact DEF LiteralsInv
    <3>4. SubSeq(temp, base + 1, base + count) \in Seq(Literals(P))
      BY <3>3
    <3> QED BY <3>1, <3>2, <3>4 DEF Built
  <2> QED BY <1>1, <2>1, <2>2, <2>4, <2>5, LiteralsOne
<1> QED BY <1>2, <1>3, <1>4, <1>5, <1>6, <1>7, <1>8

LEMMA ExpressionCallLiterals ==
  ASSUME NEW P, IInv, IInv', LiteralsInv(P),
         \/ BeginParentheses \/ BeginIndex \/ BeginElement \/ BeginRhs \/ BeginStatement
         \/ BeginSetValue \/ BeginDefinition
  PROVE  LiteralsInv(P)'
<1>1. PICK label, f, min, to, errors, exprs :
        /\ At(label) /\ Call(ExpressionCall(min) \o <<f>>) /\ Commit(to, errors, exprs, <<>>)
        /\ FrameLiterals(P, f)
        /\ exprs = <<>> \/ exprs = <<result>>
  <2>1. CASE BeginParentheses
    <3>1. PICK f : f = [at |-> "parentheses"]
      OBVIOUS
    <3>2. FrameLiterals(P, f)
      BY <3>1, NoLiterals
    <3> QED BY <2>1, <3>1, <3>2, Zenon DEF BeginParentheses, Advance
  <2>2. CASE BeginIndex
    <3>1. PICK f : f = [at |-> "index", array |-> result]
      OBVIOUS
    <3>2. result \in Literals(P)
      BY DEF LiteralsInv
    <3>3. FrameLiterals(P, f)
      BY <3>1, <3>2 DEF FrameLiterals
    <3> QED BY <2>2, <3>1, <3>3, Zenon DEF BeginIndex, Advance
  <2>3. CASE BeginElement
    <3>1. PICK f : f = [Top EXCEPT !.at = "element"]
      OBVIOUS
    <3>2. At("array")
      BY <2>3 DEF BeginElement
    <3>3. Top \in BuilderFrame
      BY <3>2, AtLiterals, TopBuilderFact DEF BuilderLabels
    <3>4. f.at = "element"
      BY <3>1, <3>3 DEF BuilderFrame
    <3>5. FrameLiterals(P, f)
      BY <3>4, NoLiterals
    <3> QED BY <2>3, <3>1, <3>5, Zenon DEF BeginElement, Stay
  <2>4. CASE BeginRhs
    <3>1. PICK f : f = [at |-> "rhs", min |-> Top.min, lhs |-> result, op |-> Kind(cursor)]
      OBVIOUS
    <3>2. result \in Literals(P)
      BY DEF LiteralsInv
    <3>3. FrameLiterals(P, f)
      BY <3>1, <3>2 DEF FrameLiterals
    <3> QED BY <2>4, <3>1, <3>3, Zenon DEF BeginRhs, Advance
  <2>5. CASE BeginStatement
    <3>1. PICK f : f = [at |-> Kind(cursor), start |-> SpanStart(cursor)]
      OBVIOUS
    <3>2. f.at \in {"return", "set", "if", "while"}
      BY <2>5, <3>1 DEF BeginStatement
    <3>3. FrameLiterals(P, f)
      BY <3>2, NoLiterals
    <3> QED BY <2>5, <3>1, <3>3, Zenon DEF BeginStatement, Advance
  <2>6. CASE BeginSetValue
    <3>1. PICK f : f = [at |-> "set_value", start |-> Top.start, lhs |-> NextExpression]
      OBVIOUS
    <3>2. FrameLiterals(P, f)
      BY <3>1, NoLiterals
    <3>3. PICK equal : equal = Expect(cursor, "=", "recover")
      OBVIOUS
    <3> QED BY <2>6, <3>1, <3>2, <3>3, Zenon DEF BeginSetValue
  <2>7. CASE BeginDefinition
    <3>1. PICK f : f = [at |-> "definition", start |-> SpanStart(cursor), name |-> cursor + 1]
      OBVIOUS
    <3>2. FrameLiterals(P, f)
      BY <3>1, NoLiterals
    <3>3. PICK equal : equal = Expect(cursor + 1, ":=", "recover")
      OBVIOUS
    <3> QED BY <2>7, <3>1, <3>2, <3>3, Zenon DEF BeginDefinition, AtStatement
  <2> QED BY <2>1, <2>2, <2>3, <2>4, <2>5, <2>6, <2>7
<1>2. calls # <<>> /\ exprs \in Seq(Literals(P))
  BY <1>1, AtLiterals, NoLiterals
<1>3. Become(ExpressionCall(min) \o <<f>>) /\ result' = result /\ temp' = temp
  BY <1>1, Zenon DEF Call
<1> QED BY <1>1, <1>2, <1>3, LiteralsThree

LEMMA CallLiterals ==
  ASSUME NEW P, IInv, IInv', LiteralsInv(P),
         \/ BeginPrefix \/ BeginBlockStatement \/ BeginNotABlock \/ BeginTrueBranch
         \/ BeginFalseBranch \/ BeginWhileBody
  PROVE  LiteralsInv(P)'
<1>1. PICK label, e, f, to, errors, exprs, stmts :
        /\ At(label) /\ Call(<<e, f>>) /\ Commit(to, errors, exprs, stmts)
        /\ e.at \notin {"index", "rhs"} /\ f.at \notin {"index", "rhs"}
        /\ exprs = <<>> \/ exprs = <<result>>
  <2>1. CASE BeginPrefix
    <3>1. PICK e : e = [at |-> "operand"]
      OBVIOUS
    <3>2. PICK f : f = [at |-> "prefix", start |-> SpanStart(cursor),
                        kind |-> IF Kind(cursor) = "&" THEN "address_of" ELSE "dereference"]
      OBVIOUS
    <3>3. e.at \notin {"index", "rhs"} /\ f.at \notin {"index", "rhs"}
      BY <3>1, <3>2
    <3> QED BY <2>1, <3>1, <3>2, <3>3, Zenon DEF BeginPrefix, Advance
  <2>2. CASE BeginBlockStatement
    <3>1. PICK e : e = [at |-> "statement"]
      OBVIOUS
    <3>2. PICK f : f = [Top EXCEPT !.at = "block_statement"]
      OBVIOUS
    <3>3. At("statements")
      BY <2>2 DEF BeginBlockStatement
    <3>4. Top \in BuilderFrame
      BY <3>3, AtLiterals, TopBuilderFact DEF BuilderLabels
    <3>5. e.at \notin {"index", "rhs"} /\ f.at \notin {"index", "rhs"}
      BY <3>1, <3>2, <3>4 DEF BuilderFrame
    <3>6. StatementCall \o <<f>> = <<e, f>>
      BY <3>1, CallsFact
    <3> QED BY <2>2, <3>2, <3>5, <3>6, Zenon DEF BeginBlockStatement, Stay
  <2>3. CASE BeginNotABlock
    <3>1. PICK e : e = [at |-> "statement"]
      OBVIOUS
    <3>2. PICK f : f = [at |-> "not_a_block", start |-> SpanStart(cursor)]
      OBVIOUS
    <3>3. e.at \notin {"index", "rhs"} /\ f.at \notin {"index", "rhs"}
      BY <3>1, <3>2
    <3>4. StatementCall \o <<f>> = <<e, f>>
      BY <3>1, CallsFact
    <3> QED BY <2>3, <3>2, <3>3, <3>4, Zenon DEF BeginNotABlock, Stay
  <2>4. PICK e : e = [at |-> "block"]
    OBVIOUS
  <2>5. e.at \notin {"index", "rhs"}
    BY <2>4
  <2>6. CASE BeginTrueBranch
    <3>1. PICK f : f = [at |-> "true_branch", start |-> Top.start, condition |-> NextExpression]
      OBVIOUS
    <3>2. f.at \notin {"index", "rhs"}
      BY <3>1
    <3>3. BlockCall \o <<f>> = <<e, f>>
      BY <2>4, CallsFact
    <3> QED BY <2>5, <2>6, <3>1, <3>2, <3>3, Zenon DEF BeginTrueBranch, AllocateExpressions
  <2>7. CASE BeginFalseBranch
    <3>1. PICK f : f = [at |-> "false_branch", start |-> Top.start, condition |-> Top.condition,
                        true_block |-> NextStatement]
      OBVIOUS
    <3>2. f.at \notin {"index", "rhs"}
      BY <3>1
    <3>3. BlockCall \o <<f>> = <<e, f>>
      BY <2>4, CallsFact
    <3> QED BY <2>5, <2>7, <3>1, <3>2, <3>3, Zenon DEF BeginFalseBranch
  <2>8. CASE BeginWhileBody
    <3>1. PICK f : f = [at |-> "while_body", start |-> Top.start, condition |-> NextExpression]
      OBVIOUS
    <3>2. f.at \notin {"index", "rhs"}
      BY <3>1
    <3>3. BlockCall \o <<f>> = <<e, f>>
      BY <2>4, CallsFact
    <3> QED BY <2>5, <2>8, <3>1, <3>2, <3>3, Zenon DEF BeginWhileBody, AllocateExpressions
  <2> QED BY <2>1, <2>2, <2>3, <2>6, <2>7, <2>8
<1>2. calls # <<>> /\ exprs \in Seq(Literals(P))
  BY <1>1, AtLiterals, NoLiterals
<1>3. Become(<<e, f>>) /\ result' = result /\ temp' = temp
  BY <1>1, Zenon DEF Call
<1>4. ResultFollows(P) /\ ArenaSame
  BY <1>3 DEF ResultFollows, ArenaSame
<1> QED BY <1>1, <1>2, <1>3, <1>4, LiteralsTwo

LEMMA BuilderLiterals ==
  ASSUME NEW P, IInv, IInv', LiteralsInv(P),
         \/ BeginArray \/ BeginBlock \/ StatementIsBlock \/ EndElement \/ EndBlockStatement
         \/ EndBlock
  PROVE  LiteralsInv(P)'
<1>0. <<>> \in Seq(Literals(P))
  BY NoLiterals
<1>1. CASE BeginArray \/ BeginBlock \/ StatementIsBlock
  <2>1. PICK label, f, to :
          At(label) /\ Call(<<f>>) /\ Commit(to, <<>>, <<>>, <<>>) /\ f.at \notin {"index", "rhs"}
    <3>1. CASE BeginArray
      <4>1. PICK f : f = Builder("array", SpanStart(cursor))
        OBVIOUS
      <4>2. f.at \notin {"index", "rhs"}
        BY <4>1 DEF Builder
      <4> QED BY <3>1, <4>1, <4>2, Zenon DEF BeginArray, Advance
    <3>2. CASE BeginBlock
      <4>1. PICK f : f = Builder("statements", SpanStart(cursor))
        OBVIOUS
      <4>2. f.at \notin {"index", "rhs"}
        BY <4>1 DEF Builder
      <4> QED BY <3>2, <4>1, <4>2, Zenon DEF BeginBlock, Advance
    <3>3. CASE StatementIsBlock
      <4>1. PICK f : f = [at |-> "block"]
        OBVIOUS
      <4>2. f.at \notin {"index", "rhs"}
        BY <4>1
      <4> QED BY <3>3, <4>1, <4>2, Zenon DEF StatementIsBlock, AtStatement, Stay, BlockCall
    <3> QED BY <1>1, <3>1, <3>2, <3>3
  <2>2. calls # <<>>
    BY <2>1, AtLiterals
  <2>3. Become(<<f>>) /\ result' = result /\ temp' = temp
    BY <2>1, Zenon DEF Call
  <2>4. ResultFollows(P) /\ ArenaSame
    BY <2>3 DEF ResultFollows, ArenaSame
  <2> QED BY <1>0, <2>1, <2>2, <2>3, <2>4, LiteralsOne
<1>2. CASE EndElement \/ EndBlockStatement
  <2>1. PICK to, errors, label, l, f :
          /\ f = Pushed(Top, l) /\ At(label) /\ l \in {"array", "statements"}
          /\ label \in BuilderLabels
          /\ Commit(to, errors, <<>>, <<>>) /\ temp' = Append(temp, result)
          /\ Become(<<f>>) /\ result' = result
    BY <1>2 DEF EndElement, EndBlockStatement, Stay, BuilderLabels
  <2>2. calls # <<>> /\ Top \in BuilderFrame
    BY <2>1, AtLiterals, TopBuilderFact
  <2>3. f.at \notin {"index", "rhs"}
    BY <2>1, <2>2 DEF Pushed, BuilderFrame
  <2>4. ResultFollows(P) /\ ArenaSame
    BY <2>1 DEF ResultFollows, ArenaSame
  <2> QED BY <1>0, <2>1, <2>2, <2>3, <2>4, LiteralsOne
<1>3. CASE EndBlock
  <2>1. PICK to, errors, value :
          /\ At("statements") /\ Commit(to, errors, <<>>, Built(Top))
          /\ value = Node("block", <<FirstOf(Top, NextStatement), Top.count>>,
                          Top.start, EndOf(to))
          /\ Become(<<>>) /\ result' = value /\ temp' = SubSeq(temp, 1, Top.base)
    BY <1>3 DEF EndBlock, ReturnTo
  <2>2. calls # <<>> /\ IsBuilder(Top)
    BY <2>1, AtLiterals DEF BuilderLabels
  <2>3. value.kind # "int_literal"
    BY <2>1, NodeKind
  <2>4. ResultFollows(P) /\ ArenaSame
    BY <2>1, <2>2, <2>3 DEF ResultFollows, ArenaSame
  <2> QED BY <1>0, <2>1, <2>2, <2>4, LiteralsReturn
<1> QED BY <1>1, <1>2, <1>3

LEMMA FunctionLiterals ==
  ASSUME NEW P, IInv, IInv', LiteralsInv(P),
         BeginFunction \/ EndFunction \/ NotAFunction \/ EndParse
  PROVE  LiteralsInv(P)'
<1>1. CASE BeginFunction
  <2>1. PICK e : e = [at |-> "statement"]
    OBVIOUS
  <2>2. PICK f : f = [at |-> "function", name |-> ExpectIdentifier(cursor + 1).name]
    OBVIOUS
  <2>3. PICK to, errors :
          /\ Commit(to, errors, <<>>, <<>>)
          /\ calls' = <<e, f>> /\ temp' = temp /\ result' = result
    <3>1. /\ calls' = StatementCall \o <<f>> /\ temp' = temp /\ result' = result
          /\ Commit(ExpectIdentifier(cursor + 1).to, ExpectIdentifier(cursor + 1).errors, <<>>, <<>>)
      BY <1>1, <2>2 DEF BeginFunction
    <3>2. calls' = <<e, f>>
      BY <2>1, <3>1, CallsFact
    <3> QED BY <3>1, <3>2
  <2>4. FrameLiterals(P, e) /\ FrameLiterals(P, f)
    BY <2>1, <2>2, NoLiterals
  <2>5. \A i \in 1 .. Len(calls') : FrameLiterals(P, calls'[i])
    <3>1. PICK new : new = <<e, f>>
      OBVIOUS
    <3>2. Len(new) = 2 /\ new[1] = e /\ new[2] = f
      BY <3>1
    <3>3. \A i \in 1 .. 2 : i = 1 \/ i = 2
      OBVIOUS
    <3>4. \A i \in 1 .. Len(new) : FrameLiterals(P, new[i])
      BY <2>4, <3>2, <3>3
    <3> QED BY <2>3, <3>1, <3>4
  <2>6. tokens' = tokens /\ expressions' = expressions
    BY <2>3 DEF Commit, IInv, TypeOK
  <2> QED BY <2>3, <2>5, <2>6 DEF LiteralsInv
<1>2. CASE EndFunction
  <2>1. /\ At("function") /\ Become(<<>>) /\ temp' = temp /\ result' = result
        /\ Commit(cursor, <<>>, <<>>, <<result>>)
    BY <1>2 DEF EndFunction, AllocateStatement
  <2>2. calls # <<>> /\ <<>> \in Seq(Literals(P))
    BY <2>1, AtLiterals, NoLiterals
  <2>3. ResultFollows(P) /\ ArenaSame
    BY <2>1 DEF ResultFollows, ArenaSame
  <2> QED BY <2>1, <2>2, <2>3, LiteralsReturn
<1>3. CASE NotAFunction \/ EndParse
  <2>1. /\ calls' = calls /\ result' = result /\ temp' = temp /\ tokens' = tokens
        /\ expressions' = expressions
    <3>1. CASE NotAFunction
      <4>1. PICK to, errors : Commit(to, errors, <<>>, <<>>) /\ calls' = calls /\ result' = result
                              /\ temp' = temp
        BY <3>1 DEF NotAFunction
      <4> QED BY <4>1 DEF Commit, IInv, TypeOK
    <3>2. CASE EndParse
      BY <3>2 DEF EndParse
    <3> QED BY <1>3, <3>1, <3>2
  <2> QED BY <2>1 DEF LiteralsInv
<1> QED BY <1>1, <1>2, <1>3

LEMMA BeginLiterals ==
  ASSUME NEW P, tokens \in Seq(Kinds), Begin,
         \A i \in 1 .. Len(tokens) : tokens[i] = "number" => i \in P
  PROVE  LiteralsInv(P)
<1>1. result \in Literals(P)
  <2>1. result \in Nodes
    BY BeginInv DEF IInv, TypeOK
  <2>2. result.kind = "missing"
    BY NodeKind DEF Begin
  <2> QED BY <2>1, <2>2 DEF Literals
<1> QED BY <1>1, NoLiterals DEF LiteralsInv, Begin

LEMMA NextLiterals ==
  ASSUME NEW P
  PROVE  IInv /\ IInv' /\ LiteralsInv(P) /\ [Next]_vars => LiteralsInv(P)'
<1> SUFFICES ASSUME IInv, IInv', LiteralsInv(P), [Next]_vars PROVE LiteralsInv(P)'
  OBVIOUS
<1>1. CASE Expressions
  BY <1>1, ReturnLiterals, OperandLiterals, ExpressionCallLiterals, CallLiterals,
     BuilderLiterals DEF Expressions
<1>2. CASE Statements
  BY <1>2, ReturnLiterals, ExpressionCallLiterals, CallLiterals, BuilderLiterals DEF Statements
<1>3. CASE BeginFunction \/ EndFunction \/ NotAFunction \/ EndParse
  BY <1>3, FunctionLiterals
<1>4. CASE UNCHANGED vars
  BY <1>4 DEF vars, LiteralsInv
<1> QED BY <1>1, <1>2, <1>3, <1>4 DEF Next

================================================================================
