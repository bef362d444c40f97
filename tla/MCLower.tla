-------------------------------- MODULE MCLower --------------------------------
(***************************************************************************)
(* Instances of Lower: families of small programs that cover typing,       *)
(* scopes and messages.  The rules of scoping are stated a second time     *)
(* here, in terms of the text of a function only.                          *)
(***************************************************************************)
EXTENDS Lower, SyntaxTrees

CONSTANTS nameA, nameB, nameC  \* names of variables

INSTANCE Printer

(* The families.                                                           *)

One == N(1)
A == Var(nameA)
B == Var(nameB)

Sums(xs) == {<<"+", x, y>> : x \in xs, y \in xs}
Prefixed(xs) == {Ref(x) : x \in xs} \cup {Deref(x) : x \in xs}
Items(xs) == {Item(x, y) : x \in xs, y \in xs}
Literals(xs) ==
  {Literal(<<>>)} \cup {Literal(<<x>>) : x \in xs} \cup {Literal(<<x, y>>) : x \in xs, y \in xs}
Shallow(xs) == xs \cup Sums(xs) \cup Prefixed(xs) \cup Items(xs) \cup Literals(xs)

\* A definition, then a use of a or b.
Typing ==
  {<<Function("f", <<Define(nameA, e), s>>)>> :
     e \in Shallow({One, A}),
     s \in UNION {{Give(u), Define(nameB, u), Set(A, u), Set(u, One)} : u \in Shallow({One, A, B})}}

\* Values of types two levels deep.
Pair == Literal(<<One, One>>)
DeepTyping ==
  {<<Function("f", <<Define(nameA, Pair), Define(nameB, Ref(A)), s>>)>> :
     s \in UNION {{Define(nameC, u), Set(B, u), Set(u, Pair)} :
                    u \in Shallow({A, B, Item(A, One), Deref(B)})}}

Simple == {Define(nameA, One), Define(nameA, B), Define(nameB, A), Set(A, B), Give(A)}
Ifs == {If(A, Block(<<s>>)) : s \in Simple}
Nested ==
  Ifs
    \cup {IfElse(B, Block(<<s>>), Block(<<t>>)) : s \in Simple, t \in Simple}
    \cup {While(B, Block(<<s, t>>)) : s \in Simple, t \in Simple}

\* Functions whose variables have the same names, some of them nameless.
Scoping ==
  {<<Function("f", <<s, t>>), Function("g", <<Define(nameA, B)>>)>> :
     s \in Simple \cup Nested, t \in Simple \cup Ifs}
    \cup {<<Function(NoName, <<s>>), Function("g", <<t, u>>)>> :
            s \in Simple, t \in Simple, u \in Simple}

\* What the parser leaves of programs with errors.
Broken ==
  {<<Function("f", <<Define(nameA, e), s>>)>> :
     e \in Shallow({One, Missing}),
     s \in {Missing, Set(A, Missing), If(Missing, Missing), While(A, Missing)}}

\* Types whose names are long: arrays of arrays of arrays ...
Deep(n) == FoldLeft(LAMBDA tree, i : Literal(<<tree>>), One, [i \in 1 .. n |-> i])
LongTypes ==
  {<<Function("f", <<Define(nameA, Deep(n)), s>>)>> :
     n \in 3 .. 7,
     s \in {Give(Deref(A)), Set(A, One), Give(Item(A, A)), Give(Literal(<<One, A>>)),
            Give(Item(Ref(A), One))}}

MCAsts == {AstOf(p) : p \in Typing \cup DeepTyping \cup Scoping \cup Broken \cup LongTypes}
------------------------------------------------------------------------------
(* The rules of scoping, in terms of the text of a function: what happens  *)
(* to variables from its beginning to its end.  A function is one scope,   *)
(* blocks or not.  Only the first definition of a name counts; the value   *)
(* of another one is not even looked at.                                   *)

Use(e, s, reads) ==
  [what |-> "use", name |-> ast.expressions[e].data[1], at |-> Expression(e), in |-> s,
   reads |-> reads]

Each(Of(_), items) == FoldLeft(LAMBDA events, i : events \o Of(i), <<>>, items)
List(d) == [i \in 1 .. d[2] |-> d[1] + i - 1]

RECURSIVE Uses(_, _, _), Text(_)
\* The variables in an expression of statement s, from left to right.
Uses(e, s, direct) ==
  LET x == ast.expressions[e]
      uses(i) == Uses(i, s, direct)
  IN  CASE x.kind = "variable" -> <<Use(e, s, e # direct)>>
        [] x.kind \in {"int_literal", "missing"} -> <<>>
        [] x.kind = "array_literal" -> Each(uses, List(x.data))
        [] OTHER -> Each(uses, x.data)

Text(s) ==
  LET x == ast.statements[s]
      d == x.data
      uses(e) == Uses(e, s, IF x.kind = "assign" THEN d[1] ELSE 0)
  IN  CASE x.kind = "missing" -> <<>>
        [] x.kind = "return" -> uses(d[1])
        [] x.kind = "assign" -> Each(uses, d)
        [] x.kind = "local_definition" ->
             Append(uses(d[2]), [what |-> "define", name |-> d[1], at |-> Statement(s), in |-> s])
        [] x.kind = "while" -> uses(d[1]) \o Text(d[2])
        [] x.kind = "if" -> uses(d[1]) \o Text(d[2]) \o (IF d[3] = NoNode THEN <<>> ELSE Text(d[3]))
        [] x.kind = "block" -> Each(Text, List(d))

NamedFunctions == SelectSeq(ast.functions, LAMBDA f : f.name # NoName)

\* The places of a function's first and its shadowing definitions, of the
\* variables with no meaning, and the definitions the others mean and read.
Scope(f, events) ==
  LET
    definitions == {i \in DOMAIN events : events[i].what = "define"}
    first == {i \in definitions :
                \A j \in definitions : events[j].name = events[i].name => i <= j}
    ignored == {events[i].in : i \in definitions \ first}
    uses == {i \in DOMAIN events \ definitions : events[i].in \notin ignored}
    meanings(i) == {j \in first : j < i /\ events[j].name = events[i].name}
    places(is) == {events[i].at : i \in is}
  IN
    [function |-> f,
     first |-> places(first),
     shadowing |-> places(definitions \ first),
     undefined |-> places({i \in uses : meanings(i) = {}}),
     meant |-> UNION {{<<events[i].at, events[j].at>> : j \in meanings(i)} : i \in uses},
     read |-> UNION {places(meanings(i)) : i \in {j \in uses : events[j].reads}}]

Scopes == {Scope(f, Text(NamedFunctions[f].body)) : f \in DOMAIN NamedFunctions}

LocalsOf(f) ==
  functions[f].locals_start + 1 .. functions[f].locals_start + functions[f].locals_count

(* A name means its first definition in the function's text before it,     *)
(* whatever blocks are in between; every other definition and every use    *)
(* without one is reported, and no variable of another function is ever    *)
(* meant (lower.c:28-35, 126-161, 428-480, 643-647).                       *)
ScopesFollowTheText ==
  status = "done" =>
    LET scopes == Scopes
        meant == UNION {s.meant : s \in scopes}
    IN  /\ \A s \in scopes : s.first = {locals[l].at : l \in LocalsOf(s.function)}
        /\ Reported("cannot_shadow") = UNION {s.shadowing : s \in scopes}
        /\ Reported("undefined_variable") = UNION {s.undefined : s \in scopes}
        /\ \A n \in {m \in DOMAIN nodes : nodes[m].kind = "variable" /\ nodes[m].at # <<>>} :
             <<nodes[n].at, locals[nodes[n].data[1]].at>> \in meant

(* A variable is reported as unused exactly when its value is never read:  *)
(* being assigned to is no use, but taking its address or indexing it in   *)
(* the target of an assignment is (lower.c:154, 390-394, 486, 682-693).    *)
UnusedAreNeverRead ==
  status = "done" =>
    Reported("unused_variable") = UNION {s.first \ s.read : s \in Scopes}

(* A program without errors is the same program in the HIR: printed, it    *)
(* has the functions of the AST in their order, and in each of them what   *)
(* the AST's has, word for word, with definitions as assignments; before   *)
(* it come the variables in the order of their definitions.  In the end    *)
(* the elements of a literal have its child type if no value has type      *)
(* void, which codegen asserts (lower.c:428-480, 637-657, 823-1060;        *)
(* codegen.c:275).                                                         *)
AsAssignments(words) ==
  FlattenSeq([i \in DOMAIN words |->
                IF words[i].kind = ":=" THEN Sign("=")
                ELSE IF i < Len(words) /\ words[i + 1].kind = ":=" THEN Sign("set") \o <<words[i]>>
                ELSE <<words[i]>>])
DefinedNames(words) ==
  LET defines(i) == i < Len(words) /\ words[i + 1].kind = ":="
      at == SelectSeq([i \in DOMAIN words |-> i], defines)
  IN  [i \in DOMAIN at |-> words[at[i]]]
Hir == [nodes |-> nodes, locals |-> locals, types |-> types]
HirText(f) ==
  HirWords(Hir, <<[functions[f] EXCEPT !.locals_count = 0]>>)
AstText(f) == AstWords(ast, <<NamedFunctions[f]>>)
CleanMeansFaithful ==
  status = "done" /\ Errors = {} =>
    /\ Len(functions) = Len(NamedFunctions)
    /\ \A f \in DOMAIN functions :
         /\ HirText(f) = AsAssignments(AstText(f))
         /\ [k \in 1 .. functions[f].locals_count |-> LocalWords(Hir, functions[f])[k][2]]
              = DefinedNames(AstText(f))
    /\ CleanMeansWellTyped
==============================================================================
