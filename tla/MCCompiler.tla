------------------------------- MODULE MCCompiler -------------------------------
(***************************************************************************)
(* Instances of Execution: families of small programs.                     *)
(***************************************************************************)
EXTENDS Execution, SyntaxTrees

CONSTANTS nameA, nameB, nameC  \* names of variables

A == Var(nameA)
B == Var(nameB)
C == Var(nameC)
Op(o, x, y) == <<o, x, y>>
Program(statements) == <<Function("f", statements)>>

\* Trees of two operators over a variable and numbers.
Sums ==
  LET leaves == {A, N(3)}
      one == {Op(o, x, y) : o \in {"-", "/"}, x \in leaves, y \in leaves}
  IN  {Program(<<Define(nameA, N(7)), Give(e)>>) :
         e \in {Op(o, x, y) : o \in {"-", "<"}, x \in leaves \cup one, y \in leaves \cup one}
                 \cup {Op(o, x, y) : o \in BinaryOperators, x \in leaves, y \in leaves}}

\* Arrays of arrays, by value and through pointers.
Pair(x, y) == Literal(<<x, y>>)
Places == {B, Item(B, N(1)), Item(Item(B, N(1)), N(0)), Deref(C), Item(Deref(C), N(1))}
Values ==
  {N(9), A, Item(A, N(1)), Pair(N(5), N(6)), Pair(A, Pair(N(5), N(6))), Item(Pair(A, A), N(1)),
   Item(B, N(0)), Deref(C), Item(Deref(C), N(0)),
   Pair(Item(A, N(1)), Item(A, N(0)))}
Memory ==
  {Program(<<Define(nameA, Pair(N(1), N(2))), Define(nameB, Pair(A, Pair(N(3), N(4)))),
             Define(nameC, Ref(p)), Set(q, v), Give(r)>>) :
     p \in {A, B, Item(B, N(1)), Item(A, N(0))}, q \in Places, v \in Values,
     r \in {Item(A, N(0)), Item(Item(B, N(1)), N(0)), Item(Item(B, N(1)), N(1))}}

\* Branches and loops in one another, with returns in the middle.
Down == Set(A, Op("-", A, N(1)))
Steps == {Down, Set(B, Op("+", B, A)), Give(B), If(B, Block(<<Down>>)),
          IfElse(Op("<", A, N(2)), Block(<<Set(B, A)>>), Block(<<Give(A), Down>>))}
Loops ==
  {Program(<<Define(nameA, N(2)), Define(nameB, N(0)), While(A, Block(<<s, t, Down>>)), u, Give(B)>>) :
     s \in Steps, t \in Steps,
     u \in Steps \cup {While(Op("<", B, N(3)), Block(<<Set(B, Op("+", B, N(1))), w>>)) :
                         w \in {Set(A, B), If(Op("==", B, N(2)), Block(<<Give(A)>>))}}}

\* Programs with errors, with warnings, and with two functions.
Others ==
  {Program(<<Define(nameA, e), s>>) :
     e \in {N(1), Pair(N(1), Pair(N(1), N(2))), Ref(N(1)), Missing},
     s \in {Give(A), Give(B), Set(N(1), N(2)), Define(nameB, Literal(<<A, Ref(A)>>)),
            Define(nameB, Literal(<<>>))}}
    \cup {<<Function("f", <<Define(nameA, N(1)), If(A, Block(<<Give(x)>>))>>),
            Function("g", <<Define(nameB, N(2)), If(B, Block(<<Give(y)>>))>>)>> :
            x \in {A, B, N(3)}, y \in {A, B, N(3)}}

MCAsts == {AstOf(p) : p \in Sums \cup Memory \cup Loops \cup Others}

\* A local of type void, and its neighbours.
EmptyArrays ==
  {AstOf(Program(<<Define(nameA, N(1)), Define(nameB, Literal(<<>>)), Define(nameC, N(2)),
                   Give(Op("+", A, C))>>))}

\* The program of tests_lower/mixed_array_literal_element_types.mc.
MixedArrays ==
  {AstOf(Program(<<Define(nameA, N(0)), Define(nameB, Literal(<<N(1), Ref(A), Literal(<<>>), N(2)>>))>>))}
==============================================================================
