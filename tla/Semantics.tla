------------------------------- MODULE Semantics -------------------------------
(***************************************************************************)
(* What a minic function means, as an interpreter of its AST: variables    *)
(* hold integers, arrays and pointers, not bytes.  Whatever has no meaning *)
(* (a variable nobody has given a value, an index out of bounds, a value   *)
(* of the wrong kind, a loop that goes on for too long) is Undefined.      *)
(***************************************************************************)
EXTENDS Integers, Sequences, TLC

CONSTANT MaxIterations  \* of a loop

BinaryOperators == {"+", "-", "*", "/", "==", "!=", "<", "<=", ">", ">="}

Undefined == [undefined |-> 0]
Number(n) == [int |-> n]
Array(elements) == [array |-> elements]
\* A pointer to a variable, an element of it, an element of that, ...
Pointer(path) == [pointer |-> path]
Has(value, kind) == kind \in DOMAIN value

Truth(b) == IF b THEN 1 ELSE 0
\* The source says nothing of division; as codegen.c, round towards zero.
Divide(x, y) ==
  LET abs(n) == IF n < 0 THEN -n ELSE n
      sign(n) == IF n < 0 THEN -1 ELSE 1
  IN  sign(x) * sign(y) * (abs(x) \div abs(y))
Calculate(o, x, y) ==
  CASE o = "+" -> x + y [] o = "-" -> x - y [] o = "*" -> x * y [] o = "/" -> Divide(x, y)
    [] o = "==" -> Truth(x = y) [] o = "!=" -> Truth(x # y)
    [] o = "<" -> Truth(x < y) [] o = "<=" -> Truth(x <= y)
    [] o = ">" -> Truth(x > y) [] o = ">=" -> Truth(x >= y)

RECURSIVE At(_, _), With(_, _, _)
\* An element of an element of ... a value.
At(value, indices) ==
  IF indices = <<>> THEN value
  ELSE IF ~Has(value, "array") THEN Undefined
  ELSE IF Head(indices) \notin 1 .. Len(value.array) THEN Undefined
  ELSE At(value.array[Head(indices)], Tail(indices))
With(value, indices, new) ==
  IF indices = <<>> THEN new
  ELSE Array([value.array EXCEPT ![Head(indices)] = With(@, Tail(indices), new)])

Read(variables, path) ==
  IF Head(path) \notin DOMAIN variables THEN Undefined
  ELSE At(variables[Head(path)], Tail(path))

RECURSIVE Value(_, _, _), Place(_, _, _)
Value(ast, variables, e) ==
  LET x == ast.expressions[e]
      value(i) == Value(ast, variables, x.data[i])
  IN  CASE x.kind = "int_literal" -> Number(x.data[1])
        [] x.kind = "missing" -> Undefined
        [] x.kind = "variable" -> Read(variables, x.data)
        [] x.kind = "address_of" ->
             LET place == Place(ast, variables, x.data[1])
             IN  IF place = <<>> THEN Undefined ELSE Pointer(place)
        [] x.kind = "dereference" ->
             IF Has(value(1), "pointer") THEN Read(variables, value(1).pointer) ELSE Undefined
        [] x.kind = "index" ->
             IF Has(value(2), "int") THEN At(value(1), <<value(2).int + 1>>) ELSE Undefined
        [] x.kind = "array_literal" ->
             LET elements == [i \in 1 .. x.data[2] |-> Value(ast, variables, x.data[1] + i - 1)]
             IN  IF \E i \in DOMAIN elements : elements[i] = Undefined THEN Undefined
                 ELSE Array(elements)
        [] x.kind \in BinaryOperators ->
             IF /\ Has(value(1), "int") /\ Has(value(2), "int")
                /\ ~(x.kind = "/" /\ value(2).int = 0)
             THEN Number(Calculate(x.kind, value(1).int, value(2).int))
             ELSE Undefined

\* The path to what an expression denotes, if it does so with a meaning.
Place(ast, variables, e) ==
  LET x == ast.expressions[e]
      path ==
        CASE x.kind = "variable" -> x.data
          [] x.kind = "dereference" ->
               LET p == Value(ast, variables, x.data[1])
               IN  IF Has(p, "pointer") THEN p.pointer ELSE <<>>
          [] x.kind = "index" ->
               LET array == Place(ast, variables, x.data[1])
                   index == Value(ast, variables, x.data[2])
               IN  IF array # <<>> /\ Has(index, "int") THEN Append(array, index.int + 1) ELSE <<>>
          [] OTHER -> <<>>
  IN  IF path = <<>> THEN <<>> ELSE IF Read(variables, path) = Undefined THEN <<>> ELSE path

\* Where execution is: the variables, and the value returned if it is over.
Going(variables) == [over |-> FALSE, variables |-> variables]
Over(value) == [over |-> TRUE, value |-> value]

RECURSIVE Execute(_, _, _), Repeat(_, _, _, _)
Execute(ast, variables, s) ==
  LET x == ast.statements[s]
      value(i) == Value(ast, variables, x.data[i])
  IN  CASE x.kind = "return" -> Over(value(1))
        [] x.kind = "missing" -> Over(Undefined)
        [] x.kind = "local_definition" ->
             IF value(2) = Undefined THEN Over(Undefined)
             ELSE Going(x.data[1] :> value(2) @@ variables)
        [] x.kind = "assign" ->
             LET place == Place(ast, variables, x.data[1])
             IN  IF place = <<>> \/ value(2) = Undefined THEN Over(Undefined)
                 ELSE Going([variables EXCEPT ![Head(place)] = With(@, Tail(place), value(2))])
        [] x.kind = "if" ->
             IF ~Has(value(1), "int") THEN Over(Undefined)
             ELSE IF value(1).int # 0 THEN Execute(ast, variables, x.data[2])
             ELSE IF x.data[3] = 0 THEN Going(variables)
             ELSE Execute(ast, variables, x.data[3])
        [] x.kind = "while" -> Repeat(ast, variables, x, MaxIterations)
        [] x.kind = "block" ->
             LET run[i \in 0 .. x.data[2]] ==
                   IF i = 0 THEN Going(variables)
                   ELSE LET before == run[i - 1]
                        IN  IF before.over THEN before
                            ELSE Execute(ast, before.variables, x.data[1] + i - 1)
             IN  run[x.data[2]]
Repeat(ast, variables, loop, left) ==
  LET condition == Value(ast, variables, loop.data[1])
  IN  IF ~Has(condition, "int") \/ left = 0 THEN Over(Undefined)
      ELSE IF condition.int = 0 THEN Going(variables)
      ELSE LET body == Execute(ast, variables, loop.data[2])
           IN  IF body.over THEN body ELSE Repeat(ast, body.variables, loop, left - 1)

\* What a function returns; nothing, if its end is reached without return.
Result(ast, function) ==
  LET end == Execute(ast, <<>>, function.body)
  IN  IF end.over THEN end.value ELSE Undefined
==============================================================================
