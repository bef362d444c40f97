--------------------------------- MODULE Printer ---------------------------------
(***************************************************************************)
(* The debug printers of parse.c and lower.c.  What is printed is modelled *)
(* by its tokens: each is a kind, and for a name or a number which one it  *)
(* is.  Spaces and line breaks are left out.                               *)
(*                                                                         *)
(* An AST is a record of the arrays of its nodes, as in Parser and Lower.  *)
(***************************************************************************)
EXTENDS Integers, Sequences, SequencesExt

CONSTANTS NoName, NoNode, BinaryOperators

Word(kind, value) == <<[kind |-> kind, value |-> value]>>
Sign(kind) == Word(kind, NoName)
Between(left, words, right) == Sign(left) \o words \o Sign(right)
MissingSign == Between("<", Sign("missing"), ">")
Name(name) == IF name = NoName THEN MissingSign ELSE Word("identifier", name)

\* debugExpression()
ExpressionWords(expressions) ==
  LET words[i \in DOMAIN expressions] ==
        LET e == expressions[i]
            operand(k) == words[e.data[k]]
            elements == [k \in 1 .. e.data[2] |-> words[e.data[1] + k - 1]]
        IN  CASE e.kind = "missing" -> MissingSign
              [] e.kind = "int_literal" -> Word("number", e.data[1])
              [] e.kind = "variable" -> Name(e.data[1])
              [] e.kind \in BinaryOperators ->
                   Between("(", operand(1) \o Sign(e.kind) \o operand(2), ")")
              [] e.kind = "address_of" -> Sign("&") \o Between("(", operand(1), ")")
              [] e.kind = "dereference" -> Sign("*") \o Between("(", operand(1), ")")
              [] e.kind = "index" ->
                   Between("(", operand(1), ")") \o Between("[", operand(2), "]")
              [] e.kind = "array_literal" ->
                   Between("[", IF e.data[2] = 1 THEN elements[1]
                                ELSE FlattenSeq([k \in DOMAIN elements |->
                                                   elements[k] \o Sign(",")]), "]")
  IN  words

\* debugStatement()
StatementWords(ast) ==
  LET exprs == ExpressionWords(ast.expressions)
      words[i \in DOMAIN ast.statements] ==
        LET s == ast.statements[i]
            expr(k) == exprs[s.data[k]]
        IN  CASE s.kind = "missing" -> MissingSign
              [] s.kind = "return" -> Sign("return") \o expr(1)
              [] s.kind = "local_definition" -> Name(s.data[1]) \o Sign(":=") \o expr(2)
              [] s.kind = "assign" -> Sign("set") \o expr(1) \o Sign("=") \o expr(2)
              [] s.kind = "while" -> Sign("while") \o expr(1) \o words[s.data[2]]
              [] s.kind = "if" ->
                   Sign("if") \o expr(1) \o words[s.data[2]]
                     \o (IF s.data[3] = NoNode THEN <<>> ELSE Sign("else") \o words[s.data[3]])
              [] s.kind = "block" ->
                   Between("{", FlattenSeq([k \in 1 .. s.data[2] |->
                                              words[s.data[1] + k - 1]]), "}")
  IN  words

\* astDebug(), with debugFunction(); with the functions given.
AstWords(ast, functions) ==
  LET statements == StatementWords(ast)
  IN  FlattenSeq([i \in DOMAIN functions |->
                    Sign("func") \o Name(functions[i].name) \o statements[functions[i].body]])
------------------------------------------------------------------------------
\* hirTypeShow()
TypeWords(types) ==
  LET words[t \in DOMAIN types] ==
        CASE types[t].kind \in {"void", "i64"} -> Sign(types[t].kind)
          [] types[t].kind = "pointer" -> Sign("*") \o words[types[t].child]
          [] types[t].kind = "array" ->
               Between("[", Word("number", types[t].count), "]") \o words[types[t].child]
  IN  words

\* debugNode()
NodeWords(nodes, locals) ==
  LET words[i \in DOMAIN nodes] ==
        LET n == nodes[i]
            child(k) == words[n.data[k]]
            list == [k \in 1 .. n.data[2] |-> words[n.data[1] + k - 1]]
        IN  CASE n.kind = "missing" -> MissingSign
              [] n.kind = "int_literal" -> Word("number", n.data[1])
              [] n.kind = "variable" -> Word("identifier", locals[n.data[1]].name)
              [] n.kind \in BinaryOperators ->
                   Between("(", child(1) \o Sign(n.kind) \o child(2), ")")
              [] n.kind = "address_of" -> Sign("&") \o Between("(", child(1), ")")
              [] n.kind = "dereference" -> Sign("*") \o Between("(", child(1), ")")
              [] n.kind = "index" -> Between("(", child(1), ")") \o Between("[", child(2), "]")
              [] n.kind = "array_literal" ->
                   Between("[", IF n.data[2] = 1 THEN list[1]
                                ELSE FlattenSeq([k \in DOMAIN list |-> list[k] \o Sign(",")]), "]")
              [] n.kind = "assign" -> Sign("set") \o child(1) \o Sign("=") \o child(2)
              [] n.kind = "if" ->
                   Sign("if") \o child(1) \o child(2)
                     \o (IF n.data[3] = NoNode THEN <<>> ELSE Sign("else") \o child(3))
              [] n.kind = "while" -> Sign("while") \o child(1) \o child(2)
              [] n.kind = "return" -> Sign("return") \o child(1)
              [] n.kind = "block" -> Between("{", FlattenSeq(list), "}")
  IN  words

\* debugFunction() of lower.c: the names and types of the locals, then the body.
LocalWords(hir, f) ==
  LET types == TypeWords(hir.types)
  IN  [k \in 1 .. f.locals_count |->
         LET local == hir.locals[f.locals_start + k]
         IN  Sign("var") \o Word("identifier", local.name) \o types[local.type]]

\* hirDebug(), with the functions given.
HirWords(hir, functions) ==
  LET nodes == NodeWords(hir.nodes, hir.locals)
  IN  FlattenSeq([i \in DOMAIN functions |->
                    Sign("func") \o Word("identifier", functions[i].name)
                      \o FlattenSeq(LocalWords(hir, functions[i])) \o nodes[functions[i].body]])
==============================================================================
