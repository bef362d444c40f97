------------------------------ MODULE LowerProofs ------------------------------
(***************************************************************************)
(* Proofs about Lower, for all ASTs the parser may leave and whatever the  *)
(* limits and the padding of types: the type invariant, that builders      *)
(* share the arena, and that the HIR is well typed and a forest.           *)
(*                                                                         *)
(* What is known of a node or a frame depends on the nodes, locals and     *)
(* types there are.  They are the parameter g of the definitions here,     *)
(* because what is known has to stay true as they become more.             *)
(***************************************************************************)
EXTENDS Lower, SequenceTheorems, FiniteSetTheorems, WellFoundedInduction, TLAPS

Tables(n, l, t) == [nodes |-> n, locals |-> l, types |-> t]
Now == Tables(nodes, locals, types)

Extends(s, t) == Len(s) <= Len(t) /\ \A i \in 1 .. Len(s) : t[i] = s[i]
Grows(g, h) ==
  Extends(g.nodes, h.nodes) /\ Extends(g.locals, h.locals) /\ Extends(g.types, h.types)

\* An entry of the table of types has the data of its kind, and follows its child.
TypeKinds == {"void", "i64", "pointer", "array"}
TypeEntries == [kind : TypeKinds, child : Nat, count : Nat, padding : Paddings \cup {0}]
EntryFits(e, children) ==
  /\ e.kind = "void" => e = Void
  /\ e.kind = "i64" => e = I64
  /\ e.kind = "pointer" => e = Pointer(e.child)
  /\ e.kind \in {"pointer", "array"} => e.child \in children
TypesFit(table) ==
  table \in Seq(TypeEntries) /\ \A t \in 1 .. Len(table) : EntryFits(table[t], 1 .. t - 1)
HasVoid(g) == \E t \in 1 .. Len(g.types) : g.types[t] = Void

\* The nodes a node names are there, and so are their types.
NodesOf(g) == [kind : NodeKinds, type : 1 .. Len(g.types), data : Seq(Int), at : Spans]
Refers(g, n) ==
  /\ n.kind = "variable" => n.data[1] \in 1 .. Len(g.locals)
  /\ n.kind \in BinaryOperators \cup {"address_of", "dereference", "index", "assign"} =>
       n.data[1] \in 1 .. Len(g.nodes)
  /\ n.kind \in BinaryOperators \cup {"index", "assign"} => n.data[2] \in 1 .. Len(g.nodes)
  /\ n.kind = "array_literal" =>
       n.data[1] .. n.data[1] + n.data[2] - 1 \subseteq 1 .. Len(g.nodes)

\* WellTypedNode, with the tables of g.
IsElement(g, n, child) == n.type = child \/ g.types[n.type].kind = "void"
Typed(g, n) ==
  LET child(i) == g.nodes[n.data[i]]
      type == g.types[n.type]
  IN  /\ n.kind = "variable" => n.type = g.locals[n.data[1]].type
      /\ n.kind = "address_of" => type = Pointer(child(1).type)
      /\ n.kind = "dereference" => g.types[child(1).type] = Pointer(n.type)
      /\ n.kind = "index" => /\ g.types[child(1).type].kind = "array"
                             /\ g.types[child(1).type].child = n.type
                             /\ g.types[child(2).type] = I64
      /\ n.kind = "assign" => child(1).type = child(2).type
      /\ n.kind \in BinaryOperators => n.type = child(1).type
      /\ n.kind = "array_literal" =>
           /\ type.kind = "array"
           /\ type.count = n.data[2]
           /\ \A i \in n.data[1] .. n.data[1] + n.data[2] - 1 : IsElement(g, g.nodes[i], type.child)

\* The data of a node has what codegen looks for in it.
HasOperands(n) ==
  /\ n.kind \in BinaryOperators \cup {"index", "assign", "while", "array_literal", "block"} =>
       Len(n.data) = 2
  /\ n.kind \in {"address_of", "dereference", "return"} => Len(n.data) = 1
  /\ n.kind = "if" => Len(n.data) = 3
  /\ n.kind \in {"return", "if", "while"} => n.data[1] # NoNode
  /\ n.kind \in {"if", "while"} => n.data[2] # NoNode
  /\ n.kind \in {"array_literal", "block"} => n.data[2] \in Nat

Sound(g, n) == n \in NodesOf(g) /\ Refers(g, n) /\ Typed(g, n) /\ HasOperands(n)
Returned(g, n) == Sound(g, n) /\ n.at \in Ids

Names == {Data(id)[1] : id \in {i \in Ids : Kind(i) = "local_definition"}}
LocalsOf(g) == [name : Names, type : 1 .. Len(g.types), at : Ids]

Shaped(g) ==
  g.nodes \in Seq(NodesOf(g)) /\ g.locals \in Seq(LocalsOf(g)) /\ TypesFit(g.types)
TablesFit(g) == Shaped(g) /\ \A i \in 1 .. Len(g.nodes) : Sound(g, g.nodes[i])
------------------------------------------------------------------------------
(* The stack.                                                              *)

ControlFlow == {"return", "if", "while"}
WithOperands ==
  BinaryOperators \cup ControlFlow \cup {"address_of", "dereference", "index", "local_definition"}

\* The frames at these places wait for a result.
Waiting == {"function", "operands", "element", "block_statement", "assign_lhs", "assign_rhs"}

FramesOf(g) ==
  [at : {"function"}]
    \cup [at : {"lower"}, id : Ids, reads : BOOLEAN]
    \cup [at : {"operands", "finish"}, id : Ids, done : Seq(1 .. Len(g.nodes))]
    \cup [at : {"array", "element", "block", "block_statement"},
          id : Ids, base : Nat, count : Nat, child : 0 .. Len(g.types)]
    \cup [at : {"assign_lhs"}, id : Ids]
    \cup [at : {"assign_rhs"}, id : Ids, lhs : NodesOf(g)]

FrameFits(g, f) ==
  /\ f \in FramesOf(g)
  /\ f.at \in {"operands", "finish"} =>
       /\ Kind(f.id) \in WithOperands
       /\ \A i \in 1 .. Len(f.done) : g.nodes[f.done[i]].at \in Ids
       /\ Kind(f.id) \in ControlFlow => HasVoid(g)
  /\ f.at = "operands" => Len(f.done) < Len(Operands(f.id))
  /\ f.at = "finish" => Len(f.done) = Len(Operands(f.id))
  /\ f.at \in {"array", "element"} =>
       Kind(f.id) = "array_literal" /\ f.child \in 1 .. Len(g.types)
  /\ f.at \in {"block", "block_statement"} => Kind(f.id) = "block"
  /\ f.at \in {"assign_lhs", "assign_rhs"} => Kind(f.id) = "assign"
  /\ f.at = "assign_rhs" => Sound(g, f.lhs)

\* Builders fill the arena up to size: bounds[i] is where what frame i and
\* those below it have pushed ends.
Bounds(bounds, stack, size) ==
  /\ bounds \in [1 .. Len(stack) + 1 -> Nat]
  /\ bounds[1] = size
  /\ bounds[Len(stack) + 1] = 0
  /\ \A i, j \in 1 .. Len(stack) + 1 : i <= j => bounds[j] <= bounds[i]
  /\ \A i \in 1 .. Len(stack) :
       /\ IsBuilder(stack[i]) =>
            bounds[i + 1] = stack[i].base /\ bounds[i] = stack[i].base + stack[i].count
       /\ ~IsBuilder(stack[i]) => bounds[i + 1] = bounds[i]
Fill(stack, size) == \E bounds : Bounds(bounds, stack, size)

\* The elements of a literal have its child type, or none.
ElementsFit(g, f, arena) ==
  f.at \in {"array", "element"} =>
    \A k \in f.base + 1 .. f.base + f.count : IsElement(g, arena[k], f.child)

\* function() is at the bottom of the stack and nowhere else.
Pending(g, stack, arena, size) ==
  /\ stack \in Seq(FramesOf(g))
  /\ \A i \in 1 .. Len(stack) : /\ FrameFits(g, stack[i])
                                /\ stack[i].at = "function" => i = Len(stack)
                                /\ ElementsFit(g, stack[i], arena)
  /\ Fill(stack, size)

ArenaFits(g, arena) ==
  arena \in Seq(NodesOf(g)) /\ \A k \in 1 .. Len(arena) : Sound(g, arena[k])
ResultFits(g, stack, r) ==
  /\ Returned(g, r) \/ r = NoResult
  /\ stack # <<>> /\ stack[1].at \in Waiting => Returned(g, r)

Messages ==
  {"undefined_variable", "cannot_dereference", "non-integer_index", "cannot_index",
   "mistyped_element", "cannot_shadow", "mismatched_assignment", "unused_variable"}
Diagnostics == [severity : {"error", "warning"}, what : Messages, at : Ids]
Statuses ==
  {"running", "done", "too_many_nodes", "too_many_locals", "too_many_types",
   "too_many_diagnostics", "message_too_long"}
FunctionsFit ==
  /\ IsSequence(functions)
  /\ \A f \in DOMAIN functions :
       /\ functions[f].body \in DOMAIN nodes
       /\ functions[f].locals_start \in Nat /\ functions[f].locals_count \in Nat
       /\ functions[f].locals_start + functions[f].locals_count \in 0 .. Len(locals)

IInv ==
  /\ ast \in Asts
  /\ next \in 1 .. Len(ast.functions) + 1
  /\ calls # <<>> => next <= Len(ast.functions)
  /\ start \in 0 .. Len(locals)
  /\ FunctionsFit
  /\ used \subseteq 1 .. Len(locals)
  /\ diagnostics \in Seq(Diagnostics)
  /\ status \in Statuses
  /\ TablesFit(Now)
  /\ ArenaFits(Now, temp)
  /\ Pending(Now, calls, temp, Len(temp))
  /\ ResultFits(Now, calls, result)
------------------------------------------------------------------------------
(* The AST.                                                                *)

LEMMA IdKinds ==
  ASSUME NEW id \in Ids
  PROVE  \/ /\ id[1] = "expression" /\ id[2] \in DOMAIN ast.expressions
            /\ id = Expression(id[2])
            /\ Kind(id) = ast.expressions[id[2]].kind /\ Data(id) = ast.expressions[id[2]].data
         \/ /\ id[1] = "statement" /\ id[2] \in DOMAIN ast.statements
            /\ id = Statement(id[2])
            /\ Kind(id) = ast.statements[id[2]].kind /\ Data(id) = ast.statements[id[2]].data
BY DEF Ids, Kind, Data, Ast, Expression, Statement

LEMMA IdFact ==
  /\ \A i \in DOMAIN ast.expressions : Expression(i) \in Ids
  /\ \A i \in DOMAIN ast.statements : Statement(i) \in Ids
BY DEF Ids, Expression, Statement

LEMMA Members ==
  ASSUME NEW S, NEW s \in Seq(S)
  PROVE  Len(s) \in Nat /\ DOMAIN s = 1 .. Len(s) /\ \A i \in 1 .. Len(s) : s[i] \in S
OBVIOUS

\* What is known of a node of the AST by its kind.
NodeFits(id) ==
  LET d == Data(id)
      exprs == DOMAIN ast.expressions
      stmts == DOMAIN ast.statements
  IN  /\ Kind(id) = "int_literal" => d \in Seq(Int)
      /\ Kind(id) \in {"address_of", "dereference", "return", "while", "if"} => d[1] \in exprs
      /\ Kind(id) \in BinaryOperators \cup {"index", "assign"} => d[1] \in exprs /\ d[2] \in exprs
      /\ Kind(id) = "local_definition" => d[2] \in exprs
      /\ Kind(id) \in {"while", "if"} => d[2] \in stmts
      /\ Kind(id) = "if" => d[3] \in stmts \cup {NoNode}
      /\ Kind(id) = "array_literal" => IsList(d, exprs)
      /\ Kind(id) = "block" => IsList(d, stmts)

LEMMA NodeFact ==
  ASSUME ast \in Asts, NEW id \in Ids
  PROVE  NodeFits(id)
<1>1. IsAst(ast)
  BY AstsAssumption
<1>2. ASSUME NEW i \in DOMAIN ast.expressions, id = Expression(i),
             Kind(id) = ast.expressions[i].kind, Data(id) = ast.expressions[i].data
      PROVE  NodeFits(id)
  <2>1. IsExpression(ast.expressions[i], DOMAIN ast.expressions)
    BY <1>1 DEF IsAst
  <2> QED BY <1>2, <2>1 DEF IsExpression, NodeFits, BinaryOperators
<1>3. ASSUME NEW i \in DOMAIN ast.statements, id = Statement(i),
             Kind(id) = ast.statements[i].kind, Data(id) = ast.statements[i].data
      PROVE  NodeFits(id)
  <2>1. IsStatement(ast.statements[i], DOMAIN ast.expressions, DOMAIN ast.statements)
    BY <1>1 DEF IsAst
  <2> QED BY <1>3, <2>1 DEF IsStatement, NodeFits, BinaryOperators
<1> QED BY <1>2, <1>3, IdKinds

\* The operands of a node are in the AST, and there is at least one.
LEMMA OperandsFact ==
  ASSUME ast \in Asts, NEW id \in Ids, Kind(id) \in WithOperands
  PROVE  /\ Len(Operands(id)) \in 1 .. 3
         /\ \A i \in 1 .. Len(Operands(id)) : Operands(id)[i] \in Ids
         /\ Kind(id) \in BinaryOperators \cup {"index", "while"} => Len(Operands(id)) = 2
         /\ Kind(id) \in {"address_of", "dereference", "return"} => Len(Operands(id)) = 1
         /\ Kind(id) = "if" => Len(Operands(id)) \in {2, 3}
<1> DEFINE d == Data(id)
<1>1. NodeFits(id)
  BY NodeFact
<1>2. CASE Kind(id) \in BinaryOperators \cup {"index"}
  <2>1. Operands(id) = <<Expression(d[1]), Expression(d[2])>>
    BY <1>2 DEF Operands, BinaryOperators
  <2>2. Expression(d[1]) \in Ids /\ Expression(d[2]) \in Ids
    BY <1>1, <1>2, IdFact DEF NodeFits
  <2> QED BY <1>2, <2>1, <2>2 DEF BinaryOperators
<1>3. CASE Kind(id) \in {"address_of", "dereference", "return"}
  <2>1. Operands(id) = <<Expression(d[1])>>
    BY <1>3 DEF Operands, BinaryOperators
  <2>2. Expression(d[1]) \in Ids
    BY <1>1, <1>3, IdFact DEF NodeFits
  <2> QED BY <1>3, <2>1, <2>2 DEF BinaryOperators
<1>4. CASE Kind(id) = "local_definition"
  <2>1. Operands(id) = <<Expression(d[2])>>
    BY <1>4 DEF Operands, BinaryOperators
  <2>2. Expression(d[2]) \in Ids
    BY <1>1, <1>4, IdFact DEF NodeFits
  <2> QED BY <1>4, <2>1, <2>2 DEF BinaryOperators
<1>5. CASE Kind(id) = "while"
  <2>1. Operands(id) = <<Expression(d[1]), Statement(d[2])>>
    BY <1>5 DEF Operands, BinaryOperators
  <2>2. Expression(d[1]) \in Ids /\ Statement(d[2]) \in Ids
    BY <1>1, <1>5, IdFact DEF NodeFits
  <2> QED BY <1>5, <2>1, <2>2 DEF BinaryOperators
<1>6. CASE Kind(id) = "if"
  <2>1. Operands(id) = <<Expression(d[1]), Statement(d[2])>> \o
                         (IF d[3] = NoNode THEN <<>> ELSE <<Statement(d[3])>>)
    BY <1>6 DEF Operands, BinaryOperators
  <2>2. Expression(d[1]) \in Ids /\ Statement(d[2]) \in Ids
        /\ (d[3] # NoNode => Statement(d[3]) \in Ids)
    BY <1>1, <1>6, IdFact DEF NodeFits
  <2>3. CASE d[3] = NoNode
    <3>1. Operands(id) = <<Expression(d[1]), Statement(d[2])>>
      BY <2>1, <2>3
    <3> QED BY <1>6, <2>2, <3>1 DEF BinaryOperators
  <2>4. CASE d[3] # NoNode
    <3>1. ASSUME NEW a \in Ids, NEW b \in Ids, NEW c \in Ids
          PROVE  <<a, b>> \o <<c>> \in Seq(Ids) /\ Len(<<a, b>> \o <<c>>) = 3
      <4>1. <<a, b>> \in Seq(Ids) /\ <<c>> \in Seq(Ids)
        OBVIOUS
      <4> QED BY <4>1
    <3>2. Operands(id) = <<Expression(d[1]), Statement(d[2])>> \o <<Statement(d[3])>>
      BY <2>1, <2>4
    <3>3. Operands(id) \in Seq(Ids) /\ Len(Operands(id)) = 3
      BY <2>2, <2>4, <3>1, <3>2
    <3>4. Kind(id) \notin BinaryOperators \cup {"index", "while"}
      BY <1>6 DEF BinaryOperators
    <3>5. PICK s \in Seq(Ids) : s = Operands(id) /\ Len(s) = 3
      BY <3>3
    <3>6. \A i \in 1 .. Len(s) : s[i] \in Ids
      BY Members
    <3> QED BY <1>6, <3>4, <3>5, <3>6
  <2> QED BY <2>3, <2>4
<1> QED BY <1>2, <1>3, <1>4, <1>5, <1>6 DEF WithOperands, ControlFlow

LEMMA FunctionsOfAst ==
  ASSUME ast \in Asts
  PROVE  /\ Len(ast.functions) \in Nat
         /\ \A i \in 1 .. Len(ast.functions) : Statement(ast.functions[i].body) \in Ids
<1>1. IsAst(ast)
  BY AstsAssumption
<1>2. Len(ast.functions) \in Nat /\ DOMAIN ast.functions = 1 .. Len(ast.functions)
  BY <1>1 DEF IsAst, IsSequence
<1> QED BY <1>1, <1>2, IdFact DEF IsAst
------------------------------------------------------------------------------
(* Tables that grow.                                                       *)

LEMMA ExtendsItself == ASSUME NEW S, NEW s \in Seq(S) PROVE Extends(s, s)
BY DEF Extends

LEMMA ExtendsConcat ==
  ASSUME NEW S, NEW s \in Seq(S), NEW t \in Seq(S)
  PROVE  Extends(s, s \o t)
BY DEF Extends

LEMMA ExtendsAppend ==
  ASSUME NEW S, NEW s \in Seq(S), NEW e \in S
  PROVE  Extends(s, Append(s, e))
BY DEF Extends

\* What allocateType() gives: the table with the entry in it.
WithEntry(table, e, w) ==
  /\ Extends(table, w.table)
  /\ TypesFit(w.table)
  /\ w.index \in 1 .. Len(w.table)
  /\ w.table[w.index] = e
  /\ (\E t \in 1 .. Len(table) : table[t] = e) => w.index \in 1 .. Len(table)

LEMMA WithTypeFact ==
  ASSUME NEW table, TypesFit(table), NEW e \in TypeEntries, EntryFits(e, 1 .. Len(table))
  PROVE  WithEntry(table, e, WithType(table, e))
<1> DEFINE known == {t \in DOMAIN table : table[t] = e}
           w == WithType(table, e)
<1>1. table \in Seq(TypeEntries) /\ Len(table) \in Nat
  BY DEF TypesFit
<1>2. CASE known = {}
  <2>1. w.table = Append(table, e) /\ w.index = Len(table) + 1
    BY <1>2 DEF WithType
  <2>2. Extends(table, w.table)
    BY <1>1, <2>1, ExtendsAppend
  <2>3. w.table \in Seq(TypeEntries) /\ Len(w.table) = Len(table) + 1 /\ w.table[w.index] = e
    BY <1>1, <2>1
  <2>4. ASSUME NEW t \in 1 .. Len(w.table) PROVE EntryFits(w.table[t], 1 .. t - 1)
    <3>1. CASE t = Len(table) + 1
      BY <1>1, <2>1, <3>1 DEF EntryFits
    <3>2. CASE t # Len(table) + 1
      <4>1. t \in 1 .. Len(table) /\ w.table[t] = table[t]
        BY <1>1, <2>1, <2>3, <3>2
      <4> QED BY <4>1 DEF TypesFit
    <3> QED BY <3>1, <3>2
  <2>5. ~\E t \in 1 .. Len(table) : table[t] = e
    BY <1>1, <1>2
  <2> QED BY <1>1, <2>1, <2>2, <2>3, <2>4, <2>5 DEF WithEntry, TypesFit
<1>3. CASE known # {}
  <2>1. w.table = table /\ w.index \in known
    BY <1>3 DEF WithType
  <2>2. w.index \in 1 .. Len(table) /\ table[w.index] = e
    BY <1>1, <2>1
  <2>3. Extends(table, table)
    BY <1>1, ExtendsItself
  <2> QED BY <2>1, <2>2, <2>3 DEF WithEntry
<1> QED BY <1>2, <1>3

LEMMA EntriesFact ==
  /\ Void \in TypeEntries /\ I64 \in TypeEntries
  /\ \A children : EntryFits(Void, children) /\ EntryFits(I64, children)
  /\ \A c \in Nat : Pointer(c) \in TypeEntries /\ (\A children : c \in children => EntryFits(Pointer(c), children))
  /\ \A c \in Nat, n \in Nat, p \in Paddings :
       /\ Array(c, n, p) \in TypeEntries
       /\ \A children : c \in children => EntryFits(Array(c, n, p), children)
BY DEF Void, I64, Pointer, Array, Type, TypeEntries, TypeKinds, EntryFits
------------------------------------------------------------------------------
(* Builders on the stack.                                                  *)

LEMMA FillEmpty ==
  /\ Fill(<<>>, 0)
  /\ \A size : Fill(<<>>, size) => size = 0
<1> DEFINE b == [i \in 1 .. 1 |-> 0]
<1>1. Len(<<>>) = 0
  OBVIOUS
<1>2. Bounds(b, <<>>, 0)
  BY <1>1 DEF Bounds
<1> HIDE DEF b
<1>3. Fill(<<>>, 0)
  BY <1>2 DEF Fill
<1>4. ASSUME NEW size, Fill(<<>>, size) PROVE size = 0
  BY <1>1, <1>4 DEF Fill, Bounds
<1> QED BY <1>3, <1>4

\* What the stack below the first frame fills.
LEMMA FillBelow ==
  ASSUME NEW S, NEW s \in Seq(S), s # <<>>, NEW size \in Nat, Fill(s, size)
  PROVE  /\ IsBuilder(s[1]) => /\ s[1].base \in Nat /\ s[1].base <= size
                               /\ s[1].base + s[1].count = size /\ Fill(Tail(s), s[1].base)
         /\ ~IsBuilder(s[1]) => Fill(Tail(s), size)
<1>1. PICK b : Bounds(b, s, size)
  BY DEF Fill
<1>2. PICK t \in Seq(S) : t = Tail(s)
  <2>1. Tail(s) \in Seq(S)
    OBVIOUS
  <2> QED BY <2>1
<1>3. PICK n \in Nat : n = Len(t)
  OBVIOUS
<1>4. Len(s) = n + 1 /\ \A i \in 1 .. n : t[i] = s[i + 1]
  BY <1>2, <1>3
<1>5. /\ b \in [1 .. n + 2 -> Nat] /\ b[1] = size /\ b[n + 2] = 0
      /\ \A i, j \in 1 .. n + 2 : i <= j => b[j] <= b[i]
      /\ \A i \in 1 .. n + 1 :
           /\ IsBuilder(s[i]) => b[i + 1] = s[i].base /\ b[i] = s[i].base + s[i].count
           /\ ~IsBuilder(s[i]) => b[i + 1] = b[i]
  BY <1>1, <1>4 DEF Bounds
<1> DEFINE c == [i \in 1 .. n + 1 |-> b[i + 1]]
<1>6. Bounds(c, t, b[2])
  <2>1. \A i \in 1 .. n + 1 : i + 1 \in 1 .. n + 2 /\ c[i] = b[i + 1]
    OBVIOUS
  <2>2. c \in [1 .. n + 1 -> Nat]
    BY <1>5
  <2>3. c[1] = b[2] /\ c[n + 1] = 0
    BY <1>5
  <2> HIDE DEF c
  <2>4. ASSUME NEW i \in 1 .. n + 1, NEW j \in 1 .. n + 1, i <= j PROVE c[j] <= c[i]
    BY <1>5, <2>1, <2>4
  <2>5. ASSUME NEW i \in 1 .. n
        PROVE  /\ IsBuilder(t[i]) => c[i + 1] = t[i].base /\ c[i] = t[i].base + t[i].count
               /\ ~IsBuilder(t[i]) => c[i + 1] = c[i]
    <3>1. i + 1 \in 1 .. n + 1 /\ i \in 1 .. n + 1 /\ t[i] = s[i + 1]
      BY <1>4
    <3> QED BY <1>5, <2>1, <3>1
  <2> QED BY <1>3, <2>2, <2>3, <2>4, <2>5 DEF Bounds
<1> HIDE DEF c
<1>7. Fill(t, b[2])
  BY <1>6 DEF Fill
<1>8. 1 \in 1 .. n + 1 /\ 2 \in 1 .. n + 2 /\ 1 \in 1 .. n + 2
  OBVIOUS
<1>9. b[2] \in Nat /\ b[2] <= size
  BY <1>5, <1>8
<1>10. /\ IsBuilder(s[1]) => b[2] = s[1].base /\ size = s[1].base + s[1].count
       /\ ~IsBuilder(s[1]) => b[2] = size
  BY <1>5, <1>8
<1> QED BY <1>2, <1>7, <1>9, <1>10

\* What the stack fills with one more frame.
LEMMA FillAbove ==
  ASSUME NEW S, NEW t \in Seq(S), NEW f \in S, NEW size \in Nat, NEW more \in Nat,
         Fill(t, size), IsBuilder(f) => f.base = size /\ f.count = more,
         ~IsBuilder(f) => more = 0
  PROVE  Fill(<<f>> \o t, size + more)
<1>1. PICK b : Bounds(b, t, size)
  BY DEF Fill
<1>2. PICK s \in Seq(S) : s = <<f>> \o t
  <2>1. <<f>> \o t \in Seq(S)
    OBVIOUS
  <2> QED BY <2>1
<1>3. PICK n \in Nat : n = Len(t)
  OBVIOUS
<1>4. Len(s) = n + 1 /\ s[1] = f /\ \A i \in 2 .. n + 1 : s[i] = t[i - 1]
  BY <1>2, <1>3
<1>5. /\ b \in [1 .. n + 1 -> Nat] /\ b[1] = size /\ b[n + 1] = 0
      /\ \A i, j \in 1 .. n + 1 : i <= j => b[j] <= b[i]
      /\ \A i \in 1 .. n :
           /\ IsBuilder(t[i]) => b[i + 1] = t[i].base /\ b[i] = t[i].base + t[i].count
           /\ ~IsBuilder(t[i]) => b[i + 1] = b[i]
  BY <1>1, <1>3 DEF Bounds
<1> DEFINE c == [i \in 1 .. n + 2 |-> IF i = 1 THEN size + more ELSE b[i - 1]]
<1>6. Bounds(c, s, size + more)
  <2>1. c[1] = size + more /\ \A i \in 2 .. n + 2 : i - 1 \in 1 .. n + 1 /\ c[i] = b[i - 1]
    OBVIOUS
  <2>2. c \in [1 .. n + 2 -> Nat]
    BY <1>5
  <2> HIDE DEF c
  <2>3. c[2] = size /\ c[n + 2] = 0
    BY <1>5, <2>1
  <2>4. ASSUME NEW i \in 1 .. n + 2, NEW j \in 1 .. n + 2, i <= j PROVE c[j] <= c[i]
    <3>1. CASE i = 1 /\ j = 1
      BY <2>2, <3>1
    <3>2. CASE i = 1 /\ j # 1
      <4>1. j - 1 \in 1 .. n + 1 /\ 1 \in 1 .. n + 1 /\ 1 <= j - 1 /\ c[j] = b[j - 1]
        BY <2>1, <3>2
      <4>2. b[j - 1] <= size /\ b[j - 1] \in Nat
        BY <1>5, <4>1
      <4> QED BY <2>1, <3>2, <4>1, <4>2
    <3>3. CASE i # 1
      <4>1. j - 1 \in 1 .. n + 1 /\ i - 1 \in 1 .. n + 1 /\ i - 1 <= j - 1
            /\ c[j] = b[j - 1] /\ c[i] = b[i - 1]
        BY <2>1, <2>4, <3>3
      <4> QED BY <1>5, <4>1
    <3> QED BY <3>1, <3>2, <3>3
  <2>5. ASSUME NEW i \in 1 .. n + 1
        PROVE  /\ IsBuilder(s[i]) => c[i + 1] = s[i].base /\ c[i] = s[i].base + s[i].count
               /\ ~IsBuilder(s[i]) => c[i + 1] = c[i]
    <3>1. CASE i = 1
      BY <1>4, <2>1, <2>3, <3>1
    <3>2. CASE i # 1
      <4>1. PICK k \in 1 .. n : k = i - 1
        BY <3>2
      <4>2. s[i] = t[k] /\ c[i + 1] = b[k + 1] /\ c[i] = b[k]
        BY <1>4, <2>1, <3>2, <4>1
      <4> QED BY <1>5, <4>2
    <3> QED BY <3>1, <3>2
  <2>6. Len(s) + 1 = n + 2
    BY <1>4
  <2> QED BY <1>4, <2>1, <2>2, <2>3, <2>4, <2>5, <2>6 DEF Bounds
<1> HIDE DEF c
<1> QED BY <1>2, <1>6 DEF Fill

LEMMA FillBounds ==
  ASSUME NEW S, NEW s \in Seq(S), NEW size \in Nat, Fill(s, size),
         NEW i \in 1 .. Len(s), IsBuilder(s[i])
  PROVE  s[i].base + s[i].count <= size
<1>1. PICK b : Bounds(b, s, size)
  BY DEF Fill
<1>2. i \in 1 .. Len(s) + 1 /\ 1 \in 1 .. Len(s) + 1 /\ 1 <= i
  OBVIOUS
<1>3. b[i] <= b[1] /\ b[1] = size
  BY <1>1, <1>2 DEF Bounds
<1>4. b[i] = s[i].base + s[i].count
  BY <1>1 DEF Bounds
<1> QED BY <1>3, <1>4

\* Between two builders next to one another the bound stays.
LEMMA BoundStays ==
  ASSUME NEW S, calls \in Seq(S), NEW size \in Nat, NEW b, Bounds(b, calls, size),
         NEW i \in 1 .. Len(calls) + 1, NEW j \in i .. Len(calls) + 1, NoBuilder(i, j - 1)
  PROVE  b[j] = b[i]
<1> DEFINE Changed == {k \in i .. j : b[k] # b[i]}
<1>1. SUFFICES ASSUME Changed # {} PROVE FALSE
  OBVIOUS
<1>2. Changed \subseteq Nat
  OBVIOUS
<1> HIDE DEF Changed
<1>3. PICK k \in Changed : \A m \in Changed : ~(<<m, k>> \in OpToRel(<, Nat))
  BY <1>1, <1>2, NatLessThanWellFounded, WFMin
<1>4. k \in i .. j /\ b[k] # b[i]
  BY <1>3 DEF Changed
<1>5. k - 1 \in i .. j - 1 /\ k - 1 \in 1 .. Len(calls)
  BY <1>4
<1>6. b[k] = b[k - 1]
  <2>1. ~IsBuilder(calls[k - 1])
    BY <1>5 DEF NoBuilder
  <2>2. PICK m \in 1 .. Len(calls) : m = k - 1 /\ k = m + 1
    BY <1>4, <1>5
  <2> QED BY <2>1, <2>2 DEF Bounds
<1>7. k - 1 \in Changed
  BY <1>4, <1>5, <1>6 DEF Changed
<1>8. <<k - 1, k>> \in OpToRel(<, Nat)
  BY <1>2, <1>4, <1>7 DEF OpToRel
<1> QED BY <1>3, <1>7, <1>8

LEMMA FillNested ==
  ASSUME NEW S, calls \in Seq(S), NEW T, temp \in Seq(T), Fill(calls, Len(temp))
  PROVE  BuildersNested
<1>1. PICK n \in Nat, size \in Nat : n = Len(calls) /\ size = Len(temp)
  OBVIOUS
<1>2. PICK b : Bounds(b, calls, size)
  BY <1>1 DEF Fill
<1>3. /\ b[1] = size /\ b[n + 1] = 0
      /\ \A i \in 1 .. n : IsBuilder(calls[i]) =>
           b[i + 1] = calls[i].base /\ b[i] = calls[i].base + calls[i].count
  BY <1>1, <1>2 DEF Bounds
<1>4. ASSUME NEW i \in 1 .. n + 1, NEW j \in i .. n + 1, NoBuilder(i, j - 1) PROVE b[j] = b[i]
  BY <1>1, <1>2, <1>4, BoundStays
<1>5. NoBuilder(1, n) => temp = <<>>
  <2>1. NoBuilder(1, (n + 1) - 1) => b[n + 1] = b[1]
    BY <1>4
  <2>2. (n + 1) - 1 = n
    OBVIOUS
  <2> QED BY <1>1, <1>3, <2>1, <2>2
<1>6. ASSUME NEW i \in 1 .. n, IsBuilder(calls[i])
      PROVE  /\ NoBuilder(1, i - 1) => calls[i].base + calls[i].count = size
             /\ \A j \in 1 .. i - 1 : IsBuilder(calls[j]) /\ NoBuilder(j + 1, i - 1) =>
                  calls[i].base + calls[i].count = calls[j].base
             /\ NoBuilder(i + 1, n) => calls[i].base = 0
  <2>1. b[i + 1] = calls[i].base /\ b[i] = calls[i].base + calls[i].count
    BY <1>3, <1>6
  <2>2. NoBuilder(1, i - 1) => b[i] = b[1]
    BY <1>4
  <2>3. ASSUME NEW j \in 1 .. i - 1, IsBuilder(calls[j]), NoBuilder(j + 1, i - 1)
        PROVE  calls[i].base + calls[i].count = calls[j].base
    <3>1. j \in 1 .. n /\ j + 1 \in 1 .. n + 1 /\ i \in j + 1 .. n + 1
      OBVIOUS
    <3>2. b[i] = b[j + 1]
      BY <1>4, <2>3, <3>1
    <3>3. b[j + 1] = calls[j].base
      BY <1>3, <2>3, <3>1
    <3> QED BY <2>1, <3>2, <3>3
  <2>4. NoBuilder(i + 1, n) => calls[i].base = 0
    <3>1. i + 1 \in 1 .. n + 1 /\ n + 1 \in i + 1 .. n + 1 /\ (n + 1) - 1 = n
      OBVIOUS
    <3>2. NoBuilder(i + 1, n) => b[n + 1] = b[i + 1]
      BY <1>4, <3>1
    <3> QED BY <1>3, <2>1, <3>2
  <2> QED BY <1>3, <2>1, <2>2, <2>3, <2>4
<1>7. \A i \in {k \in DOMAIN calls : IsBuilder(calls[k])} : i \in 1 .. n /\ IsBuilder(calls[i])
  BY <1>1
<1> QED BY <1>1, <1>5, <1>6, <1>7 DEF BuildersNested
------------------------------------------------------------------------------
(* What is known stays true as the tables grow.                            *)

LEMMA GrowFact ==
  ASSUME NEW g, NEW h, Shaped(g), Shaped(h), Grows(g, h)
  PROVE  /\ Len(g.nodes) \in Nat /\ Len(h.nodes) \in Nat /\ Len(g.nodes) <= Len(h.nodes)
         /\ Len(g.locals) \in Nat /\ Len(h.locals) \in Nat /\ Len(g.locals) <= Len(h.locals)
         /\ Len(g.types) \in Nat /\ Len(h.types) \in Nat /\ Len(g.types) <= Len(h.types)
         /\ \A i \in 1 .. Len(g.nodes) : h.nodes[i] = g.nodes[i] /\ g.nodes[i] \in NodesOf(g)
         /\ \A i \in 1 .. Len(g.locals) : h.locals[i] = g.locals[i]
         /\ \A i \in 1 .. Len(g.types) : h.types[i] = g.types[i]
<1>1. /\ g.nodes \in Seq(NodesOf(g)) /\ h.nodes \in Seq(NodesOf(h))
      /\ g.locals \in Seq(LocalsOf(g)) /\ h.locals \in Seq(LocalsOf(h))
      /\ g.types \in Seq(TypeEntries) /\ h.types \in Seq(TypeEntries)
  BY DEF Shaped, TypesFit
<1>2. /\ Len(g.nodes) \in Nat /\ Len(h.nodes) \in Nat
      /\ \A i \in 1 .. Len(g.nodes) : g.nodes[i] \in NodesOf(g)
  BY <1>1, Members
<1>3. Len(g.locals) \in Nat /\ Len(h.locals) \in Nat
  BY <1>1, Members
<1>4. Len(g.types) \in Nat /\ Len(h.types) \in Nat
  BY <1>1, Members
<1>5. Extends(g.nodes, h.nodes) /\ Extends(g.locals, h.locals) /\ Extends(g.types, h.types)
  BY DEF Grows
<1> QED BY <1>2, <1>3, <1>4, <1>5 DEF Extends

LEMMA SetsGrow ==
  ASSUME NEW g, NEW h, Shaped(g), Shaped(h), Grows(g, h)
  PROVE  NodesOf(g) \subseteq NodesOf(h) /\ FramesOf(g) \subseteq FramesOf(h)
<1>1. 1 .. Len(g.types) \subseteq 1 .. Len(h.types)
      /\ 0 .. Len(g.types) \subseteq 0 .. Len(h.types)
      /\ 1 .. Len(g.nodes) \subseteq 1 .. Len(h.nodes)
  BY GrowFact
<1>2. NodesOf(g) \subseteq NodesOf(h)
  BY <1>1 DEF NodesOf
<1>3. Seq(1 .. Len(g.nodes)) \subseteq Seq(1 .. Len(h.nodes))
  <2>1. \A S, T : S \subseteq T => Seq(S) \subseteq Seq(T)
    OBVIOUS
  <2> QED BY <1>1, <2>1
<1>4. FramesOf(g) \subseteq FramesOf(h)
  BY <1>1, <1>2, <1>3 DEF FramesOf
<1> QED BY <1>2, <1>4

LEMMA SoundStays ==
  ASSUME NEW g, NEW h, Shaped(g), Shaped(h), Grows(g, h), NEW n, Sound(g, n)
  PROVE  Sound(h, n)
<1>1. n \in NodesOf(g) /\ Refers(g, n) /\ Typed(g, n) /\ HasOperands(n)
  BY DEF Sound
<1>2. n \in NodesOf(h)
  BY <1>1, SetsGrow
<1>3. Refers(h, n)
  BY <1>1, GrowFact DEF Refers
<1>4. n.type \in 1 .. Len(g.types) /\ h.types[n.type] = g.types[n.type]
  BY <1>1, GrowFact DEF NodesOf
<1>5. ASSUME NEW i \in 1 .. Len(g.nodes)
      PROVE  /\ h.nodes[i] = g.nodes[i] /\ g.nodes[i].type \in 1 .. Len(g.types)
             /\ h.types[g.nodes[i].type] = g.types[g.nodes[i].type]
  BY GrowFact DEF NodesOf
<1>6. /\ n.kind = "variable" => n.type = h.locals[n.data[1]].type
      /\ n.kind \in BinaryOperators => n.type = h.nodes[n.data[1]].type
      /\ n.kind = "assign" => h.nodes[n.data[1]].type = h.nodes[n.data[2]].type
  <2>1. n.kind = "variable" => n.type = h.locals[n.data[1]].type
    BY <1>1, GrowFact DEF Refers, Typed
  <2>2. n.kind \in BinaryOperators => n.type = h.nodes[n.data[1]].type
    BY <1>1, <1>5 DEF Refers, Typed
  <2>3. n.kind = "assign" => h.nodes[n.data[1]].type = h.nodes[n.data[2]].type
    BY <1>1, <1>5 DEF Refers, Typed
  <2> QED BY <2>1, <2>2, <2>3
<1>7. /\ n.kind = "address_of" => h.types[n.type] = Pointer(h.nodes[n.data[1]].type)
      /\ n.kind = "dereference" => h.types[h.nodes[n.data[1]].type] = Pointer(n.type)
  BY <1>1, <1>4, <1>5 DEF Refers, Typed
<1>8. n.kind = "index" => /\ h.types[h.nodes[n.data[1]].type].kind = "array"
                          /\ h.types[h.nodes[n.data[1]].type].child = n.type
                          /\ h.types[h.nodes[n.data[2]].type] = I64
  BY <1>1, <1>5 DEF Refers, Typed
<1>9. n.kind = "array_literal" =>
        /\ h.types[n.type].kind = "array" /\ h.types[n.type].count = n.data[2]
        /\ \A i \in n.data[1] .. n.data[1] + n.data[2] - 1 :
             IsElement(h, h.nodes[i], h.types[n.type].child)
  <2> SUFFICES ASSUME n.kind = "array_literal",
                      NEW i \in n.data[1] .. n.data[1] + n.data[2] - 1
               PROVE  IsElement(h, h.nodes[i], h.types[n.type].child)
    BY <1>1, <1>4 DEF Typed
  <2>1. i \in 1 .. Len(g.nodes) /\ IsElement(g, g.nodes[i], g.types[n.type].child)
    BY <1>1 DEF Refers, Typed
  <2> QED BY <1>4, <1>5, <2>1 DEF IsElement
<1>10. Typed(h, n)
  BY <1>6, <1>7, <1>8, <1>9 DEF Typed
<1> QED BY <1>1, <1>2, <1>3, <1>10 DEF Sound

LEMMA FrameStays ==
  ASSUME NEW g, NEW h, Shaped(g), Shaped(h), Grows(g, h), NEW f, FrameFits(g, f)
  PROVE  FrameFits(h, f)
<1>1. f \in FramesOf(g) /\ f \in FramesOf(h)
  BY SetsGrow DEF FrameFits
<1>2. f.at \in {"operands", "finish"} => \A i \in 1 .. Len(f.done) : h.nodes[f.done[i]].at \in Ids
  <2> SUFFICES ASSUME f.at \in {"operands", "finish"}, NEW i \in 1 .. Len(f.done)
               PROVE  h.nodes[f.done[i]].at \in Ids
    OBVIOUS
  <2>1. f.done \in Seq(1 .. Len(g.nodes))
    BY <1>1 DEF FramesOf
  <2>2. f.done[i] \in 1 .. Len(g.nodes)
    BY <2>1
  <2>3. g.nodes[f.done[i]].at \in Ids
    BY DEF FrameFits
  <2> QED BY <2>2, <2>3, GrowFact
<1>3. HasVoid(g) => HasVoid(h)
  BY GrowFact DEF HasVoid
<1>4. f.at \in {"array", "element"} => f.child \in 1 .. Len(h.types)
  BY GrowFact DEF FrameFits
<1>5. f.at = "assign_rhs" => Sound(h, f.lhs)
  BY SoundStays DEF FrameFits
<1> QED BY <1>1, <1>2, <1>3, <1>4, <1>5 DEF FrameFits

LEMMA ArenaStays ==
  ASSUME NEW g, NEW h, Shaped(g), Shaped(h), Grows(g, h), NEW m, ArenaFits(g, m)
  PROVE  ArenaFits(h, m)
<1>1. m \in Seq(NodesOf(h))
  <2>1. m \in Seq(NodesOf(g)) /\ NodesOf(g) \subseteq NodesOf(h)
    BY SetsGrow DEF ArenaFits
  <2> QED BY <2>1
<1> QED BY <1>1, SoundStays DEF ArenaFits

LEMMA ElementStays ==
  ASSUME NEW g, NEW h, Shaped(g), Shaped(h), Grows(g, h), NEW n \in NodesOf(g),
         NEW child, IsElement(g, n, child)
  PROVE  IsElement(h, n, child)
BY GrowFact DEF IsElement, NodesOf

\* A builder has the fields of one.
LEMMA BuilderFact ==
  ASSUME NEW g, NEW f \in FramesOf(g)
  PROVE  /\ IsBuilder(f) => f.id \in Ids /\ f.base \in Nat /\ f.count \in Nat /\ f.child \in 0 .. Len(g.types)
         /\ f.at \in {"array", "element"} => IsBuilder(f)
BY DEF FramesOf, IsBuilder

\* What waits below depends on the elements it has pushed, not on others.
LEMMA PendingStays ==
  ASSUME NEW g, NEW h, Shaped(g), Shaped(h), Grows(g, h), NEW s, NEW m, NEW size \in Nat,
         Pending(g, s, m, size), ArenaFits(g, m), NEW l,
         \A k \in 1 .. size : k <= Len(m) /\ l[k] = m[k]
  PROVE  Pending(h, s, l, size)
<1>1. s \in Seq(FramesOf(g)) /\ Fill(s, size)
  BY DEF Pending
<1>2. s \in Seq(FramesOf(h))
  <2>1. FramesOf(g) \subseteq FramesOf(h)
    BY SetsGrow
  <2> QED BY <1>1, <2>1
<1>3. ASSUME NEW i \in 1 .. Len(s)
      PROVE  FrameFits(h, s[i]) /\ (s[i].at = "function" => i = Len(s))
  BY FrameStays DEF Pending
<1>4. ASSUME NEW i \in 1 .. Len(s) PROVE ElementsFit(h, s[i], l)
  <2> SUFFICES ASSUME s[i].at \in {"array", "element"},
                      NEW k \in s[i].base + 1 .. s[i].base + s[i].count
               PROVE  IsElement(h, l[k], s[i].child)
    BY DEF ElementsFit
  <2>1. s[i] \in FramesOf(g) /\ IsBuilder(s[i]) /\ s[i].base \in Nat /\ s[i].count \in Nat
    BY <1>1, BuilderFact
  <2>2. s[i].base + s[i].count <= size
    BY <1>1, <2>1, FillBounds
  <2>3. k \in 1 .. size
    BY <2>1, <2>2
  <2>4. k \in 1 .. Len(m) /\ l[k] = m[k]
    BY <2>3
  <2>5. m[k] \in NodesOf(g)
    BY <2>4 DEF ArenaFits
  <2>6. IsElement(g, m[k], s[i].child)
    BY DEF Pending, ElementsFit
  <2> QED BY <2>4, <2>5, <2>6, ElementStays
<1> QED BY <1>1, <1>2, <1>3, <1>4 DEF Pending
------------------------------------------------------------------------------
(* Frames put on the stack and taken from it.                              *)

LEMMA PendingBelow ==
  ASSUME NEW g, NEW s, NEW m, NEW size \in Nat, Pending(g, s, m, size), s # <<>>
  PROVE  /\ s[1] \in FramesOf(g) /\ FrameFits(g, s[1]) /\ ElementsFit(g, s[1], m)
         /\ Tail(s) \in Seq(FramesOf(g))
         /\ s[1].at = "function" => Tail(s) = <<>>
         /\ IsBuilder(s[1]) => /\ s[1].base \in Nat /\ s[1].base <= size
                               /\ s[1].base + s[1].count = size
                               /\ Pending(g, Tail(s), m, s[1].base)
         /\ ~IsBuilder(s[1]) => Pending(g, Tail(s), m, size)
<1>1. s \in Seq(FramesOf(g)) /\ Fill(s, size)
  BY DEF Pending
<1>2. PICK t : t = Tail(s)
  OBVIOUS
<1>3. PICK n \in Nat : n = Len(t)
  BY <1>1, <1>2
<1>4. t \in Seq(FramesOf(g)) /\ Len(s) = n + 1 /\ \A i \in 1 .. n : t[i] = s[i + 1]
  BY <1>1, <1>2, <1>3
<1>5. /\ IsBuilder(s[1]) => /\ s[1].base \in Nat /\ s[1].base <= size
                            /\ s[1].base + s[1].count = size /\ Fill(t, s[1].base)
      /\ ~IsBuilder(s[1]) => Fill(t, size)
  BY <1>1, <1>2, FillBelow
<1>6. ASSUME NEW i \in 1 .. n
      PROVE  FrameFits(g, t[i]) /\ (t[i].at = "function" => i = n) /\ ElementsFit(g, t[i], m)
  <2>1. i + 1 \in 1 .. Len(s) /\ t[i] = s[i + 1]
    BY <1>4
  <2> QED BY <1>4, <2>1 DEF Pending
<1>7. ASSUME NEW k \in Nat, Fill(t, k) PROVE Pending(g, t, m, k)
  BY <1>3, <1>4, <1>6, <1>7 DEF Pending
<1>8. 1 \in 1 .. Len(s)
  BY <1>4
<1>9. s[1] \in FramesOf(g) /\ FrameFits(g, s[1]) /\ ElementsFit(g, s[1], m)
  BY <1>1, <1>8 DEF Pending
<1>10. s[1].at = "function" => t = <<>>
  BY <1>3, <1>4, <1>8 DEF Pending
<1> QED BY <1>2, <1>4, <1>5, <1>7, <1>9, <1>10

LEMMA PendingAbove ==
  ASSUME NEW g, NEW t, NEW m, NEW size \in Nat, Pending(g, t, m, size),
         NEW f, FrameFits(g, f), f.at # "function", ElementsFit(g, f, m), NEW more \in Nat,
         IsBuilder(f) => f.base = size /\ f.count = more, ~IsBuilder(f) => more = 0
  PROVE  Pending(g, <<f>> \o t, m, size + more)
<1>1. t \in Seq(FramesOf(g)) /\ Fill(t, size) /\ f \in FramesOf(g)
  BY DEF Pending, FrameFits
<1>2. PICK s : s = <<f>> \o t
  OBVIOUS
<1>3. PICK n \in Nat : n = Len(t)
  BY <1>1
<1>4. s \in Seq(FramesOf(g)) /\ Len(s) = n + 1 /\ s[1] = f /\ \A i \in 2 .. n + 1 : s[i] = t[i - 1]
  BY <1>1, <1>2, <1>3
<1>5. Fill(s, size + more)
  BY <1>1, <1>2, FillAbove
<1>6. ASSUME NEW i \in 1 .. n + 1
      PROVE  FrameFits(g, s[i]) /\ (s[i].at = "function" => i = n + 1) /\ ElementsFit(g, s[i], m)
  <2>1. CASE i = 1
    BY <1>4, <2>1
  <2>2. CASE i # 1
    <3>1. PICK k \in 1 .. n : k = i - 1
      BY <2>2
    <3>2. s[i] = t[k]
      BY <1>4, <2>2, <3>1
    <3> QED BY <1>3, <3>1, <3>2 DEF Pending
  <2> QED BY <2>1, <2>2
<1> QED BY <1>2, <1>4, <1>5, <1>6 DEF Pending

LEMMA PendingPlain ==
  ASSUME NEW g, NEW t, NEW m, NEW size \in Nat, Pending(g, t, m, size),
         NEW f, FrameFits(g, f), f.at # "function", ~IsBuilder(f)
  PROVE  Pending(g, <<f>> \o t, m, size)
<1>1. ElementsFit(g, f, m)
  BY DEF ElementsFit, IsBuilder
<1>2. Pending(g, <<f>> \o t, m, size + 0)
  BY <1>1, PendingAbove
<1> QED BY <1>2

\* The frames of calls.
LEMMA LowerFits ==
  ASSUME NEW g, NEW id \in Ids, NEW reads \in BOOLEAN,
         NEW f, f = [at |-> "lower", id |-> id, reads |-> reads]
  PROVE  FrameFits(g, f) /\ f.at = "lower" /\ ~IsBuilder(f)
<1>1. f.at = "lower"
  OBVIOUS
<1>2. f \in [at : {"lower"}, id : Ids, reads : BOOLEAN]
  OBVIOUS
<1>3. f \in FramesOf(g)
  BY <1>2 DEF FramesOf
<1> QED BY <1>1, <1>3 DEF FrameFits, IsBuilder

LEMMA OperandsFit ==
  ASSUME NEW g, NEW id \in Ids, Kind(id) \in WithOperands, NEW done \in Seq(1 .. Len(g.nodes)),
         \A i \in 1 .. Len(done) : g.nodes[done[i]].at \in Ids,
         Kind(id) \in ControlFlow => HasVoid(g)
  PROVE  /\ \A f : f = [at |-> "operands", id |-> id, done |-> done]
                   /\ Len(done) < Len(Operands(id)) =>
                     FrameFits(g, f) /\ f.at = "operands" /\ ~IsBuilder(f)
         /\ \A f : f = [at |-> "finish", id |-> id, done |-> done]
                   /\ Len(done) = Len(Operands(id)) =>
                     FrameFits(g, f) /\ f.at = "finish" /\ ~IsBuilder(f)
<1>1. ASSUME NEW at \in {"operands", "finish"}, NEW f, f = [at |-> at, id |-> id, done |-> done],
             at = "operands" => Len(done) < Len(Operands(id)),
             at = "finish" => Len(done) = Len(Operands(id))
      PROVE  FrameFits(g, f) /\ f.at = at /\ ~IsBuilder(f)
  <2>1. f.at = at /\ f.id = id /\ f.done = done
    BY <1>1
  <2>2. f \in [at : {"operands", "finish"}, id : Ids, done : Seq(1 .. Len(g.nodes))]
    BY <1>1
  <2>3. f \in FramesOf(g)
    BY <2>2 DEF FramesOf
  <2> QED BY <1>1, <2>1, <2>3 DEF FrameFits, IsBuilder
<1> QED BY <1>1

LEMMA BuilderFits ==
  ASSUME NEW g, NEW at \in {"array", "element", "block", "block_statement"}, NEW id \in Ids,
         NEW base \in Nat, NEW count \in Nat, NEW child \in 0 .. Len(g.types),
         at \in {"array", "element"} => Kind(id) = "array_literal" /\ child # 0,
         at \in {"block", "block_statement"} => Kind(id) = "block", Len(g.types) \in Nat,
         NEW f, f = [at |-> at, id |-> id, base |-> base, count |-> count, child |-> child]
  PROVE  FrameFits(g, f) /\ f.at # "function" /\ IsBuilder(f)
<1>1. f.at = at /\ f.id = id /\ f.child = child
  OBVIOUS
<1>2. f \in [at : {"array", "element", "block", "block_statement"},
             id : Ids, base : Nat, count : Nat, child : 0 .. Len(g.types)]
  OBVIOUS
<1>3. f \in FramesOf(g)
  BY <1>2 DEF FramesOf
<1>4. child # 0 => child \in 1 .. Len(g.types)
  OBVIOUS
<1> QED BY <1>1, <1>3, <1>4 DEF FrameFits, IsBuilder

LEMMA AssignFits ==
  ASSUME NEW g, NEW id \in Ids, Kind(id) = "assign"
  PROVE  /\ \A f : f = [at |-> "assign_lhs", id |-> id] =>
                     FrameFits(g, f) /\ f.at = "assign_lhs" /\ ~IsBuilder(f)
         /\ \A f, n : f = [at |-> "assign_rhs", id |-> id, lhs |-> n] /\ Sound(g, n) =>
                     FrameFits(g, f) /\ f.at = "assign_rhs" /\ ~IsBuilder(f)
<1>1. ASSUME NEW f, f = [at |-> "assign_lhs", id |-> id]
      PROVE  FrameFits(g, f) /\ f.at = "assign_lhs" /\ ~IsBuilder(f)
  <2>1. f.at = "assign_lhs" /\ f.id = id
    BY <1>1
  <2>2. f \in [at : {"assign_lhs"}, id : Ids]
    BY <1>1
  <2>3. f \in FramesOf(g)
    BY <2>2 DEF FramesOf
  <2> QED BY <2>1, <2>3 DEF FrameFits, IsBuilder
<1>2. ASSUME NEW f, NEW n, f = [at |-> "assign_rhs", id |-> id, lhs |-> n], Sound(g, n)
      PROVE  FrameFits(g, f) /\ f.at = "assign_rhs" /\ ~IsBuilder(f)
  <2>1. f.at = "assign_rhs" /\ f.id = id /\ f.lhs = n /\ n \in NodesOf(g)
    BY <1>2 DEF Sound
  <2>2. f \in [at : {"assign_rhs"}, id : Ids, lhs : NodesOf(g)]
    BY <1>2, <2>1
  <2>3. f \in FramesOf(g)
    BY <2>2 DEF FramesOf
  <2> QED BY <1>2, <2>1, <2>3 DEF FrameFits, IsBuilder
<1> QED BY <1>1, <1>2
------------------------------------------------------------------------------
(* Steps.  h are the tables after a step.                                  *)

LEMMA SameAst ==
  ASSUME ast' = ast, NEW h
  PROVE  /\ Shaped(h) => Shaped(h)'
         /\ \A m : ArenaFits(h, m) => ArenaFits(h, m)'
         /\ \A s, m, size : Pending(h, s, m, size) => Pending(h, s, m, size)'
         /\ \A s, r : ResultFits(h, s, r) => ResultFits(h, s, r)'
         /\ TablesFit(h) => TablesFit(h)'
         /\ Ids' = Ids /\ Diagnostics' = Diagnostics
<1>1. Ids' = Ids
  BY DEF Ids
<1>2. \A id : Kind(id)' = Kind(id) /\ Data(id)' = Data(id)
  BY DEF Kind, Data, Ast
<1>3. Names' = Names
  BY <1>1, <1>2 DEF Names
<1>4. NodesOf(h)' = NodesOf(h) /\ LocalsOf(h)' = LocalsOf(h)
  BY <1>1, <1>3 DEF NodesOf, LocalsOf, Spans
<1>5. \A n : Sound(h, n)' <=> Sound(h, n)
  BY <1>4 DEF Sound, Refers, Typed
<1>6. FramesOf(h)' = FramesOf(h)
  BY <1>1, <1>4 DEF FramesOf
<1>7. \A id : Operands(id)' = Operands(id)
  BY <1>2 DEF Operands
<1>8. \A f : FrameFits(h, f)' <=> FrameFits(h, f)
  BY <1>1, <1>2, <1>5, <1>6, <1>7 DEF FrameFits, HasVoid
<1>9. Shaped(h) <=> Shaped(h)'
  BY <1>4 DEF Shaped
<1>10. \A s, m, size : Pending(h, s, m, size)' <=> Pending(h, s, m, size)
  BY <1>6, <1>8 DEF Pending, ElementsFit, IsElement, Fill, Bounds
<1>11. \A m : ArenaFits(h, m)' <=> ArenaFits(h, m)
  BY <1>4, <1>5 DEF ArenaFits
<1>12. \A s, r : ResultFits(h, s, r)' <=> ResultFits(h, s, r)
  BY <1>1, <1>5 DEF ResultFits, Returned
<1>13. TablesFit(h)' <=> TablesFit(h)
  BY <1>5, <1>9 DEF TablesFit
<1> QED BY <1>1, <1>9, <1>10, <1>11, <1>12, <1>13 DEF Diagnostics

\* A step that lets the tables grow, and what it leaves alone.
Settled(h) ==
  /\ Now' = h /\ TablesFit(h) /\ Grows(Now, h)
  /\ ast' = ast /\ next' = next /\ start' = start /\ functions' = functions
  /\ diagnostics' \in Seq(Diagnostics) /\ status' \in Statuses

LEMMA TablesFact ==
  ASSUME IInv
  PROVE  /\ Shaped(Now) /\ nodes \in Seq(NodesOf(Now)) /\ locals \in Seq(LocalsOf(Now))
         /\ TypesFit(types) /\ types \in Seq(TypeEntries)
         /\ Len(nodes) \in Nat /\ Len(locals) \in Nat /\ Len(types) \in Nat /\ Len(temp) \in Nat
         /\ temp \in Seq(NodesOf(Now)) /\ calls \in Seq(FramesOf(Now))
         /\ Now.nodes = nodes /\ Now.locals = locals /\ Now.types = types
         /\ Grows(Now, Now)
<1>1. Now.nodes = nodes /\ Now.locals = locals /\ Now.types = types
  BY DEF Now, Tables
<1>2. /\ Shaped(Now) /\ nodes \in Seq(NodesOf(Now)) /\ locals \in Seq(LocalsOf(Now))
      /\ TypesFit(types) /\ types \in Seq(TypeEntries)
  BY <1>1 DEF IInv, TablesFit, Shaped, TypesFit
<1>3. temp \in Seq(NodesOf(Now)) /\ calls \in Seq(FramesOf(Now))
  BY DEF IInv, ArenaFits, Pending
<1>4. Len(nodes) \in Nat /\ Len(locals) \in Nat /\ Len(types) \in Nat /\ Len(temp) \in Nat
  BY <1>2, <1>3
<1>5. Grows(Now, Now)
  BY <1>1, <1>2, ExtendsItself DEF Grows
<1> QED BY <1>1, <1>2, <1>3, <1>4, <1>5

LEMMA Continue ==
  ASSUME IInv, calls # <<>>, NEW h, Settled(h), used' \subseteq 1 .. Len(h.locals),
         NEW s, calls' = s, NEW m, temp' = m, NEW r, result' = r,
         ArenaFits(h, m), Pending(h, s, m, Len(m)), ResultFits(h, s, r)
  PROVE  IInv'
<1>1. /\ Now' = h /\ ast' = ast /\ next' = next /\ start' = start /\ functions' = functions
      /\ TablesFit(h) /\ Grows(Now, h) /\ diagnostics' \in Seq(Diagnostics) /\ status' \in Statuses
  BY DEF Settled
<1>2. TablesFit(h)' /\ ArenaFits(h, m)' /\ Pending(h, s, m, Len(m))' /\ ResultFits(h, s, r)'
      /\ Diagnostics' = Diagnostics
  BY <1>1, SameAst
<1>3. /\ TablesFit(Now)' /\ ArenaFits(Now, temp)' /\ Pending(Now, calls, temp, Len(temp))'
      /\ ResultFits(Now, calls, result)'
  BY <1>1, <1>2
<1>4. nodes' = h.nodes /\ locals' = h.locals /\ types' = h.types
  BY <1>1 DEF Now, Tables
<1>5. Shaped(Now) /\ Shaped(h)
  BY <1>1 DEF IInv, TablesFit
<1>6. Len(nodes) \in Nat /\ Len(h.nodes) \in Nat /\ Len(nodes) <= Len(h.nodes)
      /\ Len(locals) \in Nat /\ Len(h.locals) \in Nat /\ Len(locals) <= Len(h.locals)
  BY <1>1, <1>5, GrowFact, TablesFact
<1>7. start' \in 0 .. Len(locals') /\ used' \subseteq 1 .. Len(locals')
  BY <1>1, <1>4, <1>6 DEF IInv
<1>8. FunctionsFit'
  <2>1. DOMAIN nodes = 1 .. Len(nodes) /\ DOMAIN h.nodes = 1 .. Len(h.nodes)
    BY <1>5, TablesFact DEF Shaped
  <2>2. ASSUME NEW f \in DOMAIN functions
        PROVE  /\ functions[f].body \in DOMAIN h.nodes
               /\ functions[f].locals_start \in Nat /\ functions[f].locals_count \in Nat
               /\ functions[f].locals_start + functions[f].locals_count \in 0 .. Len(h.locals)
    BY <1>6, <2>1 DEF IInv, FunctionsFit
  <2> QED BY <1>1, <1>4, <2>2 DEF IInv, FunctionsFit, IsSequence
<1>9. next' \in 1 .. Len(ast'.functions) + 1 /\ next' <= Len(ast'.functions) /\ ast' \in Asts
  BY <1>1 DEF IInv
<1> QED BY <1>1, <1>2, <1>3, <1>7, <1>8, <1>9 DEF IInv

\* Tables with more in them.
LEMMA TablesGrown ==
  ASSUME IInv, NEW ns, NEW ls, NEW table, NEW h, h = Tables(nodes \o ns, locals \o ls, table),
         Extends(types, table), TypesFit(table), ns \in Seq(NodesOf(h)), ls \in Seq(LocalsOf(h)),
         \A i \in 1 .. Len(ns) : Sound(h, ns[i])
  PROVE  TablesFit(h) /\ Grows(Now, h)
<1>1. h.nodes = nodes \o ns /\ h.locals = locals \o ls /\ h.types = table
  BY DEF Tables
<1>2. Len(types) <= Len(table) /\ Len(types) \in Nat /\ Len(table) \in Nat
  BY TablesFact DEF Extends, TypesFit
<1>3. 1 .. Len(types) \subseteq 1 .. Len(table)
  BY <1>2
<1>4. NodesOf(Now) \subseteq NodesOf(h) /\ LocalsOf(Now) \subseteq LocalsOf(h)
  BY <1>1, <1>3, TablesFact DEF NodesOf, LocalsOf
<1>5. nodes \in Seq(NodesOf(h)) /\ locals \in Seq(LocalsOf(h))
  <2>1. \A S, T : S \subseteq T => Seq(S) \subseteq Seq(T)
    OBVIOUS
  <2> QED BY <1>4, <2>1, TablesFact
<1>6. Extends(nodes, nodes \o ns) /\ Extends(locals, locals \o ls)
  BY <1>5, ExtendsConcat
<1>7. Grows(Now, h)
  BY <1>1, <1>6, TablesFact DEF Grows
<1>8. Shaped(h)
  <2>1. nodes \o ns \in Seq(NodesOf(h)) /\ locals \o ls \in Seq(LocalsOf(h))
    BY <1>5
  <2> QED BY <1>1, <2>1 DEF Shaped
<1>9. ASSUME NEW i \in 1 .. Len(nodes \o ns) PROVE Sound(h, (nodes \o ns)[i])
  <2>1. /\ Len(nodes \o ns) = Len(nodes) + Len(ns) /\ Len(nodes) \in Nat /\ Len(ns) \in Nat
        /\ \A k \in 1 .. Len(nodes) : (nodes \o ns)[k] = nodes[k]
        /\ \A k \in 1 .. Len(ns) : (nodes \o ns)[k + Len(nodes)] = ns[k]
    BY <1>5
  <2>2. CASE i \in 1 .. Len(nodes)
    <3>1. Sound(Now, nodes[i])
      BY <2>2, TablesFact DEF IInv, TablesFit
    <3> QED BY <1>7, <1>8, <2>1, <2>2, <3>1, SoundStays, TablesFact
  <2>3. CASE i \notin 1 .. Len(nodes)
    <3>1. PICK k \in 1 .. Len(ns) : i = k + Len(nodes)
      <4>1. i - Len(nodes) \in 1 .. Len(ns) /\ i = (i - Len(nodes)) + Len(nodes)
        BY <2>1, <2>3
      <4> QED BY <4>1
    <3> QED BY <2>1, <3>1
  <2> QED BY <2>2, <2>3
<1> QED BY <1>1, <1>7, <1>8, <1>9 DEF TablesFit

\* What Commit() does.
LEMMA CommitFact ==
  ASSUME IInv, NEW ns, NEW ls, NEW es, NEW ty, Commit(ns, ls, es, ty),
         NEW h, h = Tables(nodes \o ns, locals \o ls, ty.table), TablesFit(h), Grows(Now, h),
         es \in Seq(Diagnostics)
  PROVE  Settled(h)
<1>1. /\ nodes' = nodes \o ns /\ locals' = locals \o ls /\ types' = ty.table
      /\ diagnostics' = diagnostics \o es /\ status' \in Statuses
      /\ ast' = ast /\ next' = next /\ start' = start /\ functions' = functions
  BY DEF Commit, Statuses
<1>2. Now' = h
  BY <1>1 DEF Now, Tables
<1>3. diagnostics \o es \in Seq(Diagnostics)
  BY DEF IInv
<1> QED BY <1>1, <1>2, <1>3 DEF Settled

LEMMA ConcatTwo ==
  ASSUME NEW S, NEW a \in S, NEW b \in S, NEW t \in Seq(S)
  PROVE  (<<a>> \o <<b>>) \o t = <<a>> \o (<<b>> \o t)
<1>1. <<a>> \in Seq(S) /\ <<b>> \in Seq(S)
  OBVIOUS
<1> QED BY <1>1, ConcatAssociative

\* A step without new nodes or locals.
LEMMA NothingAllocated ==
  ASSUME IInv, NEW es \in Seq(Diagnostics), NEW ty, Commit(<<>>, <<>>, es, ty),
         Extends(types, ty.table), TypesFit(ty.table),
         NEW h, h = Tables(nodes, locals, ty.table)
  PROVE  Settled(h)
<1>1. nodes \o <<>> = nodes /\ locals \o <<>> = locals
  BY TablesFact, ConcatEmptySeq
<1>2. h = Tables(nodes \o <<>>, locals \o <<>>, ty.table)
  BY <1>1
<1>3. \A S : <<>> \in Seq(S)
  OBVIOUS
<1>4. \A i \in 1 .. Len(<<>>) : FALSE
  OBVIOUS
<1>5. TablesFit(h) /\ Grows(Now, h)
  BY <1>2, <1>3, <1>4, TablesGrown
<1> QED BY <1>2, <1>5, CommitFact

LEMMA StayFact ==
  ASSUME IInv, Stay
  PROVE  Settled(Now)
<1>1. Commit(<<>>, <<>>, <<>>, SameTypes) /\ SameTypes.table = types
  BY DEF Stay, SameTypes
<1>2. Extends(types, types)
  BY TablesFact, ExtendsItself
<1>3. <<>> \in Seq(Diagnostics)
  OBVIOUS
<1> QED BY <1>1, <1>2, <1>3, TablesFact, NothingAllocated DEF Now

\* A step that allocates a type, and maybe nodes.
LEMMA TypeAllocated ==
  ASSUME IInv, NEW e \in TypeEntries, EntryFits(e, 1 .. Len(types)),
         NEW w, w = WithType(types, e), NEW es \in Seq(Diagnostics), Commit(<<>>, <<>>, es, w)
  PROVE  /\ Settled(Tables(nodes, locals, w.table))
         /\ WithEntry(types, e, w)
<1>1. WithEntry(types, e, w)
  BY TablesFact, WithTypeFact
<1>2. Extends(types, w.table) /\ TypesFit(w.table)
  BY <1>1 DEF WithEntry
<1> QED BY <1>1, <1>2, NothingAllocated

\* Nodes that are known already are put in the tables.
GrownBy(ns, h) ==
  /\ TablesFit(h) /\ Shaped(h) /\ Grows(Now, h) /\ h.locals = locals
  /\ Len(h.nodes) = Len(nodes) + Len(ns)
  /\ \A i \in 1 .. Len(nodes) : h.nodes[i] = nodes[i]
  /\ \A i \in 1 .. Len(ns) : h.nodes[Len(nodes) + i] = ns[i]

LEMMA NodesGrown ==
  ASSUME IInv, NEW ns \in Seq(NodesOf(Now)), \A i \in 1 .. Len(ns) : Sound(Now, ns[i]),
         NEW table, Extends(types, table), TypesFit(table),
         NEW h, h = Tables(nodes \o ns, locals, table)
  PROVE  GrownBy(ns, h) /\ h.types = table
<1>1. h.nodes = nodes \o ns /\ h.locals = locals /\ h.types = table
  BY DEF Tables
<1>2. Len(types) \in Nat /\ Len(table) \in Nat /\ Len(types) <= Len(table)
  BY TablesFact DEF Extends, TypesFit
<1>3. 1 .. Len(types) \subseteq 1 .. Len(table)
  BY <1>2
<1>4. NodesOf(Now) \subseteq NodesOf(h) /\ LocalsOf(Now) \subseteq LocalsOf(h)
  BY <1>1, <1>3, TablesFact DEF NodesOf, LocalsOf
<1>5. nodes \in Seq(NodesOf(h)) /\ locals \in Seq(LocalsOf(h)) /\ ns \in Seq(NodesOf(h))
  <2>1. \A S, T : S \subseteq T => Seq(S) \subseteq Seq(T)
    OBVIOUS
  <2> QED BY <1>4, <2>1, TablesFact
<1>6. PICK all \in Seq(NodesOf(h)) : all = nodes \o ns
  <2>1. nodes \o ns \in Seq(NodesOf(h))
    BY <1>5, ConcatProperties
  <2> QED BY <2>1
<1>7. /\ Len(all) = Len(nodes) + Len(ns)
      /\ \A i \in 1 .. Len(nodes) : all[i] = nodes[i]
      /\ \A i \in 1 .. Len(ns) : all[Len(nodes) + i] = ns[i]
  BY <1>5, <1>6
<1>8. Shaped(h)
  BY <1>1, <1>5, <1>6 DEF Shaped
<1>9. Extends(nodes, all)
  BY <1>5, <1>6, ExtendsConcat
<1>10. Grows(Now, h)
  BY <1>1, <1>6, <1>9, TablesFact, ExtendsItself DEF Grows
<1>11. \A i \in 1 .. Len(ns) : Sound(h, ns[i])
  BY <1>8, <1>10, SoundStays, TablesFact
<1>12. h = Tables(nodes \o ns, locals \o <<>>, table)
  BY TablesFact, ConcatEmptySeq
<1>13. <<>> \in Seq(LocalsOf(h))
  OBVIOUS
<1>14. TablesFit(h)
  BY <1>5, <1>11, <1>12, <1>13, TablesGrown
<1> QED BY <1>1, <1>6, <1>7, <1>8, <1>10, <1>14 DEF GrownBy

\* A step that allocates them, and maybe a type.
LEMMA NodesAllocated ==
  ASSUME IInv, NEW ns \in Seq(NodesOf(Now)), \A i \in 1 .. Len(ns) : Sound(Now, ns[i]),
         NEW es \in Seq(Diagnostics), NEW ty, Extends(types, ty.table), TypesFit(ty.table),
         Commit(ns, <<>>, es, ty), NEW h, h = Tables(nodes \o ns, locals, ty.table)
  PROVE  Settled(h) /\ GrownBy(ns, h) /\ h.types = ty.table
<1>1. GrownBy(ns, h) /\ h.types = ty.table
  BY NodesGrown
<1>2. h = Tables(nodes \o ns, locals \o <<>>, ty.table)
  BY TablesFact, ConcatEmptySeq
<1>3. Settled(h)
  BY <1>1, <1>2, CommitFact DEF GrownBy
<1> QED BY <1>1, <1>3

LEMMA ReturnedStays ==
  ASSUME NEW g, NEW h, Shaped(g), Shaped(h), Grows(g, h), NEW s, NEW r, ResultFits(g, s, r)
  PROVE  Returned(h, r) \/ r = NoResult
BY SoundStays DEF ResultFits, Returned

\* What a step that grows the tables leaves of the stack.
LEMMA StackStays ==
  ASSUME IInv, calls # <<>>, NEW h, Settled(h)
  PROVE  /\ ArenaFits(h, temp)
         /\ Returned(h, result) \/ result = NoResult
         /\ Top.at \in Waiting => Returned(h, result)
         /\ Top \in FramesOf(h) /\ FrameFits(h, Top) /\ ElementsFit(h, Top, temp)
         /\ Tail(calls) \in Seq(FramesOf(h))
         /\ Top.at = "function" => Tail(calls) = <<>>
         /\ IsBuilder(Top) => /\ Top.base \in Nat /\ Top.base <= Len(temp)
                              /\ Top.base + Top.count = Len(temp)
                              /\ Pending(h, Tail(calls), temp, Top.base)
         /\ ~IsBuilder(Top) => Pending(h, Tail(calls), temp, Len(temp))
<1>1. Shaped(Now) /\ Shaped(h) /\ Grows(Now, h)
  BY TablesFact DEF Settled, TablesFit
<1>2. ArenaFits(Now, temp) /\ Pending(Now, calls, temp, Len(temp)) /\ ResultFits(Now, calls, result)
  BY DEF IInv
<1>3. Len(temp) \in Nat
  BY TablesFact
<1>4. Pending(h, calls, temp, Len(temp))
  BY <1>1, <1>2, <1>3, PendingStays
<1>5. ArenaFits(h, temp)
  BY <1>1, <1>2, ArenaStays
<1>6. Returned(h, result) \/ result = NoResult
  BY <1>1, <1>2, ReturnedStays
<1>7. Top.at \in Waiting => Returned(h, result)
  BY <1>1, <1>2, SoundStays DEF ResultFits, Returned, Top
<1> QED BY <1>3, <1>4, <1>5, <1>6, <1>7, PendingBelow DEF Top

\* Return from a function whose frame is no builder.
LEMMA ReturnStep ==
  ASSUME IInv, calls # <<>>, NEW h, Settled(h), ~IsBuilder(Top), Become(<<>>), temp' = temp,
         used' \subseteq 1 .. Len(h.locals), NEW r, result' = r, Returned(h, r)
  PROVE  IInv'
<1>1. PICK s : s = Tail(calls)
  OBVIOUS
<1>2. calls' = s
  BY <1>1, StackStays, ConcatEmptySeq DEF Become
<1>3. ArenaFits(h, temp) /\ Pending(h, s, temp, Len(temp))
  BY <1>1, StackStays
<1>4. ResultFits(h, s, r)
  BY DEF ResultFits
<1> QED BY <1>2, <1>3, <1>4, Continue

\* Go on with another frame in the place of the first.
LEMMA GoOnStep ==
  ASSUME IInv, calls # <<>>, NEW h, Settled(h), NEW f, calls' = <<f>> \o Tail(calls),
         f.at \notin Waiting, UNCHANGED <<result, temp, used>>,
         Pending(h, <<f>> \o Tail(calls), temp, Len(temp))
  PROVE  IInv'
<1>1. PICK s : s = <<f>> \o Tail(calls)
  OBVIOUS
<1>2. f \in FramesOf(h) /\ Tail(calls) \in Seq(FramesOf(h)) => s[1] = f
  BY <1>1
<1>3. PICK t \in Seq(FramesOf(h)) : t = Tail(calls)
  BY StackStays
<1>4. s[1] = f
  BY <1>1, <1>3
<1>5. ResultFits(h, s, result)
  BY <1>4, StackStays DEF ResultFits
<1>6. used \subseteq 1 .. Len(h.locals)
  <2>1. Shaped(Now) /\ Shaped(h) /\ Grows(Now, h)
    BY TablesFact DEF Settled, TablesFit
  <2> QED BY <2>1, GrowFact, TablesFact DEF IInv
<1> QED BY <1>1, <1>5, <1>6, StackStays, Continue

\* Call the function that lowers a node, and wait for it in a frame.
LEMMA CallStep ==
  ASSUME IInv, calls # <<>>, NEW h, Settled(h), NEW id \in Ids, NEW reads \in BOOLEAN,
         NEW f, FrameFits(h, f), Call(LowerCall(id, reads) \o <<f>>),
         Pending(h, <<f>> \o Tail(calls), temp, Len(temp))
  PROVE  IInv'
<1>1. PICK k : k = [at |-> "lower", id |-> id, reads |-> reads]
  OBVIOUS
<1>2. FrameFits(h, k) /\ k.at = "lower" /\ ~IsBuilder(k)
  BY <1>1, LowerFits
<1>3. PICK t \in Seq(FramesOf(h)) : t = Tail(calls)
  BY StackStays
<1>4. k \in FramesOf(h) /\ f \in FramesOf(h)
  BY <1>2 DEF FrameFits
<1>5. calls' = (<<k>> \o <<f>>) \o t /\ UNCHANGED <<result, temp, used>>
  BY <1>1, <1>3 DEF Call, Become, LowerCall
<1>6. PICK s : s = <<f>> \o t
  OBVIOUS
<1>7. calls' = <<k>> \o s
  BY <1>4, <1>5, <1>6, ConcatTwo
<1>8. Pending(h, <<k>> \o s, temp, Len(temp))
  BY <1>2, <1>3, <1>6, TablesFact, PendingPlain
<1>9. ArenaFits(h, temp) /\ (Returned(h, result) \/ result = NoResult)
  BY StackStays
<1>10. s \in Seq(FramesOf(h))
  BY <1>4, <1>6
<1>11. PICK u : u = <<k>> \o s
  OBVIOUS
<1>12. u[1] = k
  BY <1>4, <1>10, <1>11
<1>13. ResultFits(h, u, result)
  BY <1>2, <1>9, <1>12 DEF ResultFits, Waiting
<1>14. used \subseteq 1 .. Len(h.locals)
  <2>1. Shaped(Now) /\ Shaped(h) /\ Grows(Now, h)
    BY TablesFact DEF Settled, TablesFit
  <2> QED BY <2>1, GrowFact, TablesFact DEF IInv
<1> QED BY <1>5, <1>7, <1>8, <1>9, <1>11, <1>13, <1>14, Continue

\* A step that leaves the tables and the stack alone.
LEMMA Rest ==
  ASSUME IInv, UNCHANGED <<ast, calls, result, temp, start, hir, used>>,
         next' \in 1 .. Len(ast.functions) + 1, calls # <<>> => next' = next,
         diagnostics' \in Seq(Diagnostics), status' \in Statuses
  PROVE  IInv'
<1>1. /\ ast' = ast /\ calls' = calls /\ result' = result /\ temp' = temp /\ start' = start
      /\ nodes' = nodes /\ locals' = locals /\ types' = types /\ functions' = functions
      /\ used' = used
  BY DEF hir
<1>2. Now' = Now
  BY <1>1 DEF Now
<1>3. PICK h, s, m, r : h = Now /\ s = calls /\ m = temp /\ r = result
  OBVIOUS
<1>4. TablesFit(h) /\ ArenaFits(h, m) /\ Pending(h, s, m, Len(m)) /\ ResultFits(h, s, r)
  BY <1>3 DEF IInv
<1>5. TablesFit(h)' /\ ArenaFits(h, m)' /\ Pending(h, s, m, Len(m))' /\ ResultFits(h, s, r)'
      /\ Diagnostics' = Diagnostics
  BY <1>1, <1>4, SameAst
<1>6. /\ TablesFit(Now)' /\ ArenaFits(Now, temp)' /\ Pending(Now, calls, temp, Len(temp))'
      /\ ResultFits(Now, calls, result)'
  BY <1>1, <1>2, <1>3, <1>5
<1>7. FunctionsFit'
  BY <1>1 DEF IInv, FunctionsFit, IsSequence
<1> QED BY <1>1, <1>5, <1>6, <1>7 DEF IInv

LEMMA DiagnosticFact ==
  ASSUME NEW severity \in {"error", "warning"}, NEW what \in Messages, NEW at \in Ids
  PROVE  Diagnostic(severity, what, at) \in Seq(Diagnostics)
<1>1. PICK d : d = [severity |-> severity, what |-> what, at |-> at]
  OBVIOUS
<1>2. d \in Diagnostics
  BY <1>1 DEF Diagnostics
<1> QED BY <1>1, <1>2 DEF Diagnostic

LEMMA ProblemFact ==
  ASSUME NEW what \in Messages, NEW at \in Ids
  PROVE  Problem(what, at) \in Seq(Diagnostics)
BY DiagnosticFact DEF Problem

\* A node that refers to none of which something has to be known.
LEMMA PlainNode ==
  ASSUME NEW g, NEW kind \in {"missing", "int_literal", "return", "if", "while", "block"},
         NEW type \in 1 .. Len(g.types), NEW data \in Seq(Int), NEW at \in Ids,
         NEW n, n = Node(kind, type, data, at),
         kind \in {"return", "if", "while", "block"} => HasOperands(n)
  PROVE  Returned(g, n)
<1>1. n.kind = kind /\ n.at = at /\ n = [kind |-> kind, type |-> type, data |-> data, at |-> at]
  BY DEF Node
<1>2. kind \in NodeKinds /\ kind \notin BinaryOperators
      /\ kind \notin {"variable", "address_of", "dereference", "index", "assign", "array_literal"}
  BY DEF NodeKinds, BinaryOperators
<1>3. n \in NodesOf(g)
  BY <1>1, <1>2 DEF NodesOf, Spans
<1>4. Refers(g, n) /\ Typed(g, n)
  BY <1>1, <1>2 DEF Refers, Typed
<1>5. HasOperands(n)
  BY <1>1, <1>2 DEF HasOperands
<1> QED BY <1>1, <1>3, <1>4, <1>5 DEF Returned, Sound

LEMMA UsedStays ==
  ASSUME IInv, NEW h, Settled(h)
  PROVE  used \subseteq 1 .. Len(h.locals)
<1>1. Shaped(Now) /\ Shaped(h) /\ Grows(Now, h)
  BY TablesFact DEF Settled, TablesFit
<1> QED BY <1>1, GrowFact, TablesFact DEF IInv

\* Return a node of type void, and maybe report an error.
LEMMA VoidStep ==
  ASSUME IInv, calls # <<>>, ~IsBuilder(Top), Top.id \in Ids, NEW es \in Seq(Diagnostics),
         ReturnVoid("missing", <<>>, <<>>, es), temp' = temp
  PROVE  IInv'
<1>1. PICK w : w = WithType(types, Void)
  OBVIOUS
<1>2. Commit(<<>>, <<>>, es, w) /\ Return("missing", w.index, <<>>)
  BY <1>1 DEF ReturnVoid
<1>3. EntryFits(Void, 1 .. Len(types)) /\ Void \in TypeEntries
  BY EntriesFact
<1>4. PICK h : h = Tables(nodes, locals, w.table)
  OBVIOUS
<1>5. Settled(h) /\ WithEntry(types, Void, w)
  BY <1>1, <1>2, <1>3, <1>4, TypeAllocated
<1>6. w.index \in 1 .. Len(h.types)
  BY <1>4, <1>5 DEF WithEntry, Tables
<1>7. PICK r : r = Node("missing", w.index, <<>>, Top.id)
  OBVIOUS
<1>8. <<>> \in Seq(Int)
  OBVIOUS
<1>9. Returned(h, r)
  BY <1>6, <1>7, <1>8, PlainNode
<1>10. Become(<<>>) /\ result' = r /\ used' = used
  BY <1>2, <1>7 DEF Return
<1> QED BY <1>5, <1>9, <1>10, UsedStays, ReturnStep

LEMMA MissingStep ==
  ASSUME IInv, calls # <<>>, ~IsBuilder(Top), Top.id \in Ids, NEW es \in Seq(Diagnostics),
         ReturnMissing(es)
  PROVE  IInv'
BY VoidStep DEF ReturnMissing

LEMMA TooLongStep ==
  ASSUME IInv, MessageTooLong
  PROVE  IInv'
<1>1. UNCHANGED <<ast, calls, result, temp, next, start, hir, used, diagnostics>>
      /\ status' \in Statuses
  BY DEF MessageTooLong, Statuses
<1>2. next' \in 1 .. Len(ast.functions) + 1 /\ diagnostics' \in Seq(Diagnostics)
  BY <1>1 DEF IInv
<1> QED BY <1>1, <1>2, Rest

LEMMA MistypedStep ==
  ASSUME IInv, calls # <<>>, ~IsBuilder(Top), Top.id \in Ids, NEW what \in Messages, NEW at \in Ids,
         NEW text, NEW shown, ReturnMistyped(what, at, text, shown)
  PROVE  IInv'
<1>1. ReturnMissing(Problem(what, at)) \/ MessageTooLong
  BY DEF ReturnMistyped
<1> QED BY <1>1, ProblemFact, MissingStep, TooLongStep
------------------------------------------------------------------------------
(* What the places of the code know of the frame on top.                   *)

LEMMA TopFact ==
  ASSUME IInv, calls # <<>>
  PROVE  /\ Top \in FramesOf(Now) /\ FrameFits(Now, Top)
         /\ Top.at = "lower" => Top.id \in Ids /\ Top.reads \in BOOLEAN /\ ~IsBuilder(Top)
         /\ Top.at \in {"operands", "finish"} =>
              Top.id \in Ids /\ Top.done \in Seq(1 .. Len(nodes)) /\ ~IsBuilder(Top)
         /\ Top.at \in {"assign_lhs", "assign_rhs"} => Top.id \in Ids /\ ~IsBuilder(Top)
         /\ Top.at = "function" => ~IsBuilder(Top)
<1>1. Top \in FramesOf(Now) /\ FrameFits(Now, Top)
  BY TablesFact, PendingBelow DEF IInv, Top
<1>2. Now.nodes = nodes
  BY TablesFact
<1> QED BY <1>1, <1>2 DEF FramesOf, IsBuilder

LEMMA LoweringFact ==
  ASSUME IInv, NEW kinds, Lowering(kinds)
  PROVE  /\ calls # <<>> /\ Top.at = "lower" /\ Kind(Top.id) \in kinds
         /\ Top.id \in Ids /\ Top.reads \in BOOLEAN /\ ~IsBuilder(Top)
         /\ NodeFits(Top.id)
<1>1. calls # <<>> /\ Top.at = "lower" /\ Kind(Top.id) \in kinds
  BY DEF Lowering, At
<1> QED BY <1>1, TopFact, NodeFact DEF IInv

LEMMA FinishingFact ==
  ASSUME IInv, NEW kinds, Finishing(kinds)
  PROVE  /\ calls # <<>> /\ Top.at = "finish" /\ Kind(Top.id) \in kinds
         /\ Top.id \in Ids /\ ~IsBuilder(Top)
         /\ Kind(Top.id) \in WithOperands
         /\ Top.done \in Seq(1 .. Len(nodes)) /\ Top.done \in Seq(Int)
         /\ Len(Top.done) = Len(Operands(Top.id)) /\ Len(Top.done) \in 1 .. 3
         /\ \A i \in 1 .. Len(Top.done) :
              /\ Top.done[i] \in 1 .. Len(nodes)
              /\ Operand(i) \in NodesOf(Now) /\ Operand(i).at \in Ids
              /\ Operand(i).type \in 1 .. Len(types) /\ Operand(i).type \in Nat
         /\ Kind(Top.id) \in BinaryOperators \cup {"index", "while"} => Len(Top.done) = 2
         /\ Kind(Top.id) \in {"address_of", "dereference", "return"} => Len(Top.done) = 1
         /\ Kind(Top.id) = "if" => Len(Top.done) \in {2, 3}
         /\ Kind(Top.id) \in ControlFlow => HasVoid(Now)
         /\ 1 \in 1 .. Len(Top.done)
         /\ Kind(Top.id) \in BinaryOperators \cup {"index"} => 2 \in 1 .. Len(Top.done)
<1>1. calls # <<>> /\ Top.at = "finish" /\ Kind(Top.id) \in kinds
  BY DEF Finishing, At
<1>2. Top.id \in Ids /\ ~IsBuilder(Top) /\ Top.done \in Seq(1 .. Len(nodes)) /\ FrameFits(Now, Top)
  BY <1>1, TopFact
<1>3. /\ Kind(Top.id) \in WithOperands /\ Len(Top.done) = Len(Operands(Top.id))
      /\ \A i \in 1 .. Len(Top.done) : nodes[Top.done[i]].at \in Ids
      /\ Kind(Top.id) \in ControlFlow => HasVoid(Now)
  BY <1>1, <1>2, TablesFact DEF FrameFits
<1>4. /\ Len(Operands(Top.id)) \in 1 .. 3
      /\ Kind(Top.id) \in BinaryOperators \cup {"index", "while"} => Len(Operands(Top.id)) = 2
      /\ Kind(Top.id) \in {"address_of", "dereference", "return"} => Len(Operands(Top.id)) = 1
      /\ Kind(Top.id) = "if" => Len(Operands(Top.id)) \in {2, 3}
  BY <1>2, <1>3, OperandsFact DEF IInv
<1>5. ASSUME NEW i \in 1 .. Len(Top.done)
      PROVE  /\ Top.done[i] \in 1 .. Len(nodes)
             /\ Operand(i) \in NodesOf(Now) /\ Operand(i).at \in Ids
             /\ Operand(i).type \in 1 .. Len(types) /\ Operand(i).type \in Nat
  <2>1. Top.done[i] \in 1 .. Len(nodes)
    BY <1>2
  <2>2. Operand(i) \in NodesOf(Now)
    BY <2>1, TablesFact DEF Operand
  <2>3. Operand(i).type \in 1 .. Len(types)
    BY <2>2, TablesFact DEF NodesOf
  <2> QED BY <1>3, <2>1, <2>2, <2>3, TablesFact DEF Operand
<1>6. Top.done \in Seq(Int)
  <2>1. 1 .. Len(nodes) \subseteq Int
    OBVIOUS
  <2>2. \A S, T : S \subseteq T => Seq(S) \subseteq Seq(T)
    OBVIOUS
  <2> QED BY <1>2, <2>1, <2>2
<1>7. /\ Len(Top.done) \in 1 .. 3
      /\ Kind(Top.id) \in BinaryOperators \cup {"index", "while"} => Len(Top.done) = 2
      /\ Kind(Top.id) \in {"address_of", "dereference", "return"} => Len(Top.done) = 1
      /\ Kind(Top.id) = "if" => Len(Top.done) \in {2, 3}
  BY <1>3, <1>4
<1>8. 1 \in 1 .. Len(Top.done)
      /\ (Kind(Top.id) \in BinaryOperators \cup {"index"} => 2 \in 1 .. Len(Top.done))
  <2>1. PICK k \in 1 .. 3 : k = Len(Top.done)
    BY <1>7
  <2>2. Kind(Top.id) \in BinaryOperators \cup {"index"} => k = 2
    BY <1>7, <2>1
  <2>3. 1 \in 1 .. k /\ (k = 2 => 2 \in 1 .. k)
    OBVIOUS
  <2> QED BY <2>1, <2>2, <2>3, Zenon
<1> QED BY <1>1, <1>2, <1>3, <1>5, <1>6, <1>7, <1>8

LEMMA ReturnNode ==
  ASSUME IInv, calls # <<>>, ~IsBuilder(Top), Top.id \in Ids, NEW h, Settled(h),
         NEW kind, NEW type, NEW data, Return(kind, type, data), temp' = temp,
         Sound(h, Node(kind, type, data, Top.id))
  PROVE  IInv'
<1>1. PICK r : r = Node(kind, type, data, Top.id)
  OBVIOUS
<1>2. r.at = Top.id
  BY <1>1 DEF Node
<1>3. Returned(h, r)
  BY <1>1, <1>2 DEF Returned
<1>4. Become(<<>>) /\ result' = r /\ used' = used
  BY <1>1 DEF Return
<1> QED BY <1>3, <1>4, UsedStays, ReturnStep

LEMMA LookupFact ==
  ASSUME IInv, NEW name, LookupLocal(name) # NoLocal
  PROVE  LookupLocal(name) \in 1 .. Len(locals)
<1>1. PICK seen : seen = Visible(name)
  OBVIOUS
<1>2. seen \subseteq start + 1 .. Len(locals) /\ start \in Nat /\ Len(locals) \in Nat
  BY <1>1, TablesFact DEF Visible, IInv
<1>3. seen # {} /\ LookupLocal(name) = CHOOSE l \in seen : \A m \in seen : l <= m
  BY <1>1 DEF LookupLocal
<1>4. seen \subseteq Nat
  BY <1>2
<1>5. PICK l \in seen : \A m \in seen : ~(<<m, l>> \in OpToRel(<, Nat))
  BY <1>3, <1>4, NatLessThanWellFounded, WFMin
<1>6. ASSUME NEW m \in seen PROVE l <= m
  <2>1. l \in Nat /\ m \in Nat
    BY <1>4
  <2>2. ASSUME m < l PROVE FALSE
    <3>1. <<m, l>> \in OpToRel(<, Nat)
      BY <2>1, <2>2 DEF OpToRel
    <3> QED BY <1>5, <3>1
  <2> QED BY <2>1, <2>2
<1>7. PICK k \in seen : k = LookupLocal(name)
  BY <1>3, <1>6
<1>8. k \in start + 1 .. Len(locals)
  BY <1>2
<1> QED BY <1>2, <1>7, <1>8
------------------------------------------------------------------------------
(* Expressions.                                                            *)

LEMMA LowerMissingStep == ASSUME IInv, LowerMissing PROVE IInv'
<1>1. <<>> \in Seq(Diagnostics)
  OBVIOUS
<1> QED BY <1>1, LoweringFact, MissingStep DEF LowerMissing

LEMMA LowerLiteralStep == ASSUME IInv, LowerLiteral PROVE IInv'
<1>1. PICK w : w = WithType(types, I64)
  OBVIOUS
<1>2. /\ Lowering({"int_literal"}) /\ Commit(<<>>, <<>>, <<>>, w)
      /\ Return("int_literal", w.index, Data(Top.id)) /\ temp' = temp
  BY <1>1 DEF LowerLiteral
<1>3. /\ calls # <<>> /\ ~IsBuilder(Top) /\ Top.id \in Ids /\ Data(Top.id) \in Seq(Int)
  BY <1>2, LoweringFact DEF NodeFits
<1>4. PICK h : h = Tables(nodes, locals, w.table)
  OBVIOUS
<1>5. <<>> \in Seq(Diagnostics)
  OBVIOUS
<1>6. Settled(h) /\ WithEntry(types, I64, w)
  BY <1>1, <1>2, <1>4, <1>5, TypeAllocated, EntriesFact
<1>7. w.index \in 1 .. Len(h.types)
  BY <1>4, <1>6 DEF WithEntry, Tables
<1>8. Sound(h, Node("int_literal", w.index, Data(Top.id), Top.id))
  BY <1>3, <1>7, PlainNode DEF Returned
<1> QED BY <1>2, <1>3, <1>6, <1>8, ReturnNode

LEMMA LowerVariableStep == ASSUME IInv, LowerVariable PROVE IInv'
<1>1. PICK l : l = LookupLocal(Data(Top.id)[1])
  OBVIOUS
<1>2. PICK r : r = Node("variable", locals[l].type, <<l>>, Top.id)
  OBVIOUS
<1>3. /\ Lowering({"variable"}) /\ l # NoLocal /\ result' = r
      /\ used' = IF Top.reads THEN used \cup {l} ELSE used
      /\ Stay /\ Become(<<>>) /\ temp' = temp
  BY <1>1, <1>2 DEF LowerVariable
<1>4. calls # <<>> /\ ~IsBuilder(Top) /\ Top.id \in Ids
  BY <1>3, LoweringFact
<1>5. l \in 1 .. Len(locals)
  BY <1>1, <1>3, LookupFact
<1>6. Settled(Now)
  BY <1>3, StayFact
<1>7. locals[l].type \in 1 .. Len(Now.types)
  <2>1. locals[l] \in LocalsOf(Now)
    BY <1>5, TablesFact
  <2> QED BY <2>1 DEF LocalsOf
<1>8. <<l>> \in Seq(Int) /\ <<l>>[1] = l /\ "variable" \in NodeKinds /\ Top.id \in Spans
  BY <1>4, <1>5 DEF NodeKinds, Spans
<1>9. /\ r \in NodesOf(Now) /\ r.kind = "variable" /\ r.type = locals[l].type
      /\ r.data = <<l>> /\ r.at = Top.id
  BY <1>2, <1>7, <1>8 DEF Node, NodesOf
<1>10. Refers(Now, r)
  BY <1>5, <1>8, <1>9, TablesFact DEF Refers, BinaryOperators
<1>11. Typed(Now, r)
  BY <1>5, <1>8, <1>9, TablesFact DEF Typed, BinaryOperators
<1>12. Returned(Now, r)
  <2>1. HasOperands(r)
    BY <1>9 DEF HasOperands, BinaryOperators
  <2> QED BY <1>4, <1>9, <1>10, <1>11, <2>1 DEF Returned, Sound
<1>13. used' \subseteq 1 .. Len(Now.locals)
  BY <1>3, <1>5, TablesFact DEF IInv
<1> QED BY <1>3, <1>4, <1>6, <1>12, <1>13, ReturnStep

LEMMA UndefinedVariableStep == ASSUME IInv, UndefinedVariable PROVE IInv'
<1>1. Lowering({"variable"}) /\ ReturnMissing(Problem("undefined_variable", Top.id))
  BY DEF UndefinedVariable
<1>2. calls # <<>> /\ ~IsBuilder(Top) /\ Top.id \in Ids
  BY <1>1, LoweringFact
<1>3. Problem("undefined_variable", Top.id) \in Seq(Diagnostics)
  <2>1. "undefined_variable" \in Messages
    BY DEF Messages
  <2> QED BY <1>2, <2>1, ProblemFact
<1> QED BY <1>1, <1>2, <1>3, MissingStep

\* The frame that waits for the operand after those done.
LEMMA LowerOperandsStep ==
  ASSUME IInv, calls # <<>>, ~IsBuilder(Top), NEW h, Settled(h),
         NEW id \in Ids, Kind(id) \in WithOperands,
         NEW done \in Seq(1 .. Len(h.nodes)), \A i \in 1 .. Len(done) : h.nodes[done[i]].at \in Ids,
         Len(done) < Len(Operands(id)), Kind(id) \in ControlFlow => HasVoid(h),
         Call(LowerOperands(id, done))
  PROVE  IInv'
<1>1. PICK f : f = [at |-> "operands", id |-> id, done |-> done]
  OBVIOUS
<1>2. PICK n \in Nat : n = Len(done) + 1
  OBVIOUS
<1>3. FrameFits(h, f) /\ f.at = "operands" /\ ~IsBuilder(f)
  BY <1>1, OperandsFit
<1>4. Operands(id)[n] \in Ids
  <2>1. PICK k \in 1 .. 3 : k = Len(Operands(id)) /\ \A i \in 1 .. k : Operands(id)[i] \in Ids
    BY OperandsFact DEF IInv
  <2>2. n \in 1 .. k
    BY <1>2, <2>1
  <2> QED BY <2>1, <2>2
<1>5. Call(LowerCall(Operands(id)[n], TRUE) \o <<f>>)
  BY <1>1, <1>2 DEF LowerOperands
<1>6. Pending(h, Tail(calls), temp, Len(temp)) /\ Len(temp) \in Nat
  BY StackStays, TablesFact
<1>7. Pending(h, <<f>> \o Tail(calls), temp, Len(temp))
  BY <1>3, <1>6, PendingPlain
<1> QED BY <1>3, <1>4, <1>5, <1>7, CallStep

LEMMA NothingDone ==
  ASSUME ast \in Asts, NEW id \in Ids, Kind(id) \in WithOperands
  PROVE  /\ \A S : <<>> \in Seq(S)
         /\ Len(<<>>) < Len(Operands(id))
         /\ \A i \in 1 .. Len(<<>>) : FALSE
BY OperandsFact

LEMMA BeginOperandsStep == ASSUME IInv, BeginOperands PROVE IInv'
<1>1. /\ Lowering(BinaryOperators \cup {"address_of", "dereference", "index"})
      /\ Stay /\ Call(LowerOperands(Top.id, <<>>))
  BY DEF BeginOperands
<1>2. /\ calls # <<>> /\ ~IsBuilder(Top) /\ Top.id \in Ids
      /\ Kind(Top.id) \in BinaryOperators \cup {"address_of", "dereference", "index"}
  BY <1>1, LoweringFact
<1>3. Kind(Top.id) \in WithOperands /\ Kind(Top.id) \notin ControlFlow
  BY <1>2 DEF WithOperands, ControlFlow, BinaryOperators
<1> QED BY <1>1, <1>2, <1>3, StayFact, NothingDone, LowerOperandsStep DEF IInv

LEMMA AllocateOperandStep == ASSUME IInv, AllocateOperand PROVE IInv'
<1>1. calls # <<>> /\ Top.at = "operands"
  BY DEF AllocateOperand, At
<1>2. PICK done : done = Append(Top.done, Len(nodes) + 1)
  OBVIOUS
<1>3. PICK next_frame : next_frame = [at |-> "finish", id |-> Top.id, done |-> done]
  OBVIOUS
<1>4. /\ Commit(<<result>>, <<>>, <<>>, SameTypes)
      /\ Len(done) < Len(Operands(Top.id)) => Call(LowerOperands(Top.id, done))
      /\ ~(Len(done) < Len(Operands(Top.id))) => Call(<<next_frame>>)
  BY <1>2, <1>3 DEF AllocateOperand
<1>5. /\ Top.id \in Ids /\ Top.done \in Seq(1 .. Len(nodes)) /\ ~IsBuilder(Top)
      /\ FrameFits(Now, Top) /\ Now.nodes = nodes /\ Len(nodes) \in Nat
  BY <1>1, TopFact, TablesFact
<1>6. /\ Kind(Top.id) \in WithOperands /\ Len(Top.done) < Len(Operands(Top.id))
      /\ \A i \in 1 .. Len(Top.done) : nodes[Top.done[i]].at \in Ids
      /\ Kind(Top.id) \in ControlFlow => HasVoid(Now)
  BY <1>1, <1>5 DEF FrameFits
<1>7. Returned(Now, result)
  BY <1>1 DEF IInv, ResultFits, Waiting, Top
<1>8. PICK h : h = Tables(nodes \o <<result>>, locals, types)
  OBVIOUS
<1>9. PICK n \in Nat : n = Len(nodes)
  BY <1>5
<1>10. PICK ns \in Seq(NodesOf(Now)) : ns = <<result>> /\ Len(ns) = 1 /\ ns[1] = result
  <2>1. result \in NodesOf(Now)
    BY <1>7 DEF Returned, Sound
  <2>2. <<result>> \in Seq(NodesOf(Now)) /\ Len(<<result>>) = 1 /\ <<result>>[1] = result
    BY <2>1
  <2> QED BY <2>2
<1>11. \A i \in 1 .. Len(ns) : Sound(Now, ns[i])
  BY <1>7, <1>10 DEF Returned
<1>12. /\ Extends(types, SameTypes.table) /\ TypesFit(SameTypes.table)
       /\ SameTypes.table = types /\ <<>> \in Seq(Diagnostics)
  BY TablesFact, ExtendsItself DEF SameTypes
<1>13. /\ Settled(h) /\ Shaped(h) /\ Grows(Now, h) /\ h.types = types
       /\ Len(h.nodes) = Len(nodes) + Len(ns)
       /\ \A i \in 1 .. Len(nodes) : h.nodes[i] = nodes[i]
       /\ \A i \in 1 .. Len(ns) : h.nodes[Len(nodes) + i] = ns[i]
  <2>1. PICK ty, es : ty = SameTypes /\ es = <<>>
    OBVIOUS
  <2>2. /\ Commit(ns, <<>>, es, ty) /\ h = Tables(nodes \o ns, locals, ty.table)
        /\ Extends(types, ty.table) /\ TypesFit(ty.table) /\ ty.table = types
        /\ es \in Seq(Diagnostics)
    BY <1>4, <1>8, <1>10, <1>12, <2>1
  <2>3. Settled(h) /\ GrownBy(ns, h) /\ h.types = ty.table
    BY <1>11, <2>2, NodesAllocated
  <2> QED BY <2>2, <2>3 DEF GrownBy
<1>14. Settled(h) /\ h.types = types
  BY <1>13
<1>15. /\ Len(h.nodes) = n + 1 /\ h.nodes[n + 1] = result /\ result.at \in Ids
       /\ \A i \in 1 .. n : h.nodes[i] = nodes[i]
  BY <1>7, <1>9, <1>10, <1>13 DEF Returned
<1>16. PICK k \in Nat : k = Len(Top.done)
  BY <1>5
<1>17. done \in Seq(1 .. Len(h.nodes)) /\ Len(done) = k + 1
       /\ done[k + 1] = n + 1 /\ \A i \in 1 .. k : done[i] = Top.done[i]
  <2>1. 1 .. n \subseteq 1 .. n + 1 /\ n + 1 \in 1 .. n + 1
    OBVIOUS
  <2>2. \A S, T : S \subseteq T => Seq(S) \subseteq Seq(T)
    OBVIOUS
  <2>3. Top.done \in Seq(1 .. n + 1)
    BY <1>5, <1>9, <2>1, <2>2
  <2>4. done = Append(Top.done, n + 1) /\ Len(h.nodes) = n + 1
    BY <1>2, <1>9, <1>15
  <2>5. done \in Seq(1 .. n + 1)
    BY <2>1, <2>3, <2>4
  <2>6. Len(done) = k + 1 /\ done[k + 1] = n + 1 /\ \A i \in 1 .. k : done[i] = Top.done[i]
    BY <1>16, <2>1, <2>3, <2>4
  <2> QED BY <2>4, <2>5, <2>6
<1>18. ASSUME NEW i \in 1 .. k + 1 PROVE h.nodes[done[i]].at \in Ids
  <2>1. CASE i = k + 1
    BY <1>15, <1>17, <2>1
  <2>2. CASE i # k + 1
    <3>1. i \in 1 .. Len(Top.done) /\ done[i] = Top.done[i]
      BY <1>16, <1>17, <2>2
    <3>2. Top.done[i] \in 1 .. n
      BY <1>5, <1>9, <3>1
    <3> QED BY <1>6, <1>15, <3>1, <3>2
  <2> QED BY <2>1, <2>2
<1>19. Kind(Top.id) \in ControlFlow => HasVoid(h)
  BY <1>6, <1>14, TablesFact DEF HasVoid
<1>20. Len(Operands(Top.id)) \in Nat
  BY <1>5, <1>6, OperandsFact DEF IInv
<1>21. CASE Len(done) < Len(Operands(Top.id))
  BY <1>1, <1>4, <1>5, <1>6, <1>14, <1>17, <1>18, <1>19, <1>21, LowerOperandsStep
<1>22. CASE ~(Len(done) < Len(Operands(Top.id)))
  <2>1. Len(done) = Len(Operands(Top.id))
    BY <1>6, <1>16, <1>17, <1>20, <1>22
  <2>2. FrameFits(h, next_frame) /\ next_frame.at = "finish" /\ ~IsBuilder(next_frame)
    <3>1. \A i \in 1 .. Len(done) : h.nodes[done[i]].at \in Ids
      BY <1>17, <1>18
    <3>2. done \in Seq(1 .. Len(h.nodes)) /\ Top.id \in Ids /\ Kind(Top.id) \in WithOperands
      BY <1>5, <1>6, <1>17
    <3>3. \A f : f = [at |-> "finish", id |-> Top.id, done |-> done]
                 /\ Len(done) = Len(Operands(Top.id)) =>
                   FrameFits(h, f) /\ f.at = "finish" /\ ~IsBuilder(f)
      BY <1>19, <3>1, <3>2, OperandsFit
    <3> QED BY <1>3, <2>1, <3>3
  <2>3. Pending(h, Tail(calls), temp, Len(temp)) /\ Len(temp) \in Nat
    BY <1>1, <1>5, <1>14, StackStays, TablesFact
  <2>4. Pending(h, <<next_frame>> \o Tail(calls), temp, Len(temp))
    BY <2>2, <2>3, PendingPlain
  <2>5. calls' = <<next_frame>> \o Tail(calls) /\ UNCHANGED <<result, temp, used>>
    BY <1>4, <1>22 DEF Call, Become
  <2> QED BY <1>1, <1>14, <2>2, <2>4, <2>5, GoOnStep DEF Waiting
<1> QED BY <1>21, <1>22

\* An entry of the table of types.
LEMMA EntryFact ==
  ASSUME IInv, NEW t \in 1 .. Len(types)
  PROVE  /\ types[t].child \in Nat
         /\ types[t].kind = "i64" => types[t] = I64
         /\ types[t].kind = "pointer" => types[t] = Pointer(types[t].child)
         /\ types[t].kind \in {"pointer", "array"} => types[t].child \in 1 .. Len(types)
<1>1. types[t] \in TypeEntries /\ EntryFits(types[t], 1 .. t - 1) /\ Len(types) \in Nat
  BY TablesFact DEF TypesFit
<1>2. 1 .. t - 1 \subseteq 1 .. Len(types)
  BY <1>1
<1> QED BY <1>1, <1>2 DEF EntryFits, TypeEntries

LEMMA FinishBinaryOperationStep == ASSUME IInv, FinishBinaryOperation PROVE IInv'
<1>1. PICK k, a : k = Kind(Top.id) /\ a = Operand(1)
  OBVIOUS
<1>2. /\ Finishing(BinaryOperators) /\ Stay /\ Return(k, a.type, Top.done) /\ temp' = temp
  BY <1>1 DEF FinishBinaryOperation
<1>3. /\ calls # <<>> /\ ~IsBuilder(Top) /\ Top.id \in Ids /\ k \in BinaryOperators
      /\ Top.done \in Seq(Int) /\ Len(Top.done) = 2 /\ a.type \in 1 .. Len(types)
      /\ Top.done[1] \in 1 .. Len(nodes) /\ Top.done[2] \in 1 .. Len(nodes)
  BY <1>1, <1>2, FinishingFact
<1>4. k \in NodeKinds /\ Top.id \in Spans /\ a = nodes[Top.done[1]]
  BY <1>1, <1>3 DEF NodeKinds, Spans, Operand
<1>5. PICK n : n = Node(k, a.type, Top.done, Top.id)
  OBVIOUS
<1>6. /\ n \in NodesOf(Now)
      /\ n.kind = k /\ n.type = a.type /\ n.data = Top.done
  BY <1>3, <1>4, <1>5, TablesFact DEF Node, NodesOf
<1>7. Refers(Now, n)
  BY <1>3, <1>6, TablesFact DEF Refers, BinaryOperators
<1>8. Typed(Now, n)
  BY <1>3, <1>4, <1>6, TablesFact DEF Typed, BinaryOperators
<1>9. HasOperands(n)
  BY <1>3, <1>6 DEF HasOperands, BinaryOperators
<1> QED BY <1>2, <1>3, <1>5, <1>6, <1>7, <1>8, <1>9, StayFact, ReturnNode DEF Sound

LEMMA FinishAddressOfStep == ASSUME IInv, FinishAddressOf PROVE IInv'
<1>1. PICK a : a = Operand(1)
  OBVIOUS
<1>2. PICK w : w = WithType(types, Pointer(a.type))
  OBVIOUS
<1>3. /\ Finishing({"address_of"}) /\ Commit(<<>>, <<>>, <<>>, w)
      /\ Return("address_of", w.index, Top.done) /\ temp' = temp
  BY <1>1, <1>2 DEF FinishAddressOf
<1>4. /\ calls # <<>> /\ ~IsBuilder(Top) /\ Top.id \in Ids
      /\ Top.done \in Seq(Int) /\ a.type \in 1 .. Len(types) /\ a.type \in Nat
      /\ Top.done[1] \in 1 .. Len(nodes) /\ Len(Top.done) = 1
  BY <1>1, <1>3, FinishingFact
<1>5. PICK h : h = Tables(nodes, locals, w.table)
  OBVIOUS
<1>6. <<>> \in Seq(Diagnostics) /\ Pointer(a.type) \in TypeEntries
      /\ EntryFits(Pointer(a.type), 1 .. Len(types))
  BY <1>4, EntriesFact
<1>7. Settled(h) /\ WithEntry(types, Pointer(a.type), w)
  BY <1>2, <1>3, <1>5, <1>6, TypeAllocated
<1>8. /\ w.index \in 1 .. Len(h.types) /\ h.types[w.index] = Pointer(a.type)
      /\ h.nodes = nodes
  BY <1>5, <1>7 DEF WithEntry, Tables
<1>9. "address_of" \in NodeKinds /\ Top.id \in Spans /\ a = nodes[Top.done[1]]
  BY <1>1, <1>4 DEF NodeKinds, Spans, Operand
<1>10. PICK n : n = Node("address_of", w.index, Top.done, Top.id)
  OBVIOUS
<1>11. /\ n \in NodesOf(h)
       /\ n.kind = "address_of" /\ n.type = w.index /\ n.data = Top.done
  BY <1>4, <1>8, <1>9, <1>10 DEF Node, NodesOf
<1>12. Refers(h, n)
  BY <1>4, <1>8, <1>11 DEF Refers, BinaryOperators
<1>13. Typed(h, n)
  BY <1>8, <1>9, <1>11 DEF Typed, BinaryOperators
<1>14. HasOperands(n)
  BY <1>4, <1>11 DEF HasOperands, BinaryOperators
<1> QED BY <1>3, <1>4, <1>7, <1>10, <1>11, <1>12, <1>13, <1>14, ReturnNode DEF Sound

LEMMA FinishDereferenceStep == ASSUME IInv, FinishDereference PROVE IInv'
<1>1. PICK a : a = Operand(1)
  OBVIOUS
<1>2. PICK t : t = types[a.type]
  OBVIOUS
<1>3. /\ Finishing({"dereference"}) /\ Stay /\ t.kind = "pointer"
      /\ Return("dereference", t.child, Top.done) /\ temp' = temp
  BY <1>1, <1>2 DEF FinishDereference, OperandType
<1>4. /\ calls # <<>> /\ ~IsBuilder(Top) /\ Top.id \in Ids
      /\ Top.done \in Seq(Int) /\ a.type \in 1 .. Len(types) /\ Top.done[1] \in 1 .. Len(nodes)
      /\ Len(Top.done) = 1
  BY <1>1, <1>3, FinishingFact
<1>5. t = Pointer(t.child) /\ t.child \in 1 .. Len(types)
  BY <1>2, <1>3, <1>4, EntryFact
<1>6. "dereference" \in NodeKinds /\ Top.id \in Spans /\ a = nodes[Top.done[1]]
  BY <1>1, <1>4 DEF NodeKinds, Spans, Operand
<1>7. PICK n : n = Node("dereference", t.child, Top.done, Top.id)
  OBVIOUS
<1>8. /\ n \in NodesOf(Now)
      /\ n.kind = "dereference" /\ n.type = t.child /\ n.data = Top.done
  BY <1>4, <1>5, <1>6, <1>7, TablesFact DEF Node, NodesOf
<1>9. Refers(Now, n)
  BY <1>4, <1>8, TablesFact DEF Refers, BinaryOperators
<1>10. Typed(Now, n)
  BY <1>2, <1>5, <1>6, <1>8, TablesFact DEF Typed, BinaryOperators
<1>11. HasOperands(n)
  BY <1>4, <1>8 DEF HasOperands, BinaryOperators
<1> QED BY <1>3, <1>4, <1>7, <1>8, <1>9, <1>10, <1>11, StayFact, ReturnNode DEF Sound

LEMMA FinishIndexStep == ASSUME IInv, FinishIndex PROVE IInv'
<1>1. PICK a, b : a = Operand(1) /\ b = Operand(2)
  OBVIOUS
<1>2. PICK t, u : t = types[a.type] /\ u = types[b.type]
  OBVIOUS
<1>3. /\ Finishing({"index"}) /\ Stay /\ t.kind = "array" /\ u.kind = "i64"
      /\ Return("index", t.child, Top.done) /\ temp' = temp
  BY <1>1, <1>2 DEF FinishIndex, OperandType
<1>4. /\ calls # <<>> /\ ~IsBuilder(Top) /\ Top.id \in Ids
      /\ Top.done \in Seq(Int) /\ Len(Top.done) = 2
      /\ a.type \in 1 .. Len(types) /\ b.type \in 1 .. Len(types)
      /\ Top.done[1] \in 1 .. Len(nodes) /\ Top.done[2] \in 1 .. Len(nodes)
  BY <1>1, <1>3, FinishingFact
<1>5. u = I64 /\ t.child \in 1 .. Len(types)
  BY <1>2, <1>3, <1>4, EntryFact
<1>6. "index" \in NodeKinds /\ Top.id \in Spans
      /\ a = nodes[Top.done[1]] /\ b = nodes[Top.done[2]]
  BY <1>1, <1>4 DEF NodeKinds, Spans, Operand
<1>7. PICK n : n = Node("index", t.child, Top.done, Top.id)
  OBVIOUS
<1>8. /\ n \in NodesOf(Now)
      /\ n.kind = "index" /\ n.type = t.child /\ n.data = Top.done
  BY <1>4, <1>5, <1>6, <1>7, TablesFact DEF Node, NodesOf
<1>9. Refers(Now, n)
  BY <1>4, <1>8, TablesFact DEF Refers, BinaryOperators
<1>10. Typed(Now, n)
  BY <1>2, <1>3, <1>5, <1>6, <1>8, TablesFact DEF Typed, BinaryOperators
<1>11. HasOperands(n)
  BY <1>4, <1>8 DEF HasOperands, BinaryOperators
<1> QED BY <1>3, <1>4, <1>7, <1>8, <1>9, <1>10, <1>11, StayFact, ReturnNode DEF Sound

\* Operands with types that do not fit.
LEMMA MistypedOperandStep ==
  ASSUME IInv, NEW kinds, Finishing(kinds), NEW what \in Messages, NEW text, NEW shown,
         ReturnMistyped(what, Operand(1).at, text, shown)
  PROVE  IInv'
<1>1. PICK at : at = Operand(1).at
  OBVIOUS
<1>2. /\ calls # <<>> /\ ~IsBuilder(Top) /\ Top.id \in Ids
      /\ 1 \in 1 .. Len(Top.done) /\ \A i \in 1 .. Len(Top.done) : Operand(i).at \in Ids
  BY FinishingFact
<1>4. at \in Ids
  BY <1>1, <1>2
<1>3. ReturnMistyped(what, at, text, shown)
  BY <1>1
<1> QED BY <1>2, <1>3, <1>4, MistypedStep

LEMMA MistypedOperands ==
  /\ IInv /\ DereferenceOfNonPointer => IInv'
  /\ IInv /\ IndexIsNotAnInteger => IInv'
  /\ IInv /\ IndexOfNonArray => IInv'
<1>1. {"cannot_dereference", "non-integer_index", "cannot_index"} \subseteq Messages
  BY DEF Messages
<1>2. ASSUME IInv, DereferenceOfNonPointer PROVE IInv'
  BY <1>1, <1>2, MistypedOperandStep DEF DereferenceOfNonPointer
<1>3. ASSUME IInv, IndexIsNotAnInteger PROVE IInv'
  BY <1>1, <1>3, MistypedOperandStep DEF IndexIsNotAnInteger
<1>4. ASSUME IInv, IndexOfNonArray PROVE IInv'
  BY <1>1, <1>4, MistypedOperandStep DEF IndexOfNonArray
<1> QED BY <1>2, <1>3, <1>4
------------------------------------------------------------------------------
(* Array literals and blocks.                                              *)

BuilderFrame(at, id, base, count, child) ==
  [at |-> at, id |-> id, base |-> base, count |-> count, child |-> child]

\* What is known of a builder on top.
LEMMA BuilderTop ==
  ASSUME IInv, calls # <<>>, Top.at \in {"array", "element", "block", "block_statement"}
  PROVE  /\ IsBuilder(Top) /\ Top.id \in Ids /\ NodeFits(Top.id)
         /\ Top = BuilderFrame(Top.at, Top.id, Top.base, Top.count, Top.child)
         /\ Top.base \in Nat /\ Top.count \in Nat /\ Top.base + Top.count = Len(temp)
         /\ Top.child \in 0 .. Len(types)
         /\ Top.at \in {"array", "element"} =>
              /\ Kind(Top.id) = "array_literal"
              /\ Top.child \in 1 .. Len(types) /\ Top.child # 0
              /\ \A k \in Top.base + 1 .. Top.base + Top.count : IsElement(Now, temp[k], Top.child)
         /\ Top.at \in {"block", "block_statement"} => Kind(Top.id) = "block"
         /\ Tail(calls) \in Seq(FramesOf(Now)) /\ Pending(Now, Tail(calls), temp, Top.base)
<1>1. IsBuilder(Top)
  BY DEF IsBuilder
<1>2. Top \in FramesOf(Now) /\ FrameFits(Now, Top)
  BY TopFact
<1>3. Top \in [at : {"array", "element", "block", "block_statement"},
               id : Ids, base : Nat, count : Nat, child : 0 .. Len(Now.types)]
  BY <1>2 DEF FramesOf
<1>4. Top = BuilderFrame(Top.at, Top.id, Top.base, Top.count, Top.child)
  BY <1>3 DEF BuilderFrame
<1>5. NodeFits(Top.id)
  BY <1>3, NodeFact DEF IInv
<1>6. Len(temp) \in Nat /\ Now.types = types /\ Len(types) \in Nat
  BY TablesFact
<1>7. /\ ElementsFit(Now, Top, temp)
      /\ Tail(calls) \in Seq(FramesOf(Now))
      /\ Top.base + Top.count = Len(temp) /\ Pending(Now, Tail(calls), temp, Top.base)
  BY <1>1, <1>6, PendingBelow DEF IInv, Top
<1>8. Top.at \in {"array", "element"} =>
        /\ Kind(Top.id) = "array_literal" /\ Top.child \in 1 .. Len(types)
        /\ \A k \in Top.base + 1 .. Top.base + Top.count : IsElement(Now, temp[k], Top.child)
  BY <1>2, <1>6, <1>7 DEF FrameFits, ElementsFit
<1>9. Top.child \in 1 .. Len(types) => Top.child # 0
  BY <1>6
<1>10. Top.at \in {"block", "block_statement"} => Kind(Top.id) = "block"
  BY <1>2 DEF FrameFits
<1> QED BY <1>1, <1>3, <1>4, <1>5, <1>6, <1>7, <1>8, <1>9, <1>10

\* A builder in the place of the top frame, with a new base.
LEMMA BeginBuilderStep ==
  ASSUME IInv, calls # <<>>, ~IsBuilder(Top), Top.id \in Ids, NEW h, Settled(h),
         Len(h.types) \in Nat, NEW child \in 0 .. Len(h.types), NEW at \in {"array", "block"},
         at = "array" => Kind(Top.id) = "array_literal" /\ child # 0,
         at = "block" => Kind(Top.id) = "block",
         Call(<<BuilderFrame(at, Top.id, Len(temp), 0, child)>>)
  PROVE  IInv'
<1>1. PICK f, size : f = BuilderFrame(at, Top.id, size, 0, child) /\ size = Len(temp)
  OBVIOUS
<1>2. size \in Nat /\ Pending(h, Tail(calls), temp, size)
  BY <1>1, TablesFact, StackStays
<1>3. /\ f.base = size /\ f.count = 0 /\ f.at = at
      /\ f = [at |-> at, id |-> Top.id, base |-> size, count |-> 0, child |-> child]
  BY <1>1 DEF BuilderFrame
<1>4. FrameFits(h, f) /\ f.at # "function" /\ IsBuilder(f)
  BY <1>2, <1>3, BuilderFits
<1>5. ElementsFit(h, f, temp)
  BY <1>2, <1>3 DEF ElementsFit
<1>6. Pending(h, <<f>> \o Tail(calls), temp, size + 0)
  BY <1>2, <1>3, <1>4, <1>5, PendingAbove
<1>7. Pending(h, <<f>> \o Tail(calls), temp, Len(temp))
  BY <1>1, <1>2, <1>6
<1>8. calls' = <<f>> \o Tail(calls) /\ UNCHANGED <<result, temp, used>>
  BY <1>1 DEF Call, Become
<1> QED BY <1>3, <1>7, <1>8, GoOnStep DEF Waiting

LEMMA BeginArrayStep == ASSUME IInv, BeginArray PROVE IInv'
<1>1. PICK w : w = WithType(types, Void)
  OBVIOUS
<1>2. /\ Lowering({"array_literal"}) /\ Commit(<<>>, <<>>, <<>>, w)
      /\ Call(<<[Builder("array") EXCEPT !.child = w.index]>>)
  BY <1>1 DEF BeginArray
<1>3. [Builder("array") EXCEPT !.child = w.index] =
        BuilderFrame("array", Top.id, Len(temp), 0, w.index)
  BY DEF Builder, BuilderFrame
<1>4. calls # <<>> /\ ~IsBuilder(Top) /\ Top.id \in Ids /\ Kind(Top.id) = "array_literal"
  BY <1>2, LoweringFact
<1>5. PICK h : h = Tables(nodes, locals, w.table)
  OBVIOUS
<1>6. <<>> \in Seq(Diagnostics)
  OBVIOUS
<1>7. Settled(h) /\ WithEntry(types, Void, w)
  BY <1>1, <1>2, <1>5, <1>6, TypeAllocated, EntriesFact
<1>8. w.index \in 1 .. Len(h.types) /\ Len(h.types) \in Nat
  BY <1>5, <1>7 DEF WithEntry, Tables, TypesFit
<1>9. w.index \in 0 .. Len(h.types) /\ w.index # 0
  BY <1>8
<1> QED BY <1>2, <1>3, <1>4, <1>7, <1>8, <1>9, BeginBuilderStep

LEMMA BeginBlockStep == ASSUME IInv, BeginBlock PROVE IInv'
<1>1. Lowering({"block"}) /\ Stay /\ Call(<<Builder("block")>>)
  BY DEF BeginBlock
<1>2. Builder("block") = BuilderFrame("block", Top.id, Len(temp), 0, 0)
  BY DEF Builder, BuilderFrame
<1>3. calls # <<>> /\ ~IsBuilder(Top) /\ Top.id \in Ids /\ Kind(Top.id) = "block"
  BY <1>1, LoweringFact
<1>4. Len(Now.types) \in Nat /\ 0 \in 0 .. Len(Now.types)
  BY TablesFact
<1> QED BY <1>1, <1>2, <1>3, <1>4, StayFact, BeginBuilderStep

\* A child of a builder is lowered.
LEMMA BeginChildStep ==
  ASSUME IInv, calls # <<>>, Stay, NEW id \in Ids,
         NEW from \in {"array", "block"}, Top.at = from,
         NEW at \in {"element", "block_statement"}, from = "array" <=> at = "element",
         Call(LowerCall(id, TRUE) \o <<[Top EXCEPT !.at = at]>>)
  PROVE  IInv'
<1>1. /\ IsBuilder(Top) /\ Top.id \in Ids
      /\ Top = BuilderFrame(Top.at, Top.id, Top.base, Top.count, Top.child)
      /\ Top.base \in Nat /\ Top.count \in Nat /\ Top.base + Top.count = Len(temp)
      /\ Top.child \in 0 .. Len(types)
      /\ Top.at = "array" =>
           /\ Kind(Top.id) = "array_literal" /\ Top.child # 0
           /\ \A k \in Top.base + 1 .. Top.base + Top.count : IsElement(Now, temp[k], Top.child)
      /\ Top.at = "block" => Kind(Top.id) = "block"
      /\ Pending(Now, Tail(calls), temp, Top.base)
  BY BuilderTop
<1>2. PICK f : f = BuilderFrame(at, Top.id, Top.base, Top.count, Top.child)
  OBVIOUS
<1>3. [Top EXCEPT !.at = at] = f
  BY <1>1, <1>2 DEF BuilderFrame
<1>4. /\ f.base = Top.base /\ f.count = Top.count /\ f.child = Top.child /\ f.at = at
      /\ f = [at |-> at, id |-> Top.id, base |-> Top.base, count |-> Top.count, child |-> Top.child]
  BY <1>2 DEF BuilderFrame
<1>5. Top.child \in 0 .. Len(Now.types) /\ Len(Now.types) \in Nat
  BY <1>1, TablesFact
<1>6. FrameFits(Now, f) /\ f.at # "function" /\ IsBuilder(f)
  BY <1>1, <1>4, <1>5, BuilderFits
<1>7. ElementsFit(Now, f, temp)
  BY <1>1, <1>4 DEF ElementsFit
<1>8. Pending(Now, <<f>> \o Tail(calls), temp, Top.base + Top.count)
  BY <1>1, <1>4, <1>6, <1>7, PendingAbove
<1>9. Pending(Now, <<f>> \o Tail(calls), temp, Len(temp))
  BY <1>1, <1>8
<1>10. Call(LowerCall(id, TRUE) \o <<f>>)
  BY <1>3
<1> QED BY <1>6, <1>9, <1>10, StayFact, CallStep

LEMMA ChildFact ==
  ASSUME IInv, calls # <<>>, Top.at \in {"array", "block"}, ChildrenLeft
  PROVE  /\ Top.at = "array" => Expression(NextChild) \in Ids
         /\ Top.at = "block" => Statement(NextChild) \in Ids
<1>1. PICK d, count : d = Data(Top.id) /\ count = Top.count
  OBVIOUS
<1>2. /\ Top.at = "array" => IsList(d, DOMAIN ast.expressions)
      /\ Top.at = "block" => IsList(d, DOMAIN ast.statements)
      /\ count \in Nat
  BY <1>1, BuilderTop DEF NodeFits
<1>3. count < d[2] /\ NextChild = d[1] + count
  BY <1>1 DEF ChildrenLeft, NextChild
<1>4. ASSUME NEW S, IsList(d, S) PROVE d[1] + count \in S
  <2>1. d[1] \in Nat /\ d[2] \in Nat /\ d[1] .. d[1] + d[2] - 1 \subseteq S
    BY <1>4 DEF IsList
  <2>2. d[1] + count \in d[1] .. d[1] + d[2] - 1
    BY <1>2, <1>3, <2>1
  <2> QED BY <2>1, <2>2
<1> QED BY <1>2, <1>3, <1>4, IdFact

LEMMA BeginElementStep == ASSUME IInv, BeginElement PROVE IInv'
<1>1. /\ calls # <<>> /\ Top.at = "array" /\ ChildrenLeft /\ Stay
      /\ Call(LowerCall(Expression(NextChild), TRUE) \o <<[Top EXCEPT !.at = "element"]>>)
  BY DEF BeginElement, At
<1>2. Expression(NextChild) \in Ids
  BY <1>1, ChildFact
<1> QED BY <1>1, <1>2, BeginChildStep

LEMMA BeginBlockStatementStep == ASSUME IInv, BeginBlockStatement PROVE IInv'
<1>1. /\ calls # <<>> /\ Top.at = "block" /\ ChildrenLeft /\ Stay
      /\ Call(LowerCall(Statement(NextChild), TRUE) \o <<[Top EXCEPT !.at = "block_statement"]>>)
  BY DEF BeginBlockStatement, At
<1>2. Statement(NextChild) \in Ids
  BY <1>1, ChildFact
<1> QED BY <1>1, <1>2, BeginChildStep

LEMMA PushedTop ==
  ASSUME Top = BuilderFrame(Top.at, Top.id, Top.base, Top.count, Top.child), NEW at
  PROVE  Pushed(at) = BuilderFrame(at, Top.id, Top.base, Top.count + 1, Top.child)
<1>1. PICK f, a, id, base, count, child :
        /\ f = Top /\ a = Top.at /\ id = Top.id /\ base = Top.base /\ count = Top.count
        /\ child = Top.child
  OBVIOUS
<1>2. f = BuilderFrame(a, id, base, count, child)
  BY <1>1
<1>3. PICK more : more = count + 1
  OBVIOUS
<1>4. PICK g : g = [f EXCEPT !.at = at]
  OBVIOUS
<1>5. g = BuilderFrame(at, id, base, count, child)
  BY <1>2, <1>4 DEF BuilderFrame
<1>6. [g EXCEPT !.count = more] = BuilderFrame(at, id, base, more, child)
  BY <1>5 DEF BuilderFrame
<1>7. Pushed(at) = [f EXCEPT !.at = at, !.count = more]
  BY <1>1, <1>3 DEF Pushed
<1>8. [f EXCEPT !.at = at, !.count = more] = [g EXCEPT !.count = more]
  BY <1>4
<1> QED BY <1>1, <1>3, <1>6, <1>7, <1>8

\* A node is pushed to the builder on top.
LEMMA PushStep ==
  ASSUME IInv, calls # <<>>, NEW h, Settled(h), Top.at \in {"element", "block_statement"},
         NEW n, Sound(h, n), NEW at \in {"array", "block"}, at = "array" <=> Top.at = "element",
         NEW child \in 0 .. Len(h.types), Len(h.types) \in Nat, at = "array" => child # 0,
         at = "array" => IsElement(h, n, child),
         at = "array" => \A k \in Top.base + 1 .. Top.base + Top.count : IsElement(h, temp[k], child),
         Become(<<BuilderFrame(at, Top.id, Top.base, Top.count + 1, child)>>),
         temp' = Append(temp, n), UNCHANGED <<result, used>>
  PROVE  IInv'
<1>1. PICK base \in Nat, count \in Nat : base = Top.base /\ count = Top.count
  BY BuilderTop
<1>2. /\ IsBuilder(Top) /\ Top.id \in Ids /\ base + count = Len(temp)
      /\ at = "array" => Kind(Top.id) = "array_literal"
      /\ at = "block" => Kind(Top.id) = "block"
  BY <1>1, BuilderTop
<1>3. PICK t : t = Tail(calls)
  OBVIOUS
<1>4. /\ ArenaFits(h, temp) /\ t \in Seq(FramesOf(h)) /\ Pending(h, t, temp, base)
      /\ Returned(h, result) \/ result = NoResult
  BY <1>1, <1>2, <1>3, StackStays
<1>5. temp \in Seq(NodesOf(h)) /\ n \in NodesOf(h)
  BY <1>4 DEF ArenaFits, Sound
<1>6. PICK m \in Seq(NodesOf(h)) : m = Append(temp, n)
  <2>1. Append(temp, n) \in Seq(NodesOf(h))
    BY <1>5
  <2> QED BY <2>1
<1>7. /\ Len(m) = base + (count + 1) /\ m[base + (count + 1)] = n
      /\ \A k \in 1 .. base + count : m[k] = temp[k]
  <2>1. /\ Len(m) = Len(temp) + 1 /\ m[Len(temp) + 1] = n
        /\ \A k \in 1 .. Len(temp) : m[k] = temp[k]
    BY <1>5, <1>6
  <2>2. base + (count + 1) = Len(temp) + 1
    BY <1>2
  <2> QED BY <1>2, <2>1, <2>2
<1>8. ArenaFits(h, m)
  <2>1. ASSUME NEW k \in 1 .. Len(m) PROVE Sound(h, m[k])
    <3>1. CASE k = base + (count + 1)
      BY <1>7, <3>1
    <3>2. CASE k # base + (count + 1)
      <4>1. k \in 1 .. Len(temp) /\ m[k] = temp[k]
        BY <1>2, <1>7, <3>2
      <4> QED BY <1>4, <4>1 DEF ArenaFits
    <3> QED BY <3>1, <3>2
  <2> QED BY <2>1 DEF ArenaFits
<1>9. Pending(h, t, m, base)
  <2>1. Shaped(h)
    BY DEF Settled, TablesFit
  <2>2. Grows(h, h)
    BY <2>1, ExtendsItself DEF Grows, Shaped, TypesFit
  <2>3. \A k \in 1 .. base : k <= Len(temp) /\ m[k] = temp[k]
    BY <1>2, <1>7
  <2> QED BY <1>4, <2>1, <2>2, <2>3, PendingStays
<1>10. PICK f : f = BuilderFrame(at, Top.id, base, count + 1, child)
  OBVIOUS
<1>11. /\ f.base = base /\ f.count = count + 1 /\ f.child = child /\ f.at = at
       /\ f = [at |-> at, id |-> Top.id, base |-> base, count |-> count + 1, child |-> child]
  BY <1>10 DEF BuilderFrame
<1>12. FrameFits(h, f) /\ f.at # "function" /\ IsBuilder(f)
  <2>1. at \in {"array", "element", "block", "block_statement"}
    OBVIOUS
  <2>2. at \in {"array", "element"} => Kind(Top.id) = "array_literal" /\ child # 0
    BY <1>2
  <2>3. at \in {"block", "block_statement"} => Kind(Top.id) = "block"
    BY <1>2
  <2>4. PICK more \in Nat : more = count + 1
    OBVIOUS
  <2>5. f = [at |-> at, id |-> Top.id, base |-> base, count |-> more, child |-> child]
    BY <1>11, <2>4
  <2> QED BY <1>2, <2>1, <2>2, <2>3, <2>5, BuilderFits
<1>13. ElementsFit(h, f, m)
  <2> SUFFICES ASSUME at = "array", NEW k \in base + 1 .. base + (count + 1)
               PROVE  IsElement(h, m[k], child)
    BY <1>11 DEF ElementsFit
  <2>1. CASE k = base + (count + 1)
    BY <1>7, <2>1
  <2>2. CASE k # base + (count + 1)
    <3>1. k \in base + 1 .. base + count /\ m[k] = temp[k]
      BY <1>7, <2>2
    <3> QED BY <1>1, <3>1
  <2> QED BY <2>1, <2>2
<1>14. PICK s : s = <<f>> \o t
  OBVIOUS
<1>15. Pending(h, s, m, base + (count + 1))
  <2>1. PICK more \in Nat : more = count + 1
    OBVIOUS
  <2>2. f.base = base /\ f.count = more
    BY <1>11, <2>1
  <2>3. Pending(h, <<f>> \o t, m, base + more)
    BY <1>9, <1>12, <1>13, <2>2, PendingAbove
  <2> QED BY <1>14, <2>1, <2>3
<1>16. s[1] = f
  BY <1>4, <1>12, <1>14 DEF FrameFits
<1>17. ResultFits(h, s, result)
  BY <1>4, <1>11, <1>16 DEF ResultFits, Waiting
<1>18. calls' = s /\ temp' = m /\ result' = result /\ used' = used
  BY <1>1, <1>3, <1>6, <1>10, <1>14 DEF Become
<1> QED BY <1>7, <1>8, <1>15, <1>17, <1>18, UsedStays, Continue

LEMMA EndBlockStatementStep == ASSUME IInv, EndBlockStatement PROVE IInv'
<1>1. /\ calls # <<>> /\ Top.at = "block_statement" /\ Stay /\ temp' = Append(temp, result)
      /\ Become(<<Pushed("block")>>) /\ UNCHANGED <<result, used>>
  BY DEF EndBlockStatement, At
<1>2. Top = BuilderFrame(Top.at, Top.id, Top.base, Top.count, Top.child)
      /\ Top.child \in 0 .. Len(types)
  BY <1>1, BuilderTop
<1>3. Pushed("block") = BuilderFrame("block", Top.id, Top.base, Top.count + 1, Top.child)
  BY <1>2, PushedTop
<1>4. Sound(Now, result)
  BY <1>1 DEF IInv, ResultFits, Waiting, Top, Returned
<1>5. Top.child \in 0 .. Len(Now.types) /\ Len(Now.types) \in Nat
  BY <1>2, TablesFact
<1> QED BY <1>1, <1>3, <1>4, <1>5, StayFact, PushStep

LEMMA EndElementStep == ASSUME IInv, EndElement PROVE IInv'
<1>1. PICK child : child = IF TypeKind(Top.child) = "void" THEN result.type ELSE Top.child
  OBVIOUS
<1>2. /\ calls # <<>> /\ Top.at = "element" /\ ElementTypes /\ Stay /\ temp' = Append(temp, result)
      /\ Become(<<[Pushed("array") EXCEPT
                     !.child = IF TypeKind(@) = "void" THEN result.type ELSE @]>>)
      /\ UNCHANGED <<result, used>>
  BY DEF EndElement, At
<1>3. /\ Top = BuilderFrame(Top.at, Top.id, Top.base, Top.count, Top.child)
      /\ Top.child \in 1 .. Len(types)
      /\ \A k \in Top.base + 1 .. Top.base + Top.count : IsElement(Now, temp[k], Top.child)
  BY <1>2, BuilderTop
<1>4. [Pushed("array") EXCEPT !.child = IF TypeKind(@) = "void" THEN result.type ELSE @] =
        BuilderFrame("array", Top.id, Top.base, Top.count + 1, child)
  <2>1. Pushed("array") = BuilderFrame("array", Top.id, Top.base, Top.count + 1, Top.child)
    BY <1>3, PushedTop
  <2> QED BY <1>1, <2>1 DEF BuilderFrame
<1>5. Sound(Now, result)
  BY <1>2 DEF IInv, ResultFits, Waiting, Top, Returned
<1>6. result.type \in 1 .. Len(types) /\ Len(types) \in Nat /\ Now.types = types
  BY <1>5, TablesFact DEF Sound, NodesOf
<1>7. child \in 1 .. Len(types)
  BY <1>1, <1>3, <1>6
<1>8. child \in 0 .. Len(Now.types) /\ Len(Now.types) \in Nat /\ child # 0
  BY <1>6, <1>7
<1>9. IsElement(Now, result, child)
  BY <1>1, <1>2 DEF IsElement, ElementTypes
<1>10. ASSUME NEW k \in Top.base + 1 .. Top.base + Top.count PROVE IsElement(Now, temp[k], child)
  BY <1>1, <1>3, <1>6 DEF IsElement, TypeKind
<1> QED BY <1>2, <1>4, <1>5, <1>8, <1>9, <1>10, StayFact, PushStep

LEMMA MistypedElementStep == ASSUME IInv, MistypedElement PROVE IInv'
<1>1. PICK w, n, es : /\ w = WithType(types, Void)
                      /\ n = Node("missing", w.index, <<>>, result.at)
                      /\ es = Problem("mistyped_element", result.at)
  OBVIOUS
<1>2. /\ calls # <<>> /\ Top.at = "element"
      /\ \/ /\ Commit(<<>>, <<>>, es, w)
            /\ temp' = Append(temp, n)
            /\ Become(<<Pushed("array")>>)
            /\ UNCHANGED <<result, used>>
         \/ MessageTooLong
  BY <1>1 DEF MistypedElement, At
<1>3. /\ Top = BuilderFrame(Top.at, Top.id, Top.base, Top.count, Top.child)
      /\ Top.child \in 1 .. Len(types) /\ Top.child # 0
  BY <1>2, BuilderTop
<1>4. Pushed("array") = BuilderFrame("array", Top.id, Top.base, Top.count + 1, Top.child)
  BY <1>3, PushedTop
<1>5. CASE MessageTooLong
  BY <1>5, TooLongStep
<1>6. CASE /\ Commit(<<>>, <<>>, es, w) /\ temp' = Append(temp, n)
           /\ Become(<<Pushed("array")>>) /\ UNCHANGED <<result, used>>
  <2>1. result.at \in Ids
    BY <1>2 DEF IInv, ResultFits, Waiting, Top, Returned
  <2>2. es \in Seq(Diagnostics)
    <3>1. "mistyped_element" \in Messages
      BY DEF Messages
    <3> QED BY <1>1, <2>1, <3>1, ProblemFact
  <2>3. PICK h : h = Tables(nodes, locals, w.table)
    OBVIOUS
  <2>4. Settled(h) /\ WithEntry(types, Void, w)
    BY <1>1, <1>6, <2>2, <2>3, TypeAllocated, EntriesFact
  <2>5. w.index \in 1 .. Len(h.types) /\ h.types[w.index] = Void /\ Len(h.types) \in Nat
        /\ Len(types) <= Len(h.types)
    BY <2>3, <2>4 DEF WithEntry, Tables, TypesFit, Extends
  <2>6. <<>> \in Seq(Int)
    OBVIOUS
  <2>7. Sound(h, n)
    BY <1>1, <2>1, <2>5, <2>6, PlainNode DEF Returned
  <2>8. n.type = w.index
    BY <1>1 DEF Node
  <2>9. IsElement(h, n, Top.child)
    BY <2>5, <2>8 DEF IsElement, Void, Type
  <2>10. Top.child \in 0 .. Len(h.types)
    BY <1>3, <2>5, TablesFact
  <2>11. ASSUME NEW k \in Top.base + 1 .. Top.base + Top.count
         PROVE  IsElement(h, temp[k], Top.child)
    BY <1>2, <2>4, StackStays DEF ElementsFit
  <2> QED BY <1>2, <1>3, <1>4, <1>6, <2>4, <2>5, <2>7, <2>9, <2>10, <2>11, PushStep
<1> QED BY <1>2, <1>5, <1>6

\* What a builder has collected.
LEMMA BuiltFact ==
  ASSUME IInv, calls # <<>>, Top.at \in {"array", "block"}
  PROVE  /\ Built \in Seq(NodesOf(Now)) /\ Len(Built) = Top.count
         /\ \A i \in 1 .. Top.count : Built[i] = temp[Top.base + i] /\ Sound(Now, Built[i])
<1>1. PICK base \in Nat, count \in Nat : base = Top.base /\ count = Top.count
  BY BuilderTop
<1>2. base + count = Len(temp)
  BY <1>1, BuilderTop
<1>3. temp \in Seq(NodesOf(Now)) /\ \A k \in 1 .. Len(temp) : Sound(Now, temp[k])
  BY DEF IInv, ArenaFits
<1>4. Built = SubSeq(temp, base + 1, base + count)
  BY <1>1 DEF Built
<1>5. /\ SubSeq(temp, base + 1, base + count) \in Seq(NodesOf(Now))
      /\ Len(SubSeq(temp, base + 1, base + count)) = count
      /\ \A i \in 1 .. count : SubSeq(temp, base + 1, base + count)[i] = temp[base + i]
  <2>1. \A i \in base + 1 .. base + count : temp[i] \in NodesOf(Now)
    BY <1>2, <1>3
  <2>2. \A i \in 1 .. count : (base + 1) + i - 1 = base + i
    OBVIOUS
  <2>3. (base + count) - (base + 1) + 1 = count /\ (base + 1 <= base + count <=> count # 0)
    OBVIOUS
  <2> QED BY <2>1, <2>2, <2>3, SubSeqProperties
<1>6. ASSUME NEW i \in 1 .. count PROVE Sound(Now, temp[base + i])
  <2>1. base + i \in 1 .. Len(temp)
    BY <1>2
  <2> QED BY <1>3, <2>1
<1> QED BY <1>1, <1>4, <1>5, <1>6

\* A builder ends: what it has collected is no longer in the arena.
LEMMA ReturnBuiltStep ==
  ASSUME IInv, calls # <<>>, Top.at \in {"array", "block"}, NEW h, Settled(h),
         NEW kind, NEW type, NEW data, Return(kind, type, data),
         Sound(h, Node(kind, type, data, Top.id)), temp' = SubSeq(temp, 1, Top.base)
  PROVE  IInv'
<1>1. PICK base \in Nat, count \in Nat : base = Top.base /\ count = Top.count
  BY BuilderTop
<1>2. IsBuilder(Top) /\ Top.id \in Ids /\ base + count = Len(temp)
  BY <1>1, BuilderTop
<1>3. PICK t : t = Tail(calls)
  OBVIOUS
<1>4. ArenaFits(h, temp) /\ t \in Seq(FramesOf(h)) /\ Pending(h, t, temp, base)
  BY <1>1, <1>2, <1>3, StackStays
<1>5. PICK m : m = SubSeq(temp, 1, base)
  OBVIOUS
<1>6. m \in Seq(NodesOf(h)) /\ Len(m) = base /\ \A k \in 1 .. base : m[k] = temp[k]
  <2>1. temp \in Seq(NodesOf(h)) /\ base <= Len(temp)
    BY <1>2, <1>4 DEF ArenaFits
  <2>2. \A i \in 1 .. base : temp[i] \in NodesOf(h)
    BY <2>1
  <2>3. base - 1 + 1 = base /\ (1 <= base <=> base # 0) /\ \A i \in 1 .. base : 1 + i - 1 = i
    OBVIOUS
  <2> QED BY <1>5, <2>2, <2>3, SubSeqProperties
<1>7. ArenaFits(h, m)
  <2>1. ASSUME NEW k \in 1 .. Len(m) PROVE Sound(h, m[k])
    <3>1. k \in 1 .. Len(temp) /\ m[k] = temp[k]
      BY <1>2, <1>6
    <3> QED BY <1>4, <3>1 DEF ArenaFits
  <2> QED BY <1>6, <2>1 DEF ArenaFits
<1>8. Pending(h, t, m, Len(m))
  <2>1. Shaped(h)
    BY DEF Settled, TablesFit
  <2>2. Grows(h, h)
    BY <2>1, ExtendsItself DEF Grows, Shaped, TypesFit
  <2>3. \A k \in 1 .. base : k <= Len(temp) /\ m[k] = temp[k]
    BY <1>2, <1>6
  <2> QED BY <1>4, <1>6, <2>1, <2>2, <2>3, PendingStays
<1>9. PICK r : r = Node(kind, type, data, Top.id)
  OBVIOUS
<1>10. r.at = Top.id
  BY <1>9 DEF Node
<1>11. Returned(h, r)
  BY <1>2, <1>9, <1>10 DEF Returned
<1>12. ResultFits(h, t, r)
  BY <1>11 DEF ResultFits
<1>13. calls' = t /\ temp' = m /\ result' = r /\ used' = used
  BY <1>1, <1>3, <1>4, <1>5, <1>9, ConcatEmptySeq DEF Return, Become
<1> QED BY <1>7, <1>8, <1>12, <1>13, UsedStays, Continue

\* Where the nodes of a builder are allocated.
LEMMA FirstFact ==
  ASSUME IInv, calls # <<>>, Top.at \in {"array", "block"}
  PROVE  /\ <<FirstOfBuilt, Top.count>> \in Seq(Int)
         /\ \A i \in FirstOfBuilt .. FirstOfBuilt + Top.count - 1 :
              \E k \in 1 .. Top.count : i = Len(nodes) + k
<1>1. PICK count \in Nat, n \in Nat : count = Top.count /\ n = Len(nodes)
  BY BuilderTop, TablesFact
<1>2. FirstOfBuilt = IF count = 0 THEN 0 ELSE n + 1
  BY <1>1 DEF FirstOfBuilt, NoNode
<1>3. <<FirstOfBuilt, Top.count>> \in Seq(Int)
  BY <1>1, <1>2
<1>4. ASSUME NEW i \in FirstOfBuilt .. FirstOfBuilt + count - 1
      PROVE  \E k \in 1 .. count : i = n + k
  <2>1. i - n \in 1 .. count /\ i = n + (i - n)
    BY <1>2
  <2> QED BY <2>1
<1> QED BY <1>1, <1>3, <1>4

LEMMA EndBlockStep == ASSUME IInv, EndBlock PROVE IInv'
<1>1. PICK w, ns, es, data : /\ w = WithType(types, Void) /\ ns = Built /\ es = <<>>
                             /\ data = <<FirstOfBuilt, Top.count>>
  OBVIOUS
<1>2. /\ calls # <<>> /\ Top.at = "block" /\ temp' = SubSeq(temp, 1, Top.base)
      /\ Commit(ns, <<>>, es, w) /\ Return("block", w.index, data)
  BY <1>1 DEF EndBlock, At, ReturnVoid
<1>3. Top.id \in Ids /\ ns \in Seq(NodesOf(Now)) /\ data \in Seq(Int)
      /\ \A i \in 1 .. Len(ns) : Sound(Now, ns[i])
  BY <1>1, <1>2, BuilderTop, BuiltFact, FirstFact
<1>4. WithEntry(types, Void, w)
  BY <1>1, TablesFact, WithTypeFact, EntriesFact
<1>5. Extends(types, w.table) /\ TypesFit(w.table) /\ w.index \in 1 .. Len(w.table)
  BY <1>4 DEF WithEntry
<1>6. es \in Seq(Diagnostics)
  BY <1>1
<1>7. PICK h : h = Tables(nodes \o ns, locals, w.table)
  OBVIOUS
<1>8. Settled(h) /\ h.types = w.table
  <2>1. Commit(ns, <<>>, es, w) /\ Extends(types, w.table) /\ TypesFit(w.table)
    BY <1>2, <1>5
  <2>2. ns \in Seq(NodesOf(Now)) /\ \A i \in 1 .. Len(ns) : Sound(Now, ns[i])
    BY <1>3
  <2> QED BY <1>6, <1>7, <2>1, <2>2, NodesAllocated
<1>9. Sound(h, Node("block", w.index, data, Top.id))
  <2>1. PICK r : r = Node("block", w.index, data, Top.id)
    OBVIOUS
  <2>2. r.kind = "block" /\ r.data = data
    BY <2>1 DEF Node
  <2>3. Top.count \in Nat
    BY <1>2, BuilderTop
  <2>4. Len(data) = 2 /\ data[2] \in Nat
    BY <1>1, <2>3
  <2>5. HasOperands(r)
    BY <2>2, <2>4 DEF HasOperands, BinaryOperators
  <2> QED BY <1>3, <1>5, <1>8, <2>1, <2>5, PlainNode DEF Returned
<1> QED BY <1>2, <1>8, <1>9, ReturnBuiltStep

LEMMA EndArrayStep == ASSUME IInv, EndArray PROVE IInv'
<1>1. /\ calls # <<>> /\ Top.at = "array" /\ temp' = SubSeq(temp, 1, Top.base)
      /\ \E padding \in Paddings :
           LET t == WithType(types, Array(Top.child, Top.count, padding))
           IN  /\ Commit(Built, <<>>, <<>>, t)
               /\ Return("array_literal", t.index, <<FirstOfBuilt, Top.count>>)
  BY DEF EndArray, At
<1>2. PICK e, w, ns, es, data :
        /\ \E padding \in Paddings : e = Array(Top.child, Top.count, padding)
        /\ w = WithType(types, e) /\ ns = Built /\ es = <<>> /\ data = <<FirstOfBuilt, Top.count>>
        /\ Commit(ns, <<>>, es, w) /\ Return("array_literal", w.index, data)
  BY <1>1
<1>3. PICK child, count : child = Top.child /\ count = Top.count
  OBVIOUS
<1>4. /\ Top.id \in Ids /\ child \in 1 .. Len(types) /\ count \in Nat /\ Len(types) \in Nat
      /\ \A k \in Top.base + 1 .. Top.base + count : IsElement(Now, temp[k], child)
      /\ Top.base \in Nat
  BY <1>1, <1>3, BuilderTop, TablesFact
<1>5. /\ ns \in Seq(NodesOf(Now)) /\ Len(ns) = count
      /\ \A i \in 1 .. Len(ns) : Sound(Now, ns[i]) /\ ns[i] = temp[Top.base + i]
  BY <1>1, <1>2, <1>3, BuiltFact
<1>6. data \in Seq(Int) /\ data[2] = count /\ data[1] = FirstOfBuilt
      /\ \A i \in data[1] .. data[1] + data[2] - 1 : \E k \in 1 .. count : i = Len(nodes) + k
  BY <1>1, <1>2, <1>3, FirstFact
<1>7. /\ e \in TypeEntries /\ EntryFits(e, 1 .. Len(types))
      /\ e.kind = "array" /\ e.count = count /\ e.child = child
  <2>1. PICK padding \in Paddings : e = Array(child, count, padding)
    BY <1>2, <1>3
  <2>2. child \in Nat
    BY <1>4
  <2>3. e \in TypeEntries /\ EntryFits(e, 1 .. Len(types))
    BY <1>4, <2>1, <2>2, EntriesFact
  <2>4. e.kind = "array" /\ e.count = count /\ e.child = child
    BY <2>1 DEF Array, Type
  <2> QED BY <2>3, <2>4
<1>8. WithEntry(types, e, w)
  BY <1>2, <1>7, TablesFact, WithTypeFact
<1>9. /\ Extends(types, w.table) /\ TypesFit(w.table)
      /\ w.index \in 1 .. Len(w.table) /\ w.table[w.index] = e
  BY <1>8 DEF WithEntry
<1>10. es \in Seq(Diagnostics)
  BY <1>2
<1>11. PICK h : h = Tables(nodes \o ns, locals, w.table)
  OBVIOUS
<1>12. /\ Settled(h) /\ Shaped(h) /\ Grows(Now, h) /\ h.types = w.table
       /\ Len(h.nodes) = Len(nodes) + Len(ns)
       /\ \A i \in 1 .. Len(ns) : h.nodes[Len(nodes) + i] = ns[i]
  <2>1. Commit(ns, <<>>, es, w) /\ Extends(types, w.table) /\ TypesFit(w.table)
    BY <1>2, <1>9
  <2>2. ns \in Seq(NodesOf(Now)) /\ \A i \in 1 .. Len(ns) : Sound(Now, ns[i])
    BY <1>5
  <2>3. Settled(h) /\ GrownBy(ns, h) /\ h.types = w.table
    BY <1>10, <1>11, <2>1, <2>2, NodesAllocated
  <2> QED BY <2>3 DEF GrownBy
<1>13. ASSUME NEW i \in data[1] .. data[1] + data[2] - 1
       PROVE  i \in 1 .. Len(h.nodes) /\ IsElement(h, h.nodes[i], child)
  <2>1. PICK k \in 1 .. count : i = Len(nodes) + k
    BY <1>6
  <2>2. h.nodes[i] = ns[k] /\ ns[k] = temp[Top.base + k] /\ ns[k] \in NodesOf(Now)
    BY <1>5, <1>12, <2>1 DEF Sound
  <2>3. Top.base + k \in Top.base + 1 .. Top.base + count
    BY <1>4, <2>1
  <2>4. IsElement(Now, ns[k], child)
    BY <1>4, <2>2, <2>3
  <2>5. IsElement(h, ns[k], child)
    BY <1>12, <2>2, <2>4, ElementStays, TablesFact
  <2>6. i \in 1 .. Len(nodes) + count
    BY <1>4, <2>1, TablesFact
  <2> QED BY <1>5, <1>12, <2>2, <2>5, <2>6
<1>14. PICK n : n = Node("array_literal", w.index, data, Top.id)
  OBVIOUS
<1>15. "array_literal" \in NodeKinds /\ Top.id \in Spans
  BY <1>4 DEF NodeKinds, Spans
<1>16. /\ n \in NodesOf(h) /\ n.kind = "array_literal" /\ n.type = w.index /\ n.data = data
  BY <1>6, <1>9, <1>12, <1>14, <1>15 DEF Node, NodesOf
<1>17. Refers(h, n)
  BY <1>13, <1>16 DEF Refers, BinaryOperators
<1>18. Typed(h, n)
  BY <1>6, <1>7, <1>9, <1>12, <1>13, <1>16 DEF Typed, BinaryOperators
<1>19. Sound(h, Node("array_literal", w.index, data, Top.id))
  <2>1. Len(data) = 2 /\ data[2] \in Nat
    BY <1>2, <1>4, <1>6
  <2>2. HasOperands(n)
    BY <1>16, <2>1 DEF HasOperands, BinaryOperators
  <2> QED BY <1>14, <1>16, <1>17, <1>18, <2>2 DEF Sound
<1> QED BY <1>1, <1>2, <1>12, <1>19, ReturnBuiltStep
------------------------------------------------------------------------------
(* Statements.                                                             *)

LEMMA BeginControlFlowStep == ASSUME IInv, BeginControlFlow PROVE IInv'
<1>1. PICK w, es : w = WithType(types, Void) /\ es = <<>>
  OBVIOUS
<1>2. /\ Lowering(ControlFlow) /\ Commit(<<>>, <<>>, es, w)
      /\ Call(LowerOperands(Top.id, <<>>))
  BY <1>1 DEF BeginControlFlow, ControlFlow
<1>3. calls # <<>> /\ ~IsBuilder(Top) /\ Top.id \in Ids /\ Kind(Top.id) \in ControlFlow
  BY <1>2, LoweringFact
<1>4. Kind(Top.id) \in WithOperands
  BY <1>3 DEF WithOperands
<1>5. es \in Seq(Diagnostics)
  BY <1>1
<1>6. PICK h : h = Tables(nodes, locals, w.table)
  OBVIOUS
<1>7. Settled(h) /\ WithEntry(types, Void, w)
  BY <1>1, <1>2, <1>5, <1>6, TypeAllocated, EntriesFact
<1>8. HasVoid(h)
  BY <1>6, <1>7 DEF HasVoid, WithEntry, Tables
<1> QED BY <1>2, <1>3, <1>4, <1>7, <1>8, NothingDone, LowerOperandsStep DEF IInv

LEMMA FinishControlFlowStep == ASSUME IInv, FinishControlFlow PROVE IInv'
<1>1. PICK k, w, data :
        /\ k = Kind(Top.id) /\ w = WithType(types, Void)
        /\ data = IF k = "if" /\ Len(Top.done) = 2 THEN Append(Top.done, NoNode) ELSE Top.done
  OBVIOUS
<1>2. Finishing(ControlFlow) /\ Stay /\ Return(k, w.index, data) /\ temp' = temp
  BY <1>1 DEF FinishControlFlow, ControlFlow
<1>3. /\ calls # <<>> /\ ~IsBuilder(Top) /\ Top.id \in Ids /\ k \in ControlFlow
      /\ Top.done \in Seq(Int) /\ HasVoid(Now)
  BY <1>1, <1>2, FinishingFact
<1>4. WithEntry(types, Void, w)
  BY <1>1, TablesFact, WithTypeFact, EntriesFact
<1>5. w.index \in 1 .. Len(Now.types)
  BY <1>3, <1>4, TablesFact DEF HasVoid, WithEntry
<1>6. data \in Seq(Int)
  BY <1>1, <1>3 DEF NoNode
<1>7. k \in {"missing", "int_literal", "return", "if", "while", "block"}
  BY <1>3 DEF ControlFlow
<1>8. Sound(Now, Node(k, w.index, data, Top.id))
  <2>1. PICK r : r = Node(k, w.index, data, Top.id)
    OBVIOUS
  <2>2. r.kind = k /\ r.data = data
    BY <2>1 DEF Node
  <2>3. PICK done \in Seq(Int) : done = Top.done
    BY <1>3
  <2>4. /\ data = IF k = "if" /\ Len(done) = 2 THEN Append(done, NoNode) ELSE done
        /\ k = "while" => Len(done) = 2
        /\ k = "return" => Len(done) = 1
        /\ k = "if" => Len(done) \in {2, 3}
        /\ \A i \in 1 .. Len(done) : done[i] \in Nat \ {0}
    BY <1>1, <1>2, <2>3, FinishingFact
  <2>5. /\ k = "while" => Len(data) = 2 /\ data[1] # NoNode /\ data[2] # NoNode
        /\ k = "return" => Len(data) = 1 /\ data[1] # NoNode
        /\ k = "if" => Len(data) = 3 /\ data[1] # NoNode /\ data[2] # NoNode
    BY <2>4 DEF NoNode
  <2>6. HasOperands(r)
    BY <1>3, <2>2, <2>5 DEF HasOperands, BinaryOperators, ControlFlow
  <2> QED BY <1>3, <1>5, <1>6, <1>7, <2>1, <2>6, PlainNode DEF Returned
<1> QED BY <1>2, <1>3, <1>8, StayFact, ReturnNode

LEMMA ShadowingDefinitionStep == ASSUME IInv, ShadowingDefinition PROVE IInv'
<1>1. Lowering({"local_definition"}) /\ ReturnMissing(Problem("cannot_shadow", Top.id))
  BY DEF ShadowingDefinition
<1>2. calls # <<>> /\ ~IsBuilder(Top) /\ Top.id \in Ids
  BY <1>1, LoweringFact
<1>3. Problem("cannot_shadow", Top.id) \in Seq(Diagnostics)
  <2>1. "cannot_shadow" \in Messages
    BY DEF Messages
  <2> QED BY <1>2, <2>1, ProblemFact
<1> QED BY <1>1, <1>2, <1>3, MissingStep

LEMMA BeginDefinitionStep == ASSUME IInv, BeginDefinition PROVE IInv'
<1>1. Lowering({"local_definition"}) /\ Stay /\ Call(LowerOperands(Top.id, <<>>))
  BY DEF BeginDefinition
<1>2. /\ calls # <<>> /\ ~IsBuilder(Top) /\ Top.id \in Ids
      /\ Kind(Top.id) = "local_definition"
  BY <1>1, LoweringFact
<1>3. Kind(Top.id) \in WithOperands /\ Kind(Top.id) \notin ControlFlow
  BY <1>2 DEF WithOperands, ControlFlow
<1> QED BY <1>1, <1>2, <1>3, StayFact, NothingDone, LowerOperandsStep DEF IInv

LEMMA OneMore ==
  ASSUME NEW S, NEW T, NEW s \in Seq(S), NEW t \in Seq(T), Len(t) = 1
  PROVE  /\ Len(s \o t) = Len(s) + 1 /\ (s \o t)[Len(s) + 1] = t[1]
         /\ \A i \in 1 .. Len(s) : (s \o t)[i] = s[i]
<1>1. s \in Seq(S \cup T) /\ t \in Seq(S \cup T)
  OBVIOUS
<1> QED BY <1>1, ConcatProperties

\* The new local has the type of its value, and so does the node for it.
LEMMA FinishDefinitionStep == ASSUME IInv, FinishDefinition PROVE IInv'
<1>1. PICK a, local : /\ a = Operand(1)
                      /\ local = [name |-> Data(Top.id)[1], type |-> a.type, at |-> Top.id]
  OBVIOUS
<1>2. PICK w, n, m : w = WithType(types, Void) /\ n = Len(nodes) /\ m = Len(locals)
  OBVIOUS
<1>3. PICK lhs : lhs = Node("variable", a.type, <<m + 1>>, <<>>)
  OBVIOUS
<1>4. PICK ns, ls, es, data : ns = <<lhs>> /\ ls = <<local>> /\ es = <<>>
                              /\ data = <<n + 1, Top.done[1]>>
  OBVIOUS
<1>5. /\ Finishing({"local_definition"}) /\ Commit(ns, ls, es, w)
      /\ Return("assign", w.index, data) /\ temp' = temp
  BY <1>1, <1>2, <1>3, <1>4 DEF FinishDefinition
<1>6. /\ calls # <<>> /\ ~IsBuilder(Top) /\ Top.id \in Ids /\ Kind(Top.id) = "local_definition"
      /\ a.type \in 1 .. Len(types) /\ Top.done[1] \in 1 .. n
  BY <1>1, <1>2, <1>5, FinishingFact
<1>7. a = nodes[Top.done[1]] /\ n \in Nat /\ m \in Nat
  BY <1>1, <1>2, TablesFact DEF Operand
<1>8. WithEntry(types, Void, w)
  BY <1>2, TablesFact, WithTypeFact, EntriesFact
<1>9. /\ Extends(types, w.table) /\ TypesFit(w.table) /\ w.index \in 1 .. Len(w.table)
      /\ a.type \in 1 .. Len(w.table)
  BY <1>6, <1>8, TablesFact DEF WithEntry, Extends, TypesFit
<1>10. PICK h : h = Tables(nodes \o ns, locals \o ls, w.table)
  OBVIOUS
<1>11. h.nodes = nodes \o ns /\ h.locals = locals \o ls /\ h.types = w.table
  BY <1>10 DEF Tables
<1>12. lhs \in NodesOf(h) /\ lhs.kind = "variable" /\ lhs.type = a.type /\ lhs.data = <<m + 1>>
  <2>1. "variable" \in NodeKinds /\ <<>> \in Spans /\ <<m + 1>> \in Seq(Int)
    BY <1>7 DEF NodeKinds, Spans
  <2> QED BY <1>3, <1>9, <1>11, <2>1 DEF Node, NodesOf
<1>13. local \in LocalsOf(h) /\ local.type = a.type
  <2>1. Data(Top.id)[1] \in Names
    BY <1>6 DEF Names
  <2> QED BY <1>1, <1>6, <1>9, <1>11, <2>1 DEF LocalsOf
<1>14. /\ ns \in Seq(NodesOf(h)) /\ Len(ns) = 1 /\ ns[1] = lhs
       /\ ls \in Seq(LocalsOf(h)) /\ Len(ls) = 1 /\ ls[1] = local
  BY <1>4, <1>12, <1>13
<1>15. /\ Len(h.locals) = m + 1 /\ h.locals[m + 1] = local
       /\ Len(h.nodes) = n + 1 /\ h.nodes[n + 1] = lhs
       /\ \A i \in 1 .. n : h.nodes[i] = nodes[i]
  <2>1. nodes \in Seq(NodesOf(Now)) /\ locals \in Seq(LocalsOf(Now))
    BY TablesFact
  <2>2. /\ Len(nodes \o ns) = n + 1 /\ (nodes \o ns)[n + 1] = lhs
        /\ \A i \in 1 .. n : (nodes \o ns)[i] = nodes[i]
    BY <1>2, <1>14, <2>1, OneMore
  <2>3. Len(locals \o ls) = m + 1 /\ (locals \o ls)[m + 1] = local
    BY <1>2, <1>14, <2>1, OneMore
  <2> QED BY <1>11, <2>2, <2>3
<1>16. Sound(h, lhs)
  <2>1. Refers(h, lhs)
    BY <1>7, <1>12, <1>15 DEF Refers, BinaryOperators
  <2>2. Typed(h, lhs)
    BY <1>7, <1>12, <1>13, <1>15 DEF Typed, BinaryOperators
  <2>3. HasOperands(lhs)
    BY <1>12 DEF HasOperands, BinaryOperators
  <2> QED BY <1>12, <2>1, <2>2, <2>3 DEF Sound
<1>17. \A i \in 1 .. Len(ns) : Sound(h, ns[i])
  BY <1>14, <1>16
<1>18. TablesFit(h) /\ Grows(Now, h)
  BY <1>9, <1>10, <1>14, <1>17, TablesGrown
<1>19. es \in Seq(Diagnostics)
  BY <1>4
<1>20. Settled(h)
  BY <1>5, <1>10, <1>18, <1>19, CommitFact
<1>21. PICK r : r = Node("assign", w.index, data, Top.id)
  OBVIOUS
<1>22. data \in Seq(Int) /\ data[1] = n + 1 /\ data[2] = Top.done[1]
  BY <1>4, <1>6, <1>7
<1>23. r \in NodesOf(h) /\ r.kind = "assign" /\ r.type = w.index /\ r.data = data
  <2>1. "assign" \in NodeKinds /\ Top.id \in Spans
    BY <1>6 DEF NodeKinds, Spans
  <2> QED BY <1>9, <1>11, <1>21, <1>22, <2>1 DEF Node, NodesOf
<1>24. Refers(h, r)
  BY <1>6, <1>7, <1>15, <1>22, <1>23 DEF Refers, BinaryOperators
<1>25. Typed(h, r)
  BY <1>6, <1>7, <1>12, <1>15, <1>22, <1>23 DEF Typed, BinaryOperators
<1>26. Sound(h, Node("assign", w.index, data, Top.id))
  <2>1. Len(data) = 2
    BY <1>4
  <2>2. HasOperands(r)
    BY <1>23, <2>1 DEF HasOperands, BinaryOperators
  <2> QED BY <1>21, <1>23, <1>24, <1>25, <2>2 DEF Sound
<1> QED BY <1>5, <1>6, <1>20, <1>26, ReturnNode

LEMMA BeginAssignStep == ASSUME IInv, BeginAssign PROVE IInv'
<1>1. PICK id, f : /\ id = Expression(Data(Top.id)[1])
                   /\ f = [at |-> "assign_lhs", id |-> Top.id]
  OBVIOUS
<1>2. Lowering({"assign"}) /\ Stay /\ Call(LowerCall(id, FALSE) \o <<f>>)
  BY <1>1 DEF BeginAssign
<1>3. /\ calls # <<>> /\ ~IsBuilder(Top) /\ Top.id \in Ids /\ Kind(Top.id) = "assign"
      /\ NodeFits(Top.id)
  BY <1>2, LoweringFact
<1>4. id \in Ids
  BY <1>1, <1>3, IdFact DEF NodeFits
<1>5. FrameFits(Now, f) /\ f.at = "assign_lhs" /\ ~IsBuilder(f)
  BY <1>1, <1>3, AssignFits
<1>6. Settled(Now)
  BY <1>2, StayFact
<1>7. Pending(Now, Tail(calls), temp, Len(temp)) /\ Len(temp) \in Nat
  BY <1>3, <1>6, StackStays, TablesFact
<1>8. Pending(Now, <<f>> \o Tail(calls), temp, Len(temp))
  BY <1>5, <1>7, PendingPlain
<1> QED BY <1>2, <1>3, <1>4, <1>5, <1>6, <1>8, CallStep

LEMMA AssignFact ==
  ASSUME IInv, calls # <<>>, Top.at \in {"assign_lhs", "assign_rhs"}
  PROVE  /\ ~IsBuilder(Top) /\ Top.id \in Ids /\ Kind(Top.id) = "assign" /\ NodeFits(Top.id)
         /\ Returned(Now, result)
         /\ Top.at = "assign_rhs" => Sound(Now, Top.lhs)
<1>1. Top.id \in Ids /\ ~IsBuilder(Top) /\ FrameFits(Now, Top)
  BY TopFact
<1>2. Returned(Now, result)
  BY DEF IInv, ResultFits, Waiting, Top
<1> QED BY <1>1, <1>2, NodeFact DEF FrameFits, IInv

LEMMA BeginAssignedValueStep == ASSUME IInv, BeginAssignedValue PROVE IInv'
<1>1. PICK id, f : /\ id = Expression(Data(Top.id)[2])
                   /\ f = [at |-> "assign_rhs", id |-> Top.id, lhs |-> result]
  OBVIOUS
<1>2. /\ calls # <<>> /\ Top.at = "assign_lhs" /\ Stay
      /\ Call(LowerCall(id, TRUE) \o <<f>>)
  BY <1>1 DEF BeginAssignedValue, At
<1>3. /\ ~IsBuilder(Top) /\ Top.id \in Ids /\ Kind(Top.id) = "assign"
      /\ NodeFits(Top.id) /\ Returned(Now, result)
  BY <1>2, AssignFact
<1>4. id \in Ids
  BY <1>1, <1>3, IdFact DEF NodeFits
<1>5. FrameFits(Now, f) /\ f.at = "assign_rhs" /\ ~IsBuilder(f)
  BY <1>1, <1>3, AssignFits DEF Returned
<1>6. Settled(Now)
  BY <1>2, StayFact
<1>7. Pending(Now, Tail(calls), temp, Len(temp)) /\ Len(temp) \in Nat
  BY <1>2, <1>3, <1>6, StackStays, TablesFact
<1>8. Pending(Now, <<f>> \o Tail(calls), temp, Len(temp))
  BY <1>5, <1>7, PendingPlain
<1> QED BY <1>2, <1>4, <1>5, <1>6, <1>8, CallStep

LEMMA FinishAssignStep == ASSUME IInv, FinishAssign PROVE IInv'
<1>1. PICK w, n, lhs, rhs : /\ w = WithType(types, Void) /\ n = Len(nodes)
                            /\ lhs = Top.lhs /\ rhs = result
  OBVIOUS
<1>2. PICK ns, es, data : ns = <<lhs, rhs>> /\ es = <<>> /\ data = <<n + 1, n + 2>>
  OBVIOUS
<1>3. /\ calls # <<>> /\ Top.at = "assign_rhs" /\ lhs.type = rhs.type
      /\ Commit(ns, <<>>, es, w) /\ Return("assign", w.index, data) /\ temp' = temp
  BY <1>1, <1>2 DEF FinishAssign, At, ReturnVoid
<1>4. ~IsBuilder(Top) /\ Top.id \in Ids /\ Sound(Now, lhs) /\ Sound(Now, rhs) /\ n \in Nat
  BY <1>1, <1>3, AssignFact, TablesFact DEF Returned
<1>5. /\ ns \in Seq(NodesOf(Now)) /\ Len(ns) = 2 /\ ns[1] = lhs /\ ns[2] = rhs
  BY <1>2, <1>4 DEF Sound
<1>6. \A i \in 1 .. Len(ns) : Sound(Now, ns[i])
  BY <1>4, <1>5
<1>7. WithEntry(types, Void, w)
  BY <1>1, TablesFact, WithTypeFact, EntriesFact
<1>8. Extends(types, w.table) /\ TypesFit(w.table) /\ w.index \in 1 .. Len(w.table)
  BY <1>7 DEF WithEntry
<1>9. es \in Seq(Diagnostics)
  BY <1>2
<1>10. PICK h : h = Tables(nodes \o ns, locals, w.table)
  OBVIOUS
<1>11. Settled(h) /\ GrownBy(ns, h) /\ h.types = w.table
  <2>1. Commit(ns, <<>>, es, w)
    BY <1>3
  <2> QED BY <1>5, <1>6, <1>8, <1>9, <1>10, <2>1, NodesAllocated
<1>12. Len(h.nodes) = n + 2 /\ h.nodes[n + 1] = lhs /\ h.nodes[n + 2] = rhs
  BY <1>1, <1>5, <1>11 DEF GrownBy
<1>13. PICK r : r = Node("assign", w.index, data, Top.id)
  OBVIOUS
<1>14. data \in Seq(Int) /\ data[1] = n + 1 /\ data[2] = n + 2
  BY <1>2, <1>4
<1>15. r \in NodesOf(h) /\ r.kind = "assign" /\ r.type = w.index /\ r.data = data
  <2>1. "assign" \in NodeKinds /\ Top.id \in Spans
    BY <1>4 DEF NodeKinds, Spans
  <2> QED BY <1>8, <1>11, <1>13, <1>14, <2>1 DEF Node, NodesOf
<1>16. Refers(h, r)
  BY <1>4, <1>12, <1>14, <1>15 DEF Refers, BinaryOperators
<1>17. Typed(h, r)
  BY <1>3, <1>12, <1>14, <1>15 DEF Typed, BinaryOperators
<1>18. Sound(h, Node("assign", w.index, data, Top.id))
  <2>1. Len(data) = 2
    BY <1>2
  <2>2. HasOperands(r)
    BY <1>15, <2>1 DEF HasOperands, BinaryOperators
  <2> QED BY <1>13, <1>15, <1>16, <1>17, <2>2 DEF Sound
<1> QED BY <1>3, <1>4, <1>11, <1>18, ReturnNode

LEMMA MismatchedAssignStep == ASSUME IInv, MismatchedAssign PROVE IInv'
<1>1. PICK at, shown : at = result.at /\ shown = ShownBytes[Top.lhs.type] + ShownBytes[result.type]
  OBVIOUS
<1>2. /\ calls # <<>> /\ Top.at = "assign_rhs"
      /\ ReturnMistyped("mismatched_assignment", at, 32, shown)
  BY <1>1 DEF MismatchedAssign, At
<1>3. ~IsBuilder(Top) /\ Top.id \in Ids /\ at \in Ids
  BY <1>1, <1>2, AssignFact DEF Returned
<1>4. "mismatched_assignment" \in Messages
  BY DEF Messages
<1> QED BY <1>2, <1>3, <1>4, MistypedStep
------------------------------------------------------------------------------
(* lower()                                                                 *)

LEMMA SkipFunctionStep == ASSUME IInv, SkipFunction PROVE IInv'
<1>1. /\ calls = <<>> /\ next <= Len(ast.functions) /\ next' = next + 1
      /\ UNCHANGED <<ast, calls, result, temp, start, hir, used, diagnostics, status>>
  BY DEF SkipFunction, Idle
<1>2. next' \in 1 .. Len(ast.functions) + 1
  BY <1>1, FunctionsOfAst DEF IInv
<1>3. diagnostics' \in Seq(Diagnostics) /\ status' \in Statuses
  BY <1>1 DEF IInv
<1> QED BY <1>1, <1>2, <1>3, Rest

LEMMA BeginFunctionStep == ASSUME IInv, BeginFunction PROVE IInv'
<1>1. PICK id, f, k : /\ id = Statement(ast.functions[next].body)
                      /\ f = [at |-> "lower", id |-> id, reads |-> TRUE]
                      /\ k = [at |-> "function"]
  OBVIOUS
<1>2. /\ calls = <<>> /\ next <= Len(ast.functions) /\ start' = Len(locals)
      /\ calls' = <<f>> \o <<k>>
      /\ ast' = ast /\ result' = result /\ temp' = temp /\ next' = next /\ hir' = hir
      /\ used' = used /\ diagnostics' = diagnostics /\ status' = status
  BY <1>1 DEF BeginFunction, Idle, LowerCall
<1>3. id \in Ids
  BY <1>1, <1>2, FunctionsOfAst DEF IInv
<1>4. PICK h, m, r : h = Now /\ m = temp /\ r = result
  OBVIOUS
<1>5. Now' = h /\ locals' = locals /\ nodes' = nodes /\ functions' = functions
  BY <1>2, <1>4 DEF hir, Now
<1>6. FrameFits(h, f) /\ f.at = "lower" /\ ~IsBuilder(f)
  BY <1>1, <1>3, LowerFits
<1>7. FrameFits(h, k) /\ k.at = "function" /\ ~IsBuilder(k) /\ ElementsFit(h, k, m)
  <2>1. k.at = "function"
    BY <1>1
  <2>2. k \in [at : {"function"}]
    BY <1>1
  <2>3. k \in FramesOf(h)
    BY <2>2 DEF FramesOf
  <2> QED BY <2>1, <2>3 DEF FrameFits, IsBuilder, ElementsFit
<1>8. TablesFit(h) /\ ArenaFits(h, m) /\ Len(m) \in Nat
  BY <1>4, TablesFact DEF IInv
<1>9. Len(m) = 0
  <2>1. Fill(calls, Len(temp))
    BY DEF IInv, Pending
  <2> QED BY <1>2, <1>4, <2>1, FillEmpty
<1>10. PICK t : t = <<k>>
  OBVIOUS
<1>11. Len(t) = 1 /\ t[1] = k /\ t \in Seq(FramesOf(h)) /\ t = <<k>> \o <<>>
  BY <1>7, <1>10 DEF FrameFits
<1>12. Pending(h, t, m, 0)
  <2>1. Fill(t, 0 + 0)
    <3>1. <<>> \in Seq(FramesOf(h)) /\ k \in FramesOf(h)
      BY <1>7 DEF FrameFits
    <3>2. Fill(<<k>> \o <<>>, 0 + 0)
      BY <1>7, <3>1, FillEmpty, FillAbove
    <3> QED BY <1>11, <3>2
  <2>2. Fill(t, 0)
    BY <2>1
  <2>3. \A i \in 1 .. Len(t) : i = 1
    BY <1>11
  <2> QED BY <1>7, <1>11, <2>2, <2>3 DEF Pending
<1>13. PICK s : s = <<f>> \o t
  OBVIOUS
<1>14. Pending(h, s, m, Len(m))
  BY <1>6, <1>9, <1>12, <1>13, PendingPlain
<1>15. s[1] = f
  BY <1>6, <1>11, <1>13 DEF FrameFits
<1>16. ResultFits(h, s, r)
  BY <1>4, <1>6, <1>15 DEF IInv, ResultFits, Waiting
<1>17. TablesFit(h)' /\ ArenaFits(h, m)' /\ Pending(h, s, m, Len(m))' /\ ResultFits(h, s, r)'
       /\ Diagnostics' = Diagnostics
  BY <1>2, <1>8, <1>14, <1>16, SameAst
<1>18. calls' = s
  BY <1>2, <1>10, <1>13
<1>19. /\ TablesFit(Now)' /\ ArenaFits(Now, temp)' /\ Pending(Now, calls, temp, Len(temp))'
       /\ ResultFits(Now, calls, result)'
  BY <1>2, <1>4, <1>5, <1>17, <1>18
<1>20. FunctionsFit'
  BY <1>5 DEF IInv, FunctionsFit, IsSequence
<1>21. start' \in 0 .. Len(locals')
  BY <1>2, <1>5, TablesFact
<1> QED BY <1>2, <1>5, <1>17, <1>19, <1>20, <1>21 DEF IInv

\* A sequence of whatever it holds.
LEMMA SequenceFact ==
  ASSUME NEW s, IsSequence(s), NEW e
  PROVE  /\ IsSequence(Append(s, e)) /\ DOMAIN s = 1 .. Len(s) /\ Len(s) \in Nat
         /\ DOMAIN Append(s, e) = 1 .. Len(s) + 1 /\ Append(s, e)[Len(s) + 1] = e
         /\ \A i \in 1 .. Len(s) : Append(s, e)[i] = s[i]
<1>1. PICK S : S = {s[i] : i \in DOMAIN s} \cup {e}
  OBVIOUS
<1>2. s \in Seq(S) /\ e \in S
  <2>1. s \in Seq({s[i] : i \in DOMAIN s})
    BY DEF IsSequence
  <2>2. {s[i] : i \in DOMAIN s} \subseteq S
    BY <1>1
  <2>3. \A U, V : U \subseteq V => Seq(U) \subseteq Seq(V)
    OBVIOUS
  <2> QED BY <1>1, <2>1, <2>2, <2>3
<1>3. PICK t \in Seq(S) : t = Append(s, e)
  <2>1. Append(s, e) \in Seq(S)
    BY <1>2
  <2> QED BY <2>1
<1>4. /\ DOMAIN s = 1 .. Len(s) /\ Len(s) \in Nat
      /\ DOMAIN t = 1 .. Len(s) + 1 /\ t[Len(s) + 1] = e /\ Len(t) = Len(s) + 1
      /\ \A i \in 1 .. Len(s) : t[i] = s[i]
  BY <1>2, <1>3
<1>5. t \in Seq({t[i] : i \in DOMAIN t})
  <2>1. t \in [1 .. Len(t) -> {t[i] : i \in DOMAIN t}] /\ Len(t) \in Nat
    BY <1>4
  <2> QED BY <2>1
<1> QED BY <1>3, <1>4, <1>5 DEF IsSequence

LEMMA EndFunctionStep == ASSUME IInv, EndFunction PROVE IInv'
<1>1. PICK n, m, f : /\ n = Len(nodes) /\ m = Len(locals)
                     /\ f = [name |-> ast.functions[next].name, body |-> n + 1,
                             locals_start |-> start, locals_count |-> m - start]
  OBVIOUS
<1>2. /\ calls # <<>> /\ Top.at = "function" /\ nodes' = Append(nodes, result)
      /\ functions' = Append(functions, f) /\ next' = next + 1 /\ calls' = <<>> \o Tail(calls)
      /\ status' \in Statuses
      /\ UNCHANGED <<ast, result, temp, start, locals, types, used, diagnostics>>
  BY <1>1 DEF EndFunction, At, Become, Statuses
<1>3. /\ n \in Nat /\ m \in Nat /\ nodes \in Seq(NodesOf(Now)) /\ Len(temp) \in Nat
      /\ Shaped(Now)
  BY <1>1, TablesFact
<1>4. Returned(Now, result)
  BY <1>2 DEF IInv, ResultFits, Waiting, Top
<1>5. PICK ns \in Seq(NodesOf(Now)) : ns = <<result>> /\ Len(ns) = 1 /\ ns[1] = result
  <2>1. result \in NodesOf(Now)
    BY <1>4 DEF Returned, Sound
  <2>2. <<result>> \in Seq(NodesOf(Now)) /\ Len(<<result>>) = 1 /\ <<result>>[1] = result
    BY <2>1
  <2> QED BY <2>2
<1>6. \A i \in 1 .. Len(ns) : Sound(Now, ns[i])
  BY <1>4, <1>5 DEF Returned
<1>7. PICK h : h = Tables(nodes \o ns, locals, types)
  OBVIOUS
<1>8. GrownBy(ns, h) /\ h.types = types
  <2>1. Extends(types, types) /\ TypesFit(types)
    BY TablesFact, ExtendsItself
  <2> QED BY <1>6, <1>7, <2>1, NodesGrown
<1>9. Append(nodes, result) = nodes \o ns
  BY <1>3, <1>4, <1>5, AppendIsConcat DEF Returned, Sound
<1>10. Now' = h /\ h.nodes = nodes'
  BY <1>2, <1>7, <1>9 DEF Now, Tables
<1>11. PICK a, r : a = temp /\ r = result
  OBVIOUS
<1>12. calls' = <<>> /\ Pending(Now, <<>>, a, Len(a))
  <2>1. ~IsBuilder(Top)
    BY <1>2, TopFact
  <2>2. Tail(calls) = <<>> /\ Pending(Now, Tail(calls), a, Len(a))
    BY <1>2, <1>3, <1>11, <2>1, PendingBelow DEF IInv, Top
  <2>3. <<>> \o <<>> = <<>>
    OBVIOUS
  <2> QED BY <1>2, <2>2, <2>3
<1>13. TablesFit(h) /\ Shaped(h) /\ Grows(Now, h)
  BY <1>8 DEF GrownBy
<1>14. ArenaFits(h, a)
  BY <1>3, <1>11, <1>13, ArenaStays DEF IInv
<1>15. Pending(h, <<>>, a, Len(a))
  <2>1. ArenaFits(Now, a) /\ Len(a) \in Nat /\ \A k \in 1 .. Len(a) : k <= Len(a) /\ a[k] = a[k]
    BY <1>3, <1>11 DEF IInv
  <2> QED BY <1>3, <1>12, <1>13, <2>1, PendingStays
<1>16. ResultFits(h, <<>>, r)
  BY <1>3, <1>4, <1>11, <1>13, SoundStays DEF ResultFits, Returned
<1>17. TablesFit(h)' /\ ArenaFits(h, a)' /\ Pending(h, <<>>, a, Len(a))' /\ ResultFits(h, <<>>, r)'
       /\ Diagnostics' = Diagnostics
  BY <1>2, <1>13, <1>14, <1>15, <1>16, SameAst
<1>18. /\ TablesFit(Now)' /\ ArenaFits(Now, temp)' /\ Pending(Now, calls, temp, Len(temp))'
       /\ ResultFits(Now, calls, result)'
  BY <1>2, <1>10, <1>11, <1>12, <1>17
<1>19. FunctionsFit'
  <2>1. IsSequence(functions)
    BY DEF IInv, FunctionsFit
  <2>2. PICK k, fs : k \in Nat /\ k = Len(functions) /\ fs = Append(functions, f)
    BY <2>1, SequenceFact
  <2>3. /\ IsSequence(fs) /\ DOMAIN fs = 1 .. k + 1 /\ fs[k + 1] = f
        /\ DOMAIN functions = 1 .. k /\ \A i \in 1 .. k : fs[i] = functions[i]
    BY <2>1, <2>2, SequenceFact
  <2>4. DOMAIN nodes = 1 .. n /\ DOMAIN nodes' = 1 .. n + 1
    BY <1>1, <1>3, <1>5, <1>8, <1>10 DEF GrownBy, Shaped
  <2>5. ASSUME NEW i \in 1 .. k + 1
        PROVE  /\ fs[i].body \in 1 .. n + 1
               /\ fs[i].locals_start \in Nat /\ fs[i].locals_count \in Nat
               /\ fs[i].locals_start + fs[i].locals_count \in 0 .. m
    <3>1. CASE i = k + 1
      <4>1. f.body = n + 1 /\ f.locals_start = start /\ f.locals_count = m - start
        BY <1>1
      <4>2. start \in 0 .. m
        BY <1>1 DEF IInv
      <4> QED BY <1>3, <2>3, <3>1, <4>1, <4>2
    <3>2. CASE i # k + 1
      <4>1. i \in 1 .. k /\ fs[i] = functions[i]
        BY <2>2, <2>3, <3>2
      <4>2. /\ functions[i].body \in 1 .. n
            /\ functions[i].locals_start \in Nat /\ functions[i].locals_count \in Nat
            /\ functions[i].locals_start + functions[i].locals_count \in 0 .. m
        BY <1>1, <2>3, <2>4, <4>1 DEF IInv, FunctionsFit
      <4> QED BY <1>3, <4>1, <4>2
    <3> QED BY <3>1, <3>2
  <2>6. functions' = fs /\ Len(locals)' = m
    BY <1>1, <1>2, <2>2
  <2> QED BY <2>3, <2>4, <2>5, <2>6 DEF FunctionsFit
<1>20. next' \in 1 .. Len(ast.functions) + 1
  BY <1>2, FunctionsOfAst DEF IInv
<1> QED BY <1>2, <1>12, <1>17, <1>18, <1>19, <1>20 DEF IInv

\* What UnusedUpTo is defined to be, for the locals up to n.
IsUnused(f, n) ==
  f = [l \in 0 .. n |-> IF l = 0 THEN <<>>
                        ELSE IF l \in used THEN f[l - 1] ELSE Append(f[l - 1], l)]

LEMMA UnusedExists ==
  ASSUME NEW n \in Nat
  PROVE  \E f : IsUnused(f, n)
<1> DEFINE Missing == {k \in Nat : ~\E f : IsUnused(f, k)}
<1>1. SUFFICES ASSUME Missing # {} PROVE FALSE
  OBVIOUS
<1>2. Missing \subseteq Nat /\ \A k \in Nat : k \notin Missing <=> \E f : IsUnused(f, k)
  OBVIOUS
<1> HIDE DEF Missing
<1>3. PICK k \in Missing : \A m \in Missing : ~(<<m, k>> \in OpToRel(<, Nat))
  BY <1>1, <1>2, NatLessThanWellFounded, WFMin
<1>4. CASE k = 0
  <2>1. PICK f : f = [l \in 0 .. 0 |-> <<>>]
    OBVIOUS
  <2>2. IsUnused(f, 0)
    BY <2>1 DEF IsUnused
  <2> QED BY <1>2, <1>3, <1>4, <2>2
<1>5. CASE k # 0
  <2>1. PICK j \in Nat : k = j + 1
    <3>0. k \in Nat
      BY <1>2, <1>3
    <3>1. k - 1 \in Nat /\ k = (k - 1) + 1
      BY <1>5, <3>0
    <3> QED BY <3>1
  <2>2. j \notin Missing
    <3>1. <<j, k>> \in OpToRel(<, Nat)
      BY <2>1 DEF OpToRel
    <3> QED BY <1>3, <3>1
  <2>3. PICK f : IsUnused(f, j)
    BY <1>2, <2>2
  <2>4. PICK g : g = [l \in 0 .. k |-> IF l < k THEN f[l]
                                       ELSE IF k \in used THEN f[j] ELSE Append(f[j], k)]
    OBVIOUS
  <2>5. ASSUME NEW l \in 0 .. k
        PROVE  g[l] = IF l = 0 THEN <<>> ELSE IF l \in used THEN g[l - 1] ELSE Append(g[l - 1], l)
    <3>1. CASE l = k
      <4>1. g[l] = (IF k \in used THEN f[j] ELSE Append(f[j], k)) /\ l - 1 = j /\ l # 0
        BY <2>1, <2>4, <3>1
      <4>2. g[j] = f[j]
        BY <2>1, <2>4
      <4> QED BY <3>1, <4>1, <4>2
    <3>2. CASE l # k
      <4>1. l \in 0 .. j /\ l < k
        BY <2>1, <3>2
      <4>2. g[l] = f[l]
        BY <2>4, <4>1
      <4>3. f[l] = IF l = 0 THEN <<>> ELSE IF l \in used THEN f[l - 1] ELSE Append(f[l - 1], l)
        BY <2>3, <4>1 DEF IsUnused
      <4>4. ASSUME l # 0 PROVE g[l - 1] = f[l - 1]
        <5>1. PICK m \in 0 .. j : m = l - 1 /\ m \in 0 .. k /\ m < k
          BY <2>1, <4>1, <4>4
        <5>2. g[m] = f[m]
          BY <2>4, <5>1
        <5> QED BY <5>1, <5>2
      <4> QED BY <4>2, <4>3, <4>4
    <3> QED BY <3>1, <3>2
  <2>6. IsUnused(g, k)
    BY <2>4, <2>5 DEF IsUnused
  <2> QED BY <1>2, <1>3, <2>6
<1> QED BY <1>4, <1>5

\* The locals there are warnings for are locals.
LEMMA UnusedFact ==
  ASSUME Len(locals) \in Nat
  PROVE  UnusedLocals \in Seq(1 .. Len(locals))
<1>1. PICK n \in Nat : n = Len(locals)
  OBVIOUS
<1>2. PICK f : f = UnusedUpTo
  OBVIOUS
<1>3. IsUnused(f, n)
  <2>1. f = CHOOSE g : IsUnused(g, n)
    BY <1>1, <1>2 DEF UnusedUpTo, IsUnused
  <2> QED BY <2>1, UnusedExists
<1>4. ASSUME NEW l \in 0 .. n
      PROVE  f[l] = IF l = 0 THEN <<>> ELSE IF l \in used THEN f[l - 1] ELSE Append(f[l - 1], l)
  BY <1>3 DEF IsUnused
<1> DEFINE Bad == {l \in 0 .. n : f[l] \notin Seq(1 .. n)}
<1>5. Bad = {}
  <2>1. SUFFICES ASSUME Bad # {} PROVE FALSE
    OBVIOUS
  <2>2. Bad \subseteq Nat /\ Bad \subseteq 0 .. n /\ \A l \in 0 .. n : l \notin Bad <=> f[l] \in Seq(1 .. n)
    OBVIOUS
  <2> HIDE DEF Bad
  <2>3. PICK k \in Bad : \A m \in Bad : ~(<<m, k>> \in OpToRel(<, Nat))
    BY <2>1, <2>2, NatLessThanWellFounded, WFMin
  <2>4. k \in 0 .. n /\ f[k] \notin Seq(1 .. n)
    BY <2>2, <2>3
  <2>5. k # 0
    <3>1. k = 0 => f[k] = <<>>
      BY <1>4, <2>4
    <3>2. <<>> \in Seq(1 .. n)
      OBVIOUS
    <3> QED BY <2>4, <3>1, <3>2
  <2>6. PICK j \in 0 .. n : k = j + 1
    <3>1. k - 1 \in 0 .. n /\ k = (k - 1) + 1
      BY <2>4, <2>5
    <3> QED BY <3>1
  <2>7. j \notin Bad
    <3>1. <<j, k>> \in OpToRel(<, Nat)
      BY <2>6 DEF OpToRel
    <3> QED BY <2>3, <3>1
  <2>8. f[j] \in Seq(1 .. n)
    BY <2>2, <2>7
  <2>9. f[k] = f[j] \/ f[k] = Append(f[j], k)
    <3>1. k - 1 = j
      BY <2>6
    <3> QED BY <1>4, <2>4, <2>5, <3>1
  <2>10. k \in 1 .. n
    BY <2>4, <2>5
  <2>11. Append(f[j], k) \in Seq(1 .. n)
    BY <2>8, <2>10
  <2> QED BY <2>4, <2>8, <2>9, <2>11
<1>6. f[n] \in Seq(1 .. n)
  BY <1>5
<1> QED BY <1>1, <1>2, <1>6 DEF UnusedLocals

LEMMA EndLowerStep == ASSUME IInv, EndLower PROVE IInv'
<1>1. PICK unused, n : unused = UnusedLocals /\ n = Len(locals)
  OBVIOUS
<1>2. PICK es : es = [i \in DOMAIN unused |->
                        Diagnostic("warning", "unused_variable", locals[unused[i]].at)[1]]
  OBVIOUS
<1>3. /\ calls = <<>> /\ diagnostics' = diagnostics \o es /\ status' \in Statuses
      /\ UNCHANGED <<ast, calls, result, temp, next, start, hir, used>>
  BY <1>1, <1>2 DEF EndLower, Idle, Statuses
<1>4. unused \in Seq(1 .. n)
  BY <1>1, UnusedFact, TablesFact
<1>5. ASSUME NEW i \in DOMAIN unused PROVE es[i] \in Diagnostics
  <2>1. unused[i] \in 1 .. n
    <3>1. PICK S : S = 1 .. n
      OBVIOUS
    <3>2. unused \in Seq(S)
      BY <1>4, <3>1
    <3> QED BY <1>5, <3>1, <3>2, Members
  <2>2. PICK local \in LocalsOf(Now) : local = locals[unused[i]]
    BY <1>1, <2>1, TablesFact
  <2>3. PICK d : d = [severity |-> "warning", what |-> "unused_variable", at |-> local.at]
    OBVIOUS
  <2>4. d \in Diagnostics
    BY <2>3 DEF Diagnostics, Messages, LocalsOf
  <2>5. Diagnostic("warning", "unused_variable", local.at)[1] = d
    BY <2>3 DEF Diagnostic
  <2> QED BY <1>2, <2>2, <2>4, <2>5
<1>6. es \in Seq(Diagnostics)
  <2>1. DOMAIN unused = 1 .. Len(unused) /\ Len(unused) \in Nat
    BY <1>4
  <2>2. es \in [1 .. Len(unused) -> Diagnostics]
    BY <1>2, <1>5, <2>1
  <2> QED BY <2>1, <2>2
<1>7. diagnostics' \in Seq(Diagnostics)
  BY <1>3, <1>6 DEF IInv
<1>8. next' \in 1 .. Len(ast.functions) + 1
  BY <1>3 DEF IInv
<1> QED BY <1>3, <1>7, <1>8, Rest
------------------------------------------------------------------------------
(* The invariant.                                                          *)

LEMMA InitInv == Init => IInv
<1> SUFFICES ASSUME Init PROVE IInv
  OBVIOUS
<1>1. /\ ast \in Asts /\ calls = <<>> /\ result = NoResult /\ temp = <<>> /\ next = 1 /\ start = 0
      /\ nodes = <<>> /\ locals = <<>> /\ types = <<>> /\ functions = <<>> /\ used = {}
      /\ diagnostics = <<>> /\ status = "running"
  BY DEF Init
<1>2. Len(<<>>) = 0 /\ \A S : <<>> \in Seq(S)
  OBVIOUS
<1>3. next \in 1 .. Len(ast.functions) + 1
  BY <1>1, FunctionsOfAst
<1>4. FunctionsFit
  BY <1>1, <1>2 DEF FunctionsFit, IsSequence
<1>5. TablesFit(Now)
  BY <1>1, <1>2 DEF TablesFit, Shaped, Now, Tables, TypesFit
<1>6. ArenaFits(Now, temp)
  BY <1>1, <1>2 DEF ArenaFits
<1>7. Pending(Now, calls, temp, Len(temp))
  BY <1>1, <1>2, FillEmpty DEF Pending
<1>8. ResultFits(Now, calls, result)
  BY <1>1 DEF ResultFits
<1>9. start \in 0 .. Len(locals) /\ used \subseteq 1 .. Len(locals)
      /\ diagnostics \in Seq(Diagnostics) /\ status \in Statuses
  BY <1>1, <1>2 DEF Statuses
<1> QED BY <1>1, <1>3, <1>4, <1>5, <1>6, <1>7, <1>8, <1>9 DEF IInv

LEMMA ExpressionsStep == ASSUME IInv, Expressions PROVE IInv'
<1>1. /\ LowerMissing \/ LowerLiteral \/ LowerVariable \/ UndefinedVariable => IInv'
      /\ BeginOperands \/ AllocateOperand => IInv'
  BY LowerMissingStep, LowerLiteralStep, LowerVariableStep, UndefinedVariableStep,
     BeginOperandsStep, AllocateOperandStep
<1>2. /\ FinishBinaryOperation \/ FinishAddressOf => IInv'
      /\ FinishDereference \/ DereferenceOfNonPointer => IInv'
      /\ FinishIndex \/ IndexIsNotAnInteger \/ IndexOfNonArray => IInv'
  BY FinishBinaryOperationStep, FinishAddressOfStep, FinishDereferenceStep, FinishIndexStep,
     MistypedOperands
<1>3. BeginArray \/ BeginElement \/ EndElement \/ MistypedElement \/ EndArray => IInv'
  BY BeginArrayStep, BeginElementStep, EndElementStep, MistypedElementStep, EndArrayStep
<1> QED BY <1>1, <1>2, <1>3 DEF Expressions

LEMMA StatementsStep == ASSUME IInv, Statements PROVE IInv'
<1>1. BeginControlFlow \/ FinishControlFlow => IInv'
  BY BeginControlFlowStep, FinishControlFlowStep
<1>2. ShadowingDefinition \/ BeginDefinition \/ FinishDefinition => IInv'
  BY ShadowingDefinitionStep, BeginDefinitionStep, FinishDefinitionStep
<1>3. BeginAssign \/ BeginAssignedValue \/ FinishAssign \/ MismatchedAssign => IInv'
  BY BeginAssignStep, BeginAssignedValueStep, FinishAssignStep, MismatchedAssignStep
<1>4. BeginBlock \/ BeginBlockStatement \/ EndBlockStatement \/ EndBlock => IInv'
  BY BeginBlockStep, BeginBlockStatementStep, EndBlockStatementStep, EndBlockStep
<1> QED BY <1>1, <1>2, <1>3, <1>4 DEF Statements

LEMMA NextInv == IInv /\ [Next]_vars => IInv'
<1> SUFFICES ASSUME IInv, [Next]_vars PROVE IInv'
  OBVIOUS
<1>1. CASE UNCHANGED vars
  <2>1. /\ UNCHANGED <<ast, calls, result, temp, start, hir, used>>
        /\ next' = next /\ diagnostics' = diagnostics /\ status' = status
    BY <1>1 DEF vars
  <2> QED BY <2>1, Rest DEF IInv
<1>2. SkipFunction \/ BeginFunction \/ EndFunction \/ EndLower => IInv'
  BY SkipFunctionStep, BeginFunctionStep, EndFunctionStep, EndLowerStep
<1>3. Expressions \/ Statements => IInv'
  BY ExpressionsStep, StatementsStep
<1> QED BY <1>1, <1>2, <1>3 DEF Next

LEMMA Invariant == Spec => []IInv
BY InitInv, NextInv, PTL DEF Spec
------------------------------------------------------------------------------
(* What follows from it.                                                   *)

LEMMA TypesOK == IInv => TypeOK
<1> SUFFICES ASSUME IInv PROVE TypeOK
  OBVIOUS
<1>1. /\ DOMAIN nodes = 1 .. Len(nodes) /\ DOMAIN locals = 1 .. Len(locals)
      /\ DOMAIN types = 1 .. Len(types) /\ Len(types) \in Nat
  BY TablesFact
<1>2. Nodes = NodesOf(Now)
  BY <1>1, TablesFact DEF Nodes, NodesOf, TypeIds
<1>3. (1 .. Len(types)) \cup {0} = 0 .. Len(types)
  BY <1>1
<1>4. Frames = FramesOf(Now)
  BY <1>1, <1>2, <1>3, TablesFact DEF Frames, FramesOf, TypeIds
<1>5. calls \in Seq(Frames) /\ temp \in Seq(Nodes) /\ nodes \in Seq(Nodes)
  BY <1>2, <1>4, TablesFact
<1>6. result \in Nodes \cup {NoResult}
  BY <1>2 DEF IInv, ResultFits, Returned, Sound
<1>7. ASSUME NEW l \in DOMAIN locals PROVE locals[l].type \in TypeIds /\ locals[l].at \in Ids
  <2>1. locals[l] \in LocalsOf(Now)
    BY <1>1, TablesFact
  <2> QED BY <1>1, <2>1, TablesFact DEF LocalsOf, TypeIds
<1>8. ASSUME NEW t \in TypeIds
      PROVE  /\ types[t].kind \in {"void", "i64", "pointer", "array"}
             /\ types[t].kind \in {"pointer", "array"} => types[t].child \in 1 .. t - 1
  <2>1. t \in 1 .. Len(types)
    BY <1>1 DEF TypeIds
  <2>2. types[t] \in TypeEntries /\ EntryFits(types[t], 1 .. t - 1)
    BY <2>1, TablesFact DEF TypesFit
  <2> QED BY <2>2 DEF TypeEntries, TypeKinds, EntryFits
<1>9. ASSUME NEW d \in DOMAIN diagnostics PROVE diagnostics[d].at \in Ids
  <2>1. diagnostics[d] \in Diagnostics
    BY DEF IInv
  <2> QED BY <2>1 DEF Diagnostics
<1>10. /\ next \in 1 .. Len(ast.functions) + 1 /\ start \in 0 .. Len(locals)
       /\ used \subseteq DOMAIN locals /\ status \in Statuses /\ FunctionsFit
  BY <1>1 DEF IInv
<1> QED BY <1>5, <1>6, <1>7, <1>8, <1>9, <1>10 DEF TypeOK, FunctionsFit, Statuses

LEMMA NodesAreWellTyped == IInv => WellTyped
<1> SUFFICES ASSUME IInv, NEW i \in DOMAIN nodes PROVE WellTypedNode(nodes[i])
  BY DEF WellTyped
<1>1. PICK n : n = nodes[i]
  OBVIOUS
<1>2. i \in 1 .. Len(nodes)
  BY TablesFact
<1>3. Sound(Now, n)
  BY <1>1, <1>2, TablesFact DEF IInv, TablesFit
<1>4. n.kind \in NodeKinds /\ Typed(Now, n)
  BY <1>3 DEF Sound, NodesOf
<1>5. n.kind = "variable" => WellTypedNode(n)
  BY <1>4, TablesFact DEF Typed, WellTypedNode
<1>6. n.kind = "address_of" => WellTypedNode(n)
  BY <1>4, TablesFact DEF Typed, WellTypedNode, BinaryOperators
<1>7. n.kind = "dereference" => WellTypedNode(n)
  BY <1>4, TablesFact DEF Typed, WellTypedNode, BinaryOperators
<1>8. n.kind = "index" => WellTypedNode(n)
  BY <1>4, TablesFact DEF Typed, WellTypedNode, BinaryOperators
<1>9. n.kind = "assign" => WellTypedNode(n)
  BY <1>4, TablesFact DEF Typed, WellTypedNode, BinaryOperators
<1>10. n.kind \in BinaryOperators => WellTypedNode(n)
  BY <1>4, TablesFact DEF Typed, WellTypedNode, BinaryOperators
<1>11. n.kind = "array_literal" => WellTypedNode(n)
  <2>1. n.kind = "array_literal" => Children(n) = n.data[1] .. n.data[1] + n.data[2] - 1
    BY DEF Children
  <2> QED BY <1>4, <2>1, TablesFact DEF Typed, WellTypedNode, BinaryOperators, IsElement, TypeKind
<1>12. n.kind \in {"missing", "int_literal", "if", "while", "return", "block"} => WellTypedNode(n)
  BY DEF WellTypedNode, BinaryOperators
<1> QED BY <1>1, <1>4, <1>5, <1>6, <1>7, <1>8, <1>9, <1>10, <1>11, <1>12 DEF NodeKinds

(* In every state the variables have their types, and every node, local    *)
(* and type refers to entries that the tables hold (lower.c:21-143).       *)
THEOREM TypeCorrect == Spec => []TypeOK
BY Invariant, TypesOK, PTL

(* However literals and blocks nest, and whatever goes wrong in them, each *)
(* finds in m->temp exactly the nodes it pushed (lower.c:304-364,          *)
(* 567-590).                                                               *)
THEOREM BuildersShareTheArena == Spec => []BuildersNested
<1>1. IInv => BuildersNested
  BY TablesFact, FillNested DEF IInv, Pending
<1> QED BY <1>1, Invariant, PTL

(* The operands of every node of the HIR have the types codegen takes for  *)
(* granted, in programs with errors as well (lower.c:206, 248, 269,        *)
(* 319-348, 490).                                                          *)
THEOREM HirIsWellTyped == Spec => []WellTyped
BY Invariant, NodesAreWellTyped, PTL

--------------------------------------------------------------------------------
(* The HIR is a forest.  The nodes that a node refers to are allocated,    *)
(* but it may itself be the result, on the arena, or on the left of an     *)
(* assignment that waits; and a frame has operands that no node refers to  *)
(* yet.  As in ParserAstProofs, every index has an owner: the place of the *)
(* one node or frame that refers to it.                                    *)

\* The indices a frame refers to.
FrameUses(f) ==
  CASE f.at \in {"operands", "finish"} -> {f.done[i] : i \in 1 .. Len(f.done)}
    [] f.at = "assign_rhs" -> Children(f.lhs)
    [] OTHER -> {}

\* The places; a frame is as high as there are frames below it.
Result == <<"result", 0>>
TopFrame(stack) == <<"frame", Len(stack) - 1>>

\* What `owner` says of the nodes of a sequence, the frames of a stack, the
\* result under a stack, and the functions, of n indices.
NodesOwn(owner, n, place, seq) ==
  \A i \in 1 .. Len(seq) : \A x \in Children(seq[i]) :
    x \in 1 .. n /\ owner[x] = <<place, i>> /\ (place = "node" => x < i)
FramesOwn(owner, n, stack) ==
  \A i \in 1 .. Len(stack) : \A x \in FrameUses(stack[i]) :
    x \in 1 .. n /\ owner[x] = <<"frame", Len(stack) - i>>
ResultOwns(owner, n, stack, r) ==
  stack # <<>> /\ stack[1].at \in Waiting =>
    \A x \in Children(r) : x \in 1 .. n /\ owner[x] = Result
FunctionsOwn(owner, n, fs) ==
  \A i \in 1 .. Len(fs) : fs[i].body \in 1 .. n /\ owner[fs[i].body] = <<"function", i>>

Owns(owner, ns, arena, stack, r, fs) ==
  /\ NodesOwn(owner, Len(ns), "node", ns)
  /\ NodesOwn(owner, Len(ns), "temp", arena)
  /\ FramesOwn(owner, Len(ns), stack)
  /\ ResultOwns(owner, Len(ns), stack, r)
  /\ FunctionsOwn(owner, Len(ns), fs)
Owned(ns, arena, stack, r, fs) == \E owner : Owns(owner, ns, arena, stack, r, fs)

TreesInv == Owned(nodes, temp, calls, result, functions)
------------------------------------------------------------------------------
(* Steps, by what they move.                                               *)

\* The sequence u is s, and then t.
Joined(s, t, u) ==
  /\ Len(s) \in Nat /\ Len(t) \in Nat /\ Len(u) = Len(s) + Len(t)
  /\ \A i \in 1 .. Len(s) : u[i] = s[i]
  /\ \A i \in 1 .. Len(t) : u[Len(s) + i] = t[i]

\* The stack `new` is `old` with the frames u in the place of the top one.
Replaced(old, new, u) ==
  /\ Len(old) \in Nat \ {0} /\ Len(u) \in Nat /\ Len(new) = Len(u) + Len(old) - 1
  /\ \A i \in 1 .. Len(new) : new[i] = IF i <= Len(u) THEN u[i] ELSE old[i - Len(u) + 1]

\* Only the lowest frame of u refers to nodes, and those get an owner.
NewFramesOwn(owner, m, place, u) ==
  \A i \in 1 .. Len(u) : \A x \in FrameUses(u[i]) :
    i = Len(u) /\ x \in 1 .. m /\ owner[x] = place

Keeps(owner, owner2, n, place) ==
  \A x \in 1 .. n : \A i \in Nat : owner[x] = <<place, i>> => owner2[x] = owner[x]
FramesStay(owner, owner2, n, stack) ==
  \A x \in 1 .. n : \A h \in 0 .. Len(stack) - 2 :
    owner[x] = <<"frame", h>> => owner2[x] = owner[x]

LEMMA FramesMoved ==
  ASSUME NEW stack, NEW stack2, NEW u, Replaced(stack, stack2, u),
         NEW n \in Nat, NEW m \in Nat, n <= m, NEW owner, NEW owner2,
         FramesOwn(owner, n, stack), FramesStay(owner, owner2, n, stack),
         NewFramesOwn(owner2, m, TopFrame(stack), u)
  PROVE  FramesOwn(owner2, m, stack2)
<1> SUFFICES ASSUME NEW i \in 1 .. Len(stack2), NEW x \in FrameUses(stack2[i])
             PROVE  x \in 1 .. m /\ owner2[x] = <<"frame", Len(stack2) - i>>
  BY DEF FramesOwn
<1>1. PICK l, k : l = Len(stack) /\ k = Len(u)
  OBVIOUS
<1>2. l \in Nat /\ l >= 1 /\ k \in Nat /\ Len(stack2) = k + l - 1
  BY <1>1 DEF Replaced
<1>3. CASE i <= k
  <2>1. i \in 1 .. k /\ x \in FrameUses(u[i])
    BY <1>1, <1>2, <1>3 DEF Replaced
  <2>2. i = k /\ x \in 1 .. m /\ owner2[x] = TopFrame(stack)
    BY <1>1, <2>1 DEF NewFramesOwn
  <2>3. Len(stack2) - i = l - 1
    BY <1>2, <2>2
  <2> QED BY <1>1, <2>2, <2>3 DEF TopFrame
<1>4. CASE i > k
  <2>1. PICK j \in 2 .. l : j = i - k + 1
    BY <1>2, <1>4
  <2>2. stack2[i] = stack[j] /\ j \in 1 .. l
    <3>1. j \in 1 .. l /\ ~ (i <= k) /\ i - k + 1 = j
      BY <1>2, <1>4, <2>1
    <3>2. stack2[i] = IF i <= Len(u) THEN u[i] ELSE stack[i - Len(u) + 1]
      BY DEF Replaced
    <3> QED BY <1>1, <3>1, <3>2
  <2>3. x \in 1 .. n /\ owner[x] = <<"frame", l - j>>
    BY <1>1, <2>2 DEF FramesOwn
  <2>4. l - j = Len(stack2) - i /\ l - j \in 0 .. l - 2
    BY <1>2, <2>1
  <2>5. PICK h \in 0 .. l - 2 : h = l - j
    BY <2>4
  <2>6. owner2[x] = <<"frame", h>>
    BY <1>1, <2>3, <2>5 DEF FramesStay
  <2> QED BY <2>3, <2>4, <2>5, <2>6
<1> QED BY <1>2, <1>3, <1>4

\* The nodes of t own what they refer to, after those of another sequence.
NewNodesOwn(owner, n, place, old, t) ==
  \A i \in 1 .. Len(t) : \A x \in Children(t[i]) :
    x \in 1 .. n /\ owner[x] = <<place, old + i>>

LEMMA NodesMoved ==
  ASSUME NEW place, NEW s, NEW t, NEW u, Joined(s, t, u),
         NEW n \in Nat, NEW m \in Nat, n <= m, NEW owner, NEW owner2,
         NodesOwn(owner, n, place, s), Keeps(owner, owner2, n, place),
         NewNodesOwn(owner2, n, place, Len(s), t), place = "node" => n = Len(s)
  PROVE  NodesOwn(owner2, m, place, u)
<1> SUFFICES ASSUME NEW i \in 1 .. Len(u), NEW x \in Children(u[i])
             PROVE  x \in 1 .. m /\ owner2[x] = <<place, i>> /\ (place = "node" => x < i)
  BY DEF NodesOwn
<1>1. PICK l, k : l = Len(s) /\ k = Len(t)
  OBVIOUS
<1>2. l \in Nat /\ k \in Nat /\ Len(u) = l + k
  BY <1>1 DEF Joined
<1>3. CASE i <= l
  <2>1. i \in 1 .. l /\ x \in Children(s[i]) /\ i \in Nat
    BY <1>1, <1>2, <1>3 DEF Joined
  <2>2. x \in 1 .. n /\ owner[x] = <<place, i>> /\ (place = "node" => x < i)
    BY <1>1, <2>1 DEF NodesOwn
  <2> QED BY <2>1, <2>2 DEF Keeps
<1>4. CASE i > l
  <2>1. PICK j \in 1 .. k : i = l + j
    <3>1. i - l \in 1 .. k /\ i = l + (i - l)
      BY <1>2, <1>4
    <3> QED BY <3>1
  <2>2. x \in Children(t[j])
    BY <1>1, <2>1 DEF Joined
  <2>3. x \in 1 .. n /\ owner2[x] = <<place, l + j>>
    BY <1>1, <2>1, <2>2 DEF NewNodesOwn
  <2>4. place = "node" => x < i
    BY <1>1, <1>2, <2>1, <2>3
  <2> QED BY <2>1, <2>3, <2>4
<1> QED BY <1>2, <1>3, <1>4

\* Functions that are there stay what they are.
LEMMA FunctionsMoved ==
  ASSUME NEW s, NEW t, NEW u, Joined(s, t, u),
         NEW n \in Nat, NEW m \in Nat, n <= m, NEW owner, NEW owner2,
         FunctionsOwn(owner, n, s), Keeps(owner, owner2, n, "function"),
         \A i \in 1 .. Len(t) : /\ t[i].body \in 1 .. m
                                /\ owner2[t[i].body] = <<"function", Len(s) + i>>
  PROVE  FunctionsOwn(owner2, m, u)
<1> SUFFICES ASSUME NEW i \in 1 .. Len(u)
             PROVE  u[i].body \in 1 .. m /\ owner2[u[i].body] = <<"function", i>>
  BY DEF FunctionsOwn
<1>1. PICK l, k : l = Len(s) /\ k = Len(t)
  OBVIOUS
<1>2. l \in Nat /\ k \in Nat /\ Len(u) = l + k
  BY <1>1 DEF Joined
<1>3. CASE i <= l
  <2>1. i \in 1 .. l /\ u[i] = s[i] /\ i \in Nat
    BY <1>1, <1>2, <1>3 DEF Joined
  <2>2. s[i].body \in 1 .. n /\ owner[s[i].body] = <<"function", i>>
    BY <1>1, <2>1 DEF FunctionsOwn
  <2> QED BY <2>1, <2>2 DEF Keeps
<1>4. CASE i > l
  <2>1. PICK j \in 1 .. k : i = l + j
    <3>1. i - l \in 1 .. k /\ i = l + (i - l)
      BY <1>2, <1>4
    <3> QED BY <3>1
  <2>2. u[i] = t[j]
    BY <1>1, <2>1 DEF Joined
  <2> QED BY <1>1, <2>1, <2>2
<1> QED BY <1>2, <1>3, <1>4

\* A step moves what the result owns to b and what the top frame owns to d, and
\* gives new nodes to `new`.
Moved(owner, n, stack, b, d, new) ==
  [x \in Nat |-> IF x > n THEN new
                 ELSE IF owner[x] = Result THEN b
                 ELSE IF owner[x] = TopFrame(stack) THEN d ELSE owner[x]]

\* The step gives x, of m nodes of which n are old, to a place.
Gets(x, place, n, m, stack, r, b, d, new) ==
  \/ b = place /\ stack[1].at \in Waiting /\ x \in Children(r)
  \/ d = place /\ x \in FrameUses(stack[1])
  \/ new = place /\ x \in n + 1 .. m

LEMMA GetsFact ==
  ASSUME NEW stack, Len(stack) \in Nat \ {0}, stack # <<>>, NEW r, NEW owner, NEW n \in Nat,
         NEW m \in Nat, n <= m,
         FramesOwn(owner, n, stack), ResultOwns(owner, n, stack, r), NEW b, NEW d, NEW new,
         NEW owner2, owner2 = Moved(owner, n, stack, b, d, new),
         NEW x, NEW place, Gets(x, place, n, m, stack, r, b, d, new)
  PROVE  x \in 1 .. m /\ owner2[x] = place /\ (place # new => x <= n)
<1>1. ASSUME stack[1].at \in Waiting, x \in Children(r)
      PROVE  x \in 1 .. n /\ owner[x] = Result
  BY <1>1 DEF ResultOwns
<1>2. ASSUME x \in FrameUses(stack[1])
      PROVE  x \in 1 .. n /\ owner[x] = TopFrame(stack)
  BY <1>2 DEF FramesOwn, TopFrame
<1>3. Result # TopFrame(stack)
  BY DEF Result, TopFrame
<1>4. CASE b = place /\ stack[1].at \in Waiting /\ x \in Children(r)
  BY <1>1, <1>4 DEF Moved
<1>5. CASE d = place /\ x \in FrameUses(stack[1])
  BY <1>2, <1>3, <1>5 DEF Moved
<1>6. CASE new = place /\ x \in n + 1 .. m
  BY <1>6 DEF Moved
<1> QED BY <1>4, <1>5, <1>6 DEF Gets

\* What neither the result nor the top frame owns stays.
LEMMA StaysFact ==
  ASSUME NEW stack, Len(stack) \in Nat, NEW n \in Nat, NEW owner, NEW b, NEW d, NEW new,
         NEW owner2, owner2 = Moved(owner, n, stack, b, d, new)
  PROVE  /\ \A place \in {"node", "temp", "function"} : Keeps(owner, owner2, n, place)
         /\ FramesStay(owner, owner2, n, stack)
<1>1. ASSUME NEW place \in {"node", "temp", "function"},
             NEW x \in 1 .. n, NEW i \in Nat, owner[x] = <<place, i>>
      PROVE  owner2[x] = owner[x]
  <2>1. <<place, i>> # Result /\ <<place, i>> # TopFrame(stack)
    BY DEF Result, TopFrame
  <2>2. owner[x] # Result /\ owner[x] # TopFrame(stack) /\ x \in Nat /\ ~(x > n)
    BY <1>1, <2>1
  <2> QED BY <2>2 DEF Moved
<1>2. ASSUME NEW x \in 1 .. n, NEW h \in 0 .. Len(stack) - 2, owner[x] = <<"frame", h>>
      PROVE  owner2[x] = owner[x]
  <2>1. h # Len(stack) - 1
    OBVIOUS
  <2>2. <<"frame", h>> # Result /\ <<"frame", h>> # TopFrame(stack)
    BY <2>1 DEF Result, TopFrame
  <2>3. owner[x] # Result /\ owner[x] # TopFrame(stack) /\ x \in Nat /\ ~(x > n)
    BY <1>2, <2>2
  <2> QED BY <2>3 DEF Moved
<1> QED BY <1>1, <1>2 DEF Keeps, FramesStay

\* What a step gives to nodes it allocates or pushes, to the frames that replace
\* the top one, to the result, and to functions.
NodesGet(place, old, t, n, m, stack, r, b, d, new) ==
  \A i \in 1 .. Len(t) : \A x \in Children(t[i]) :
    Gets(x, <<place, old + i>>, n, m, stack, r, b, d, new)
FramesGet(u, n, m, stack, r, b, d, new) ==
  \A i \in 1 .. Len(u) : \A x \in FrameUses(u[i]) :
    i = Len(u) /\ Gets(x, TopFrame(stack), n, m, stack, r, b, d, new)
ResultGets(stack2, r2, n, m, stack, r, b, d, new) ==
  stack2 # <<>> /\ stack2[1].at \in Waiting =>
    \A x \in Children(r2) : Gets(x, Result, n, m, stack, r, b, d, new)
FunctionsGet(old, t, n, m, stack, r, b, d, new) ==
  \A i \in 1 .. Len(t) : Gets(t[i].body, <<"function", old + i>>, n, m, stack, r, b, d, new)

LEMMA MoveStep ==
  ASSUME NEW ns, NEW more, NEW ns2, Joined(ns, more, ns2),
         NEW arena, NEW pushed, NEW arena2, Joined(arena, pushed, arena2),
         NEW stack, NEW u, NEW stack2, Replaced(stack, stack2, u), stack # <<>>,
         NEW fs, NEW added, NEW fs2, Joined(fs, added, fs2), NEW r, NEW r2,
         NEW n, n = Len(ns), NEW m, m = Len(ns2), NEW b, NEW d, NEW new,
         new \in {Result, TopFrame(stack), <<"function", Len(fs) + 1>>},
         NodesGet("node", n, more, n, m, stack, r, b, d, new),
         NodesGet("temp", Len(arena), pushed, n, m, stack, r, b, d, new),
         FramesGet(u, n, m, stack, r, b, d, new),
         ResultGets(stack2, r2, n, m, stack, r, b, d, new),
         FunctionsGet(Len(fs), added, n, m, stack, r, b, d, new),
         Owned(ns, arena, stack, r, fs)
  PROVE  Owned(ns2, arena2, stack2, r2, fs2)
<1>1. PICK owner : Owns(owner, ns, arena, stack, r, fs)
  BY DEF Owned
<1>2. PICK owner2 : owner2 = Moved(owner, n, stack, b, d, new)
  OBVIOUS
<1>3. n \in Nat /\ m \in Nat /\ n <= m /\ Len(stack) \in Nat \ {0}
  BY DEF Joined, Replaced
<1>4. /\ \A place \in {"node", "temp", "function"} : Keeps(owner, owner2, n, place)
      /\ FramesStay(owner, owner2, n, stack)
  BY <1>2, <1>3, StaysFact
<1>5. /\ NodesOwn(owner, n, "node", ns) /\ NodesOwn(owner, n, "temp", arena)
      /\ FramesOwn(owner, n, stack) /\ ResultOwns(owner, n, stack, r) /\ FunctionsOwn(owner, n, fs)
  BY <1>1 DEF Owns
<1>6. ASSUME NEW x, NEW place, Gets(x, place, n, m, stack, r, b, d, new)
      PROVE  x \in 1 .. m /\ owner2[x] = place /\ (place # new => x \in 1 .. n)
  <2>1. x \in 1 .. m /\ owner2[x] = place /\ (place # new => x <= n)
    BY <1>2, <1>3, <1>5, <1>6, GetsFact
  <2> QED BY <1>3, <2>1
<1>7. \A i : <<"node", i>> # new /\ <<"temp", i>> # new
  BY DEF Result, TopFrame
<1>8. NewNodesOwn(owner2, n, "node", n, more) /\ NewNodesOwn(owner2, n, "temp", Len(arena), pushed)
  <2>1. ASSUME NEW i \in 1 .. Len(more), NEW x \in Children(more[i])
        PROVE  x \in 1 .. n /\ owner2[x] = <<"node", n + i>>
    <3>1. Gets(x, <<"node", n + i>>, n, m, stack, r, b, d, new)
      BY DEF NodesGet
    <3> QED BY <1>6, <1>7, <3>1
  <2>2. ASSUME NEW i \in 1 .. Len(pushed), NEW x \in Children(pushed[i])
        PROVE  x \in 1 .. n /\ owner2[x] = <<"temp", Len(arena) + i>>
    <3>1. Gets(x, <<"temp", Len(arena) + i>>, n, m, stack, r, b, d, new)
      BY DEF NodesGet
    <3> QED BY <1>6, <1>7, <3>1
  <2> QED BY <2>1, <2>2 DEF NewNodesOwn
<1>9. NodesOwn(owner2, m, "node", ns2)
  BY <1>3, <1>4, <1>5, <1>8, NodesMoved
<1>10. NodesOwn(owner2, m, "temp", arena2)
  BY <1>3, <1>4, <1>5, <1>8, NodesMoved
<1>11. FramesOwn(owner2, m, stack2)
  <2>1. NewFramesOwn(owner2, m, TopFrame(stack), u)
    BY <1>6 DEF FramesGet, NewFramesOwn
  <2> QED BY <1>3, <1>4, <1>5, <2>1, FramesMoved
<1>12. ResultOwns(owner2, m, stack2, r2)
  BY <1>6 DEF ResultGets, ResultOwns
<1>13. FunctionsOwn(owner2, m, fs2)
  <2>1. \A i \in 1 .. Len(added) : /\ added[i].body \in 1 .. m
                                   /\ owner2[added[i].body] = <<"function", Len(fs) + i>>
    BY <1>6 DEF FunctionsGet
  <2> QED BY <1>3, <1>4, <1>5, <2>1, FunctionsMoved
<1>14. Owns(owner2, ns2, arena2, stack2, r2, fs2)
  BY <1>9, <1>10, <1>11, <1>12, <1>13 DEF Owns
<1> QED BY <1>14 DEF Owned

\* A builder ends: what its elements own moves to the nodes they become, and
\* the result refers to these.
LEMMA BuiltStep ==
  ASSUME NEW ns, NEW built, NEW ns2, Joined(ns, built, ns2),
         NEW kept, NEW arena, Joined(kept, built, arena),
         NEW stack, NEW stack2, Replaced(stack, stack2, <<>>), FrameUses(stack[1]) = {},
         stack[1].at \notin Waiting, NEW fs, NEW r, NEW r2,
         \A x \in Children(r2) : x \in Len(ns) + 1 .. Len(ns2),
         Owned(ns, arena, stack, r, fs)
  PROVE  Owned(ns2, kept, stack2, r2, fs)
<1>1. PICK owner : Owns(owner, ns, arena, stack, r, fs)
  BY DEF Owned
<1>2. PICK n, m, base, count :
        n = Len(ns) /\ m = Len(ns2) /\ base = Len(kept) /\ count = Len(built)
  OBVIOUS
<1>3. /\ n \in Nat /\ m \in Nat /\ base \in Nat /\ count \in Nat /\ m = n + count
      /\ Len(arena) = base + count
  BY <1>2 DEF Joined
<1> DEFINE Place(k) == <<"temp", base + k>>
           Target(p) == CHOOSE k \in 1 .. count : p = Place(k)
<1>4. PICK owner2 : owner2 =
        [x \in Nat |-> IF x > n THEN Result
                       ELSE IF \E k \in 1 .. count : owner[x] = Place(k)
                       THEN <<"node", n + Target(owner[x])>> ELSE owner[x]]
  OBVIOUS
<1>5. /\ NodesOwn(owner, n, "node", ns) /\ NodesOwn(owner, n, "temp", arena)
      /\ FramesOwn(owner, n, stack) /\ FunctionsOwn(owner, n, fs)
  BY <1>1, <1>2 DEF Owns
<1>6. ASSUME NEW k \in 1 .. count, NEW x \in 1 .. n, owner[x] = Place(k)
      PROVE  owner2[x] = <<"node", n + k>>
  <2>1. \A j \in 1 .. count : Place(j) = Place(k) => j = k
    BY <1>3
  <2>2. Target(owner[x]) = k
    BY <1>6, <2>1
  <2>3. x \in Nat /\ ~(x > n) /\ \E j \in 1 .. count : owner[x] = Place(j)
    BY <1>3, <1>6
  <2> HIDE DEF Target
  <2> QED BY <1>4, <2>2, <2>3
<1>7. ASSUME NEW x \in 1 .. n, \A k \in 1 .. count : owner[x] # Place(k)
      PROVE  owner2[x] = owner[x]
  <2>1. x \in Nat /\ ~(x > n)
    BY <1>3
  <2>2. ~\E k \in 1 .. count : owner[x] = Place(k)
    BY <1>7
  <2> HIDE DEF Target, Place
  <2> QED BY <1>4, <2>1, <2>2
<1>8. ASSUME NEW x \in n + 1 .. m PROVE owner2[x] = Result
  BY <1>3, <1>4, <1>8
<1> HIDE DEF Target, Place
<1>9. Keeps(owner, owner2, n, "node") /\ Keeps(owner, owner2, n, "function")
  BY <1>7 DEF Keeps, Place
<1>10. FramesStay(owner, owner2, n, stack)
  BY <1>7 DEF FramesStay, Place
<1>11. NewNodesOwn(owner2, n, "node", n, built)
  <2> SUFFICES ASSUME NEW k \in 1 .. count, NEW x \in Children(built[k])
               PROVE  x \in 1 .. n /\ owner2[x] = <<"node", n + k>>
    BY <1>2 DEF NewNodesOwn
  <2>1. PICK j \in 1 .. base + count : j = base + k
    BY <1>3
  <2>2. x \in Children(arena[j])
    BY <1>2, <2>1 DEF Joined
  <2>3. x \in 1 .. n /\ owner[x] = Place(k)
    BY <1>3, <1>5, <2>1, <2>2 DEF NodesOwn, Place
  <2> QED BY <1>6, <2>3
<1>12. NodesOwn(owner2, m, "node", ns2)
  BY <1>2, <1>3, <1>5, <1>9, <1>11, NodesMoved
<1>13. NodesOwn(owner2, m, "temp", kept)
  <2> SUFFICES ASSUME NEW i \in 1 .. base, NEW x \in Children(kept[i])
               PROVE  x \in 1 .. m /\ owner2[x] = <<"temp", i>>
    BY <1>2 DEF NodesOwn
  <2>1. i \in 1 .. base + count /\ x \in Children(arena[i])
    BY <1>2, <1>3 DEF Joined
  <2>2. x \in 1 .. n /\ owner[x] = <<"temp", i>>
    BY <1>3, <1>5, <2>1 DEF NodesOwn
  <2>3. \A k \in 1 .. count : <<"temp", i>> # Place(k)
    BY <1>3 DEF Place
  <2>4. owner2[x] = owner[x]
    BY <1>7, <2>2, <2>3
  <2> QED BY <1>3, <2>2, <2>4
<1>14. FramesOwn(owner2, m, stack2)
  <2>1. NewFramesOwn(owner2, m, TopFrame(stack), <<>>)
    BY DEF NewFramesOwn
  <2> QED BY <1>3, <1>5, <1>10, <2>1, FramesMoved
<1>15. ResultOwns(owner2, m, stack2, r2)
  BY <1>2, <1>3, <1>8 DEF ResultOwns
<1>16. FunctionsOwn(owner2, m, fs)
  <2> SUFFICES ASSUME NEW i \in 1 .. Len(fs)
               PROVE  fs[i].body \in 1 .. m /\ owner2[fs[i].body] = <<"function", i>>
    BY DEF FunctionsOwn
  <2>1. fs[i].body \in 1 .. n /\ owner[fs[i].body] = <<"function", i>>
    BY <1>5 DEF FunctionsOwn
  <2>2. \A k \in 1 .. count : <<"function", i>> # Place(k)
    BY DEF Place
  <2>3. owner2[fs[i].body] = owner[fs[i].body]
    BY <1>7, <2>1, <2>2
  <2> QED BY <1>3, <2>1, <2>3
<1>17. Owns(owner2, ns2, kept, stack2, r2, fs)
  BY <1>2, <1>12, <1>13, <1>14, <1>15, <1>16 DEF Owns
<1> QED BY <1>17 DEF Owned
------------------------------------------------------------------------------
(* The steps of Lower.                                                     *)

LEMMA ConcatJoins ==
  ASSUME NEW S, NEW T, NEW s \in Seq(S), NEW t \in Seq(T)
  PROVE  Joined(s, t, s \o t)
<1>1. s \in Seq(S \cup T) /\ t \in Seq(S \cup T)
  OBVIOUS
<1> QED BY <1>1, ConcatProperties DEF Joined

LEMMA NothingJoins ==
  ASSUME NEW s, Len(s) \in Nat
  PROVE  Joined(s, <<>>, s)
BY DEF Joined

LEMMA SequenceOf ==
  ASSUME NEW S, NEW s \in Seq(S)
  PROVE  IsSequence(s)
<1>1. Len(s) \in Nat /\ s \in [1 .. Len(s) -> {s[i] : i \in DOMAIN s}]
  OBVIOUS
<1>2. s \in Seq({s[i] : i \in DOMAIN s})
  BY <1>1
<1> QED BY <1>2 DEF IsSequence

LEMMA AppendJoins ==
  ASSUME NEW s, IsSequence(s), NEW e
  PROVE  Joined(s, <<e>>, Append(s, e))
<1>1. PICK t, k : t = Append(s, e) /\ k = Len(s)
  OBVIOUS
<1>2. IsSequence(t) /\ k \in Nat /\ DOMAIN t = 1 .. k + 1 /\ t[k + 1] = e
      /\ \A i \in 1 .. k : t[i] = s[i]
  BY <1>1, SequenceFact
<1>3. Len(t) = k + 1
  BY <1>2 DEF IsSequence
<1>4. Len(<<e>>) = 1 /\ <<e>>[1] = e
  OBVIOUS
<1>5. \A i \in 1 .. 1 : t[k + i] = <<e>>[i]
  BY <1>2, <1>4
<1> QED BY <1>1, <1>2, <1>3, <1>4, <1>5 DEF Joined

LEMMA Became ==
  ASSUME NEW F, NEW stack \in Seq(F), stack # <<>>, NEW G, NEW u \in Seq(G),
         NEW stack2, stack2 = u \o Tail(stack)
  PROVE  Replaced(stack, stack2, u)
<1>1. PICK k \in Nat, l \in Nat : k = Len(u) /\ l = Len(stack)
  OBVIOUS
<1>2. l >= 1
  BY <1>1
<1>3. PICK t : t = Tail(stack)
  OBVIOUS
<1>4. t \in Seq(F) /\ Len(t) = l - 1 /\ \A i \in 1 .. l - 1 : t[i] = stack[i + 1]
  BY <1>1, <1>2, <1>3
<1>5. u \in Seq(F \cup G) /\ t \in Seq(F \cup G)
  BY <1>4
<1>6. /\ Len(stack2) = k + l - 1
      /\ \A i \in 1 .. k + l - 1 : stack2[i] = IF i <= k THEN u[i] ELSE t[i - k]
  BY <1>1, <1>3, <1>4, <1>5, ConcatProperties
<1>7. ASSUME NEW i \in 1 .. Len(stack2), ~(i <= k)
      PROVE  stack2[i] = stack[i - k + 1]
  <2>1. PICK j \in 1 .. l - 1 : j = i - k
    BY <1>2, <1>6, <1>7
  <2> QED BY <1>4, <1>6, <1>7, <2>1
<1> QED BY <1>1, <1>2, <1>6, <1>7 DEF Replaced

LEMMA BecameTop ==
  ASSUME NEW F, NEW stack \in Seq(F), stack # <<>>, NEW G, NEW u \in Seq(G), Len(u) >= 1,
         NEW stack2, stack2 = u \o Tail(stack)
  PROVE  stack2[1] = u[1]
<1>1. Replaced(stack, stack2, u)
  BY Became
<1>2. PICK k \in Nat, l \in Nat \ {0} : k = Len(u) /\ l = Len(stack)
  BY <1>1 DEF Replaced
<1>3. k >= 1 /\ Len(stack2) = k + l - 1
  BY <1>1, <1>2 DEF Replaced
<1>4. 1 \in 1 .. Len(stack2) /\ 1 <= k
  BY <1>2, <1>3
<1> QED BY <1>1, <1>2, <1>4 DEF Replaced

LEMMA CallsFact ==
  ASSUME IInv
  PROVE  /\ calls \in Seq(FramesOf(Now)) /\ Len(calls) \in Nat
         /\ nodes \in Seq(NodesOf(Now)) /\ Len(nodes) \in Nat
         /\ temp \in Seq(NodesOf(Now)) /\ Len(temp) \in Nat
         /\ IsSequence(functions) /\ Len(functions) \in Nat
<1>1. IsSequence(functions) /\ Len(functions) \in Nat
  BY SequenceFact DEF IInv, FunctionsFit
<1> QED BY <1>1, TablesFact

LEMMA StackTop ==
  ASSUME IInv, calls # <<>>, NEW F, NEW u \in Seq(F), Len(u) >= 1, Become(u),
         NEW stack2, calls' = stack2
  PROVE  stack2[1] = u[1]
<1>1. stack2 = u \o Tail(calls) /\ calls \in Seq(FramesOf(Now))
  BY CallsFact DEF Become
<1> QED BY <1>1, BecameTop

\* A step with frames u in the place of the top one.
LEMMA TreeStep ==
  ASSUME IInv, TreesInv, calls # <<>>, NEW F, NEW u \in Seq(F), Become(u),
         NEW more, NEW pushed, NEW added, NEW ns2, NEW arena2, NEW fs2, NEW stack2, NEW r2,
         nodes' = ns2, temp' = arena2, functions' = fs2, calls' = stack2, result' = r2,
         Joined(nodes, more, ns2), Joined(temp, pushed, arena2), Joined(functions, added, fs2),
         NEW n, n = Len(nodes), NEW m, m = n + Len(more), NEW b, NEW d, NEW new,
         new \in {Result, TopFrame(calls), <<"function", Len(functions) + 1>>},
         NodesGet("node", n, more, n, m, calls, result, b, d, new),
         NodesGet("temp", Len(temp), pushed, n, m, calls, result, b, d, new),
         FramesGet(u, n, m, calls, result, b, d, new),
         ResultGets(stack2, r2, n, m, calls, result, b, d, new),
         FunctionsGet(Len(functions), added, n, m, calls, result, b, d, new)
  PROVE  TreesInv'
<1>1. Replaced(calls, stack2, u)
  BY CallsFact, Became DEF Become
<1>2. m = Len(ns2)
  BY DEF Joined
<1>3. PICK ns, arena, stack, r, fs :
        ns = nodes /\ arena = temp /\ stack = calls /\ r = result /\ fs = functions
  OBVIOUS
<1>4. Owned(ns, arena, stack, r, fs)
  BY <1>3 DEF TreesInv
<1>5. Owned(ns2, arena2, stack2, r2, fs2)
  BY <1>1, <1>2, <1>3, <1>4, MoveStep
<1> QED BY <1>5 DEF TreesInv

\* Nothing is allocated or pushed.
LEMMA NothingMoves ==
  ASSUME NEW n, NEW place, NEW old, NEW m, NEW stack, NEW r, NEW b, NEW d, NEW new
  PROVE  /\ NodesGet(place, old, <<>>, n, m, stack, r, b, d, new)
         /\ FunctionsGet(old, <<>>, n, m, stack, r, b, d, new)
<1>1. \A i \in 1 .. Len(<<>>) : FALSE
  OBVIOUS
<1> QED BY <1>1 DEF NodesGet, FunctionsGet

LEMMA NoNodesFact ==
  ASSUME IInv, NEW ls, NEW es, NEW ty, Commit(<<>>, ls, es, ty)
  PROVE  nodes' = nodes /\ functions' = functions
<1>1. nodes \o <<>> = nodes
  BY CallsFact, ConcatEmptySeq
<1> QED BY <1>1 DEF Commit

\* A step that calls: the frames are above what they wait for.
LEMMA CallTree ==
  ASSUME IInv, TreesInv, calls # <<>>, NEW F, NEW u \in Seq(F), Call(u), u # <<>>,
         nodes' = nodes, functions' = functions, u[1].at \notin Waiting,
         \A i \in 1 .. Len(u) : FrameUses(u[i]) = {}
  PROVE  TreesInv'
<1>1. PICK ns2, arena2, fs2, stack2, r2 :
        nodes' = ns2 /\ temp' = arena2 /\ functions' = fs2 /\ calls' = stack2 /\ result' = r2
  OBVIOUS
<1>2. Become(u) /\ ns2 = nodes /\ arena2 = temp /\ fs2 = functions
  BY <1>1 DEF Call
<1>3. PICK n, m : n = Len(nodes) /\ m = n + Len(<<>>)
  OBVIOUS
<1>4. Joined(nodes, <<>>, ns2) /\ Joined(temp, <<>>, arena2) /\ Joined(functions, <<>>, fs2)
  BY <1>2, CallsFact, NothingJoins
<1>5. FramesGet(u, n, m, calls, result, Result, Result, Result)
  BY DEF FramesGet
<1>6. stack2[1] = u[1]
  <2>1. Len(u) >= 1
    OBVIOUS
  <2> QED BY <1>1, <1>2, <2>1, CallsFact, BecameTop DEF Become
<1>7. ResultGets(stack2, r2, n, m, calls, result, Result, Result, Result)
  BY <1>6 DEF ResultGets
<1> QED BY <1>1, <1>2, <1>3, <1>4, <1>5, <1>7, NothingMoves, TreeStep

\* A step that returns a node with only the operands of the top frame.
LEMMA ReturnTree ==
  ASSUME IInv, TreesInv, calls # <<>>, NEW kind, NEW type, NEW data, Return(kind, type, data),
         nodes' = nodes, functions' = functions, temp' = temp,
         Children(Node(kind, type, data, Top.id)) \subseteq FrameUses(Top)
  PROVE  TreesInv'
<1>1. PICK ns2, arena2, fs2, stack2, r2 :
        nodes' = ns2 /\ temp' = arena2 /\ functions' = fs2 /\ calls' = stack2 /\ result' = r2
  OBVIOUS
<1>2. Become(<<>>) /\ ns2 = nodes /\ arena2 = temp /\ fs2 = functions
      /\ r2 = Node(kind, type, data, Top.id)
  BY <1>1 DEF Return
<1>3. PICK n, m : n = Len(nodes) /\ m = n + Len(<<>>)
  OBVIOUS
<1>4. Joined(nodes, <<>>, ns2) /\ Joined(temp, <<>>, arena2) /\ Joined(functions, <<>>, fs2)
  BY <1>2, CallsFact, NothingJoins
<1>5. FramesGet(<<>>, n, m, calls, result, Result, Result, Result)
  BY DEF FramesGet
<1>6. ResultGets(stack2, r2, n, m, calls, result, Result, Result, Result)
  BY <1>2 DEF ResultGets, Gets, Top
<1>7. <<>> \in Seq({})
  OBVIOUS
<1> QED BY <1>1, <1>2, <1>3, <1>4, <1>5, <1>6, <1>7, NothingMoves, TreeStep

LEMMA Childless ==
  ASSUME NEW kind \in {"int_literal", "variable", "missing"}, NEW type, NEW data, NEW at
  PROVE  Children(Node(kind, type, data, at)) = {}
BY DEF Children, Node

LEMMA MissingTree ==
  ASSUME IInv, TreesInv, calls # <<>>, NEW es, ReturnMissing(es)
  PROVE  TreesInv'
<1>1. PICK w : w = WithType(types, Void)
  OBVIOUS
<1>2. Commit(<<>>, <<>>, es, w) /\ Return("missing", w.index, <<>>) /\ temp' = temp
  BY <1>1 DEF ReturnMissing, ReturnVoid
<1>3. Children(Node("missing", w.index, <<>>, Top.id)) = {}
  BY Childless
<1> QED BY <1>2, <1>3, NoNodesFact, ReturnTree

LEMMA TooLongTree == ASSUME TreesInv, MessageTooLong PROVE TreesInv'
BY DEF MessageTooLong, TreesInv, hir

LEMMA MistypedTree ==
  ASSUME IInv, TreesInv, calls # <<>>, NEW what, NEW at, NEW text, NEW shown,
         ReturnMistyped(what, at, text, shown)
  PROVE  TreesInv'
<1>1. ReturnMissing(Problem(what, at)) \/ MessageTooLong
  BY DEF ReturnMistyped
<1> QED BY <1>1, MissingTree, TooLongTree

\* The frames of a call.
IsCall(u, f) ==
  /\ u \in Seq({u[1], u[2]}) /\ Len(u) = 2 /\ u[2] = f
  /\ u[1].at = "lower" /\ FrameUses(u[1]) = {}

LEMMA CallUses ==
  ASSUME NEW id, NEW reads, NEW f
  PROVE  IsCall(LowerCall(id, reads) \o <<f>>, f)
<1> DEFINE u == LowerCall(id, reads) \o <<f>>
<1>1. PICK g : g = [at |-> "lower", id |-> id, reads |-> reads]
  OBVIOUS
<1>2. u = <<g>> \o <<f>> /\ g.at = "lower"
  BY <1>1 DEF LowerCall
<1>3. <<g>> \in Seq({g, f}) /\ <<f>> \in Seq({g, f}) /\ Len(<<g>>) = 1 /\ Len(<<f>>) = 1
      /\ <<g>>[1] = g /\ <<f>>[1] = f
  OBVIOUS
<1>4. u \in Seq({g, f}) /\ Len(u) = 2 /\ u[1] = g /\ u[2] = f
  <2>1. PICK s, t : s = <<g>> /\ t = <<f>>
    OBVIOUS
  <2>2. /\ s \in Seq({g, f}) /\ t \in Seq({g, f}) /\ Len(s) = 1 /\ Len(t) = 1
        /\ s[1] = g /\ t[1] = f
    BY <1>3, <2>1
  <2>3. /\ s \o t \in Seq({g, f}) /\ Len(s \o t) = 2 /\ (s \o t)[1] = g /\ (s \o t)[2] = f
    BY <2>2, ConcatProperties
  <2> QED BY <1>2, <2>1, <2>3
<1> QED BY <1>2, <1>4 DEF FrameUses, IsCall

LEMMA LowerCallTree ==
  ASSUME IInv, TreesInv, calls # <<>>, NEW id, NEW reads, NEW f,
         Call(LowerCall(id, reads) \o <<f>>), nodes' = nodes, functions' = functions,
         FrameUses(f) = {}
  PROVE  TreesInv'
<1>1. PICK u : u = LowerCall(id, reads) \o <<f>>
  OBVIOUS
<1>2. IsCall(u, f)
  BY <1>1, CallUses
<1>4. /\ u \in Seq({u[1], u[2]}) /\ u # <<>> /\ Len(u) = 2
      /\ u[1].at \notin Waiting /\ FrameUses(u[1]) = {} /\ u[2] = f
  <2>1. u \in Seq({u[1], u[2]}) /\ Len(u) = 2 /\ u[1].at = "lower" /\ FrameUses(u[1]) = {} /\ u[2] = f
    BY <1>2 DEF IsCall
  <2>2. Len(<<>>) = 0 /\ 2 # 0
    OBVIOUS
  <2>3. u # <<>>
    BY <2>1, <2>2, Zenon
  <2> QED BY <2>1, <2>3 DEF Waiting
<1>3. \A i \in 1 .. Len(u) : FrameUses(u[i]) = {}
  <2>1. \A i \in 1 .. Len(u) : i = 1 \/ i = 2
    BY <1>4
  <2> QED BY <1>4, <2>1
<1> QED BY <1>1, <1>3, <1>4, CallTree

LEMMA StayTree == ASSUME IInv, Stay PROVE nodes' = nodes /\ functions' = functions
BY NoNodesFact DEF Stay

LEMMA LeafTrees ==
  ASSUME IInv, TreesInv, LowerMissing \/ LowerLiteral \/ LowerVariable \/ UndefinedVariable
  PROVE  TreesInv'
<1>1. CASE LowerMissing
  BY <1>1, MissingTree, LoweringFact DEF LowerMissing
<1>2. CASE LowerLiteral
  <2>1. PICK w, data : w = WithType(types, I64) /\ data = Data(Top.id)
    OBVIOUS
  <2>2. /\ Lowering({"int_literal"}) /\ Commit(<<>>, <<>>, <<>>, w)
        /\ Return("int_literal", w.index, data) /\ temp' = temp
    BY <1>2, <2>1 DEF LowerLiteral
  <2>3. calls # <<>> /\ nodes' = nodes /\ functions' = functions
    BY <2>2, LoweringFact, NoNodesFact
  <2>4. Children(Node("int_literal", w.index, data, Top.id)) = {}
    BY Childless
  <2> QED BY <2>2, <2>3, <2>4, ReturnTree
<1>3. CASE LowerVariable
  <2>1. PICK type, data, r :
          /\ Lowering({"variable"}) /\ Stay /\ Become(<<>>) /\ temp' = temp
          /\ r = Node("variable", type, data, Top.id) /\ result' = r
    BY <1>3 DEF LowerVariable
  <2>2. calls # <<>> /\ nodes' = nodes /\ functions' = functions
    BY <2>1, LoweringFact, StayTree
  <2>3. Children(r) = {}
    BY <2>1, Childless
  <2>4. PICK ns2, arena2, fs2, stack2 :
          ns2 = nodes' /\ arena2 = temp' /\ fs2 = functions' /\ calls' = stack2
    OBVIOUS
  <2>5. PICK n, m : n = Len(nodes) /\ m = n + Len(<<>>)
    OBVIOUS
  <2>6. Joined(nodes, <<>>, ns2) /\ Joined(temp, <<>>, arena2) /\ Joined(functions, <<>>, fs2)
    BY <2>1, <2>2, <2>4, CallsFact, NothingJoins
  <2>7. FramesGet(<<>>, n, m, calls, result, Result, Result, Result)
    BY DEF FramesGet
  <2>8. ResultGets(stack2, r, n, m, calls, result, Result, Result, Result)
    BY <2>3 DEF ResultGets
  <2>9. <<>> \in Seq({})
    OBVIOUS
  <2> QED BY <2>1, <2>2, <2>4, <2>5, <2>6, <2>7, <2>8, <2>9, NothingMoves, TreeStep
<1>4. CASE UndefinedVariable
  BY <1>4, MissingTree, LoweringFact DEF UndefinedVariable
<1> QED BY <1>1, <1>2, <1>3, <1>4

LEMMA NoOperands ==
  ASSUME NEW id
  PROVE  FrameUses([at |-> "operands", id |-> id, done |-> <<>>]) = {}
BY DEF FrameUses

LEMMA BeginTrees ==
  ASSUME IInv, TreesInv, BeginOperands \/ BeginControlFlow \/ BeginDefinition \/ BeginAssign
  PROVE  TreesInv'
<1>1. ASSUME calls # <<>>, Call(LowerOperands(Top.id, <<>>)),
             nodes' = nodes, functions' = functions
      PROVE  TreesInv'
  <2>1. PICK f, id : f = [at |-> "operands", id |-> Top.id, done |-> <<>>]
                     /\ id = Operands(Top.id)[Len(<<>>) + 1]
    OBVIOUS
  <2>2. Call(LowerCall(id, TRUE) \o <<f>>)
    BY <1>1, <2>1 DEF LowerOperands
  <2>3. FrameUses(f) = {}
    BY <2>1, NoOperands
  <2> QED BY <1>1, <2>2, <2>3, LowerCallTree
<1>2. CASE BeginOperands
  <2>1. calls # <<>> /\ Stay /\ Call(LowerOperands(Top.id, <<>>))
    BY <1>2 DEF BeginOperands, Lowering, At
  <2> QED BY <1>1, <2>1, StayTree
<1>3. CASE BeginControlFlow
  <2>1. PICK w : w = WithType(types, Void)
    OBVIOUS
  <2>2. calls # <<>> /\ Commit(<<>>, <<>>, <<>>, w) /\ Call(LowerOperands(Top.id, <<>>))
    BY <1>3, <2>1 DEF BeginControlFlow, Lowering, At
  <2> QED BY <1>1, <2>2, NoNodesFact
<1>4. CASE BeginDefinition
  <2>1. calls # <<>> /\ Stay /\ Call(LowerOperands(Top.id, <<>>))
    BY <1>4 DEF BeginDefinition, Lowering, At
  <2> QED BY <1>1, <2>1, StayTree
<1>5. CASE BeginAssign
  <2>1. PICK f, id : f = [at |-> "assign_lhs", id |-> Top.id]
                     /\ id = Expression(Data(Top.id)[1])
    OBVIOUS
  <2>2. calls # <<>> /\ Stay /\ Call(LowerCall(id, FALSE) \o <<f>>)
    BY <1>5, <2>1 DEF BeginAssign, Lowering, At
  <2>3. FrameUses(f) = {}
    BY <2>1 DEF FrameUses
  <2> QED BY <2>2, <2>3, StayTree, LowerCallTree
<1> QED BY <1>2, <1>3, <1>4, <1>5

\* The result becomes a node, which the frame then refers to.
LEMMA AllocateOperandTree == ASSUME IInv, TreesInv, AllocateOperand PROVE TreesInv'
<1>1. calls # <<>> /\ Top.at = "operands"
  BY DEF AllocateOperand, At
<1>2. PICK n \in Nat : n = Len(nodes)
  BY CallsFact
<1>3. PICK done, m : done = Append(Top.done, n + 1) /\ m = n + 1
  OBVIOUS
<1>4. PICK f, last : /\ f = [at |-> "operands", id |-> Top.id, done |-> done]
                     /\ last = [at |-> "finish", id |-> Top.id, done |-> done]
  OBVIOUS
<1>5. PICK id : id = Operands(Top.id)[Len(done) + 1]
  OBVIOUS
<1>6. /\ Commit(<<result>>, <<>>, <<>>, SameTypes)
      /\ \/ Call(LowerCall(id, TRUE) \o <<f>>)
         \/ Call(<<last>>)
  BY <1>2, <1>3, <1>4, <1>5 DEF AllocateOperand, LowerOperands
<1>7. PICK ns2, arena2, fs2, stack2, r2 :
        nodes' = ns2 /\ temp' = arena2 /\ functions' = fs2 /\ calls' = stack2 /\ result' = r2
  OBVIOUS
<1>8. /\ Top.done \in Seq(1 .. n) /\ Top.at \in Waiting
      /\ FrameUses(Top) = {Top.done[i] : i \in 1 .. Len(Top.done)}
  BY <1>1, <1>2, TopFact DEF FrameUses, Waiting
<1>9. FrameUses(f) = FrameUses(Top) \cup {m} /\ FrameUses(last) = FrameUses(Top) \cup {m}
  <2>1. PICK old, k : old = Top.done /\ k = Len(old) /\ old \in Seq(Nat) /\ k \in Nat
    <3>1. \A S, T : S \subseteq T => Seq(S) \subseteq Seq(T)
      OBVIOUS
    <3>2. Top.done \in Seq(Nat)
      BY <1>8, <3>1
    <3>3. Len(Top.done) \in Nat
      BY <3>2
    <3> QED BY <3>2, <3>3
  <2>2. done = Append(old, m) /\ m \in Nat
    BY <1>2, <1>3, <2>1
  <2>3. Len(done) = k + 1 /\ done[k + 1] = m /\ \A i \in 1 .. k : done[i] = old[i]
    BY <2>1, <2>2
  <2>4. {done[i] : i \in 1 .. k + 1} = {old[i] : i \in 1 .. k} \cup {m}
    <3>1. \A i \in 1 .. k + 1 : i \in 1 .. k \/ i = k + 1
      BY <2>1
    <3>2. 1 .. k \subseteq 1 .. k + 1 /\ k + 1 \in 1 .. k + 1
      BY <2>1
    <3> QED BY <2>3, <3>1, <3>2
  <2>5. f.at = "operands" /\ f.done = done /\ last.at = "finish" /\ last.done = done
    BY <1>4
  <2>6. FrameUses(Top) = {old[i] : i \in 1 .. k}
    BY <1>8, <2>1
  <2>7. FrameUses(f) = {done[i] : i \in 1 .. k + 1} /\ FrameUses(last) = {done[i] : i \in 1 .. k + 1}
    BY <2>3, <2>5 DEF FrameUses
  <2> QED BY <2>4, <2>6, <2>7
<1>10. PICK b : b = <<"node", n + 1>>
  OBVIOUS
<1> DEFINE Place == TopFrame(calls)
<1>11. \A x \in FrameUses(Top) \cup {m} : Gets(x, Place, n, m, calls, result, b, Place, Place)
  <2>1. m \in n + 1 .. m
    BY <1>2, <1>3
  <2> QED BY <2>1 DEF Gets, Top
<1>12. /\ Joined(nodes, <<result>>, ns2) /\ Joined(temp, <<>>, arena2)
       /\ Joined(functions, <<>>, fs2) /\ Len(<<result>>) = 1
  <2>1. ns2 = nodes \o <<result>> /\ fs2 = functions /\ arena2 = temp
    BY <1>6, <1>7 DEF Commit, Call
  <2>2. <<result>> \in Seq({result}) /\ Len(<<result>>) = 1
    OBVIOUS
  <2> QED BY <2>1, <2>2, CallsFact, ConcatJoins, NothingJoins
<1>13. NodesGet("node", n, <<result>>, n, m, calls, result, b, Place, Place)
  <2>1. ASSUME NEW i \in 1 .. Len(<<result>>), NEW x \in Children(<<result>>[i])
        PROVE  Gets(x, <<"node", n + i>>, n, m, calls, result, b, Place, Place)
    <3>1. i = 1 /\ x \in Children(result)
      OBVIOUS
    <3> QED BY <1>8, <1>10, <3>1 DEF Gets, Top
  <2> QED BY <2>1 DEF NodesGet
<1>14. ASSUME NEW F, NEW u \in Seq(F), Become(u), stack2[1].at \notin Waiting,
              FramesGet(u, n, m, calls, result, b, Place, Place)
       PROVE  TreesInv'
  <2>1. ResultGets(stack2, r2, n, m, calls, result, b, Place, Place)
    BY <1>14 DEF ResultGets
  <2>2. m = n + Len(<<result>>)
    BY <1>3, <1>12
  <2> QED BY <1>1, <1>2, <1>7, <1>12, <1>13, <1>14, <2>1, <2>2, NothingMoves, TreeStep
<1>15. CASE Call(LowerCall(id, TRUE) \o <<f>>)
  <2>1. PICK u : u = LowerCall(id, TRUE) \o <<f>>
    OBVIOUS
  <2>6. IsCall(u, f)
    BY <2>1, CallUses
  <2>2. /\ u \in Seq({u[1], u[2]}) /\ Len(u) = 2
        /\ u[1].at \notin Waiting /\ FrameUses(u[1]) = {} /\ u[2] = f
    BY <2>6 DEF IsCall, Waiting
  <2>3. Become(u)
    BY <1>15, <2>1 DEF Call
  <2>4. FramesGet(u, n, m, calls, result, b, Place, Place)
    <3>1. \A i \in 1 .. Len(u) : i = 1 \/ i = 2
      BY <2>2
    <3> QED BY <1>9, <1>11, <2>2, <3>1 DEF FramesGet
  <2>5. stack2[1] = u[1]
    BY <1>1, <1>7, <2>2, <2>3, StackTop
  <2> QED BY <1>14, <2>2, <2>3, <2>4, <2>5
<1>16. CASE Call(<<last>>)
  <2>1. PICK u : u = <<last>>
    OBVIOUS
  <2>2. u \in Seq({last}) /\ Len(u) = 1 /\ u[1] = last
    BY <2>1
  <2>3. Become(u)
    BY <1>16, <2>1 DEF Call
  <2>4. FramesGet(u, n, m, calls, result, b, Place, Place)
    <3>1. \A i \in 1 .. Len(u) : i = 1
      BY <2>2
    <3> QED BY <1>9, <1>11, <2>2, <3>1 DEF FramesGet
  <2>5. stack2[1] = u[1]
    BY <1>1, <1>7, <2>2, <2>3, StackTop
  <2>6. stack2[1].at \notin Waiting
    BY <1>4, <2>2, <2>5 DEF Waiting
  <2> QED BY <1>14, <2>2, <2>3, <2>4, <2>6
<1> QED BY <1>6, <1>15, <1>16

\* What operations refer to are their operands.
LEMMA OperandsOf ==
  ASSUME IInv, NEW kinds, Finishing(kinds), NEW kind, kind \notin {"block", "array_literal"},
         NEW type, NEW at
  PROVE  Children(Node(kind, type, Top.done, at)) \subseteq FrameUses(Top)
<1>1. Top.at = "finish" /\ Top.done \in Seq(1 .. Len(nodes))
  BY FinishingFact
<1>2. PICK done : done = Top.done
  OBVIOUS
<1>3. DOMAIN done = 1 .. Len(done)
  BY <1>1, <1>2
<1>4. FrameUses(Top) = {done[i] : i \in 1 .. Len(done)}
  BY <1>1, <1>2 DEF FrameUses
<1>5. PICK node : node = Node(kind, type, done, at)
  OBVIOUS
<1>6. node.kind = kind /\ node.data = done
  BY <1>5 DEF Node
<1>7. Children(node) \subseteq {done[i] : i \in DOMAIN done}
  BY <1>6 DEF Children
<1> QED BY <1>2, <1>3, <1>4, <1>5, <1>7

\* An operation is done: the result refers to the operands in place of the frame.
LEMMA FinishTree ==
  ASSUME IInv, TreesInv, NEW kinds, Finishing(kinds), NEW kind, NEW type, NEW data,
         kind \notin {"block", "array_literal"}, Return(kind, type, data),
         data = Top.done \/ (Len(Top.done) = 2 /\ data = Append(Top.done, NoNode)),
         nodes' = nodes, functions' = functions, temp' = temp
  PROVE  TreesInv'
<1>1. calls # <<>> /\ Top.at = "finish" /\ Top.done \in Seq(Int)
  BY FinishingFact
<1>2. CASE data = Top.done
  BY <1>1, <1>2, OperandsOf, ReturnTree
<1>3. CASE Len(Top.done) = 2 /\ data = Append(Top.done, NoNode)
  <2>1. PICK done, no : done = Top.done /\ no = NoNode
    OBVIOUS
  <2>2. done \in Seq(Int) /\ Len(done) = 2 /\ no \in Int
    BY <1>1, <1>3, <2>1 DEF NoNode
  <2>3. DOMAIN Append(done, no) = 1 .. 3 /\ Append(done, no)[1] = done[1]
        /\ Append(done, no)[2] = done[2] /\ Append(done, no)[3] = no
    <3>1. PICK t, k : t = Append(done, no) /\ k = Len(done)
      OBVIOUS
    <3>2. k = 2 /\ k \in Nat
      BY <2>2, <3>1
    <3>3. t \in Seq(Int) /\ Len(t) = k + 1 /\ t[k + 1] = no /\ \A i \in 1 .. k : t[i] = done[i]
      <4>1. done \in Seq(Int) /\ no \in Int
        BY <2>2
      <4>2. t \in Seq(Int)
        BY <3>1, <4>1
      <4>3. Len(t) = k + 1
        BY <3>1, <4>1
      <4>4. t[k + 1] = no
        BY <3>1, <4>1
      <4>5. \A i \in 1 .. k : t[i] = done[i]
        BY <3>1, <4>1
      <4> QED BY <4>2, <4>3, <4>4, <4>5
    <3>4. t \in Seq(Int) /\ Len(t) = 3 /\ t[3] = no /\ t[1] = done[1] /\ t[2] = done[2]
      BY <3>2, <3>3
    <3> QED BY <3>1, <3>4
  <2>4. PICK node : node = Node(kind, type, data, Top.id)
    OBVIOUS
  <2>5. node.kind = kind /\ node.data = Append(done, no)
    BY <1>3, <2>1, <2>4 DEF Node
  <2>6. Children(node) \subseteq {Append(done, no)[i] : i \in DOMAIN Append(done, no)} \ {no}
    BY <2>1, <2>5 DEF Children
  <2>7. \A i \in 1 .. 3 : i = 1 \/ i = 2 \/ i = 3
    OBVIOUS
  <2>8. Children(node) \subseteq {done[1], done[2]}
    BY <2>3, <2>6, <2>7
  <2>9. {done[1], done[2]} \subseteq FrameUses(Top)
    <3>1. 1 \in 1 .. Len(done) /\ 2 \in 1 .. Len(done)
      BY <2>2
    <3>2. FrameUses(Top) = {done[i] : i \in 1 .. Len(done)}
      BY <1>1, <2>1 DEF FrameUses
    <3> QED BY <3>1, <3>2
  <2> QED BY <1>1, <2>4, <2>8, <2>9, ReturnTree
<1> QED BY <1>2, <1>3

LEMMA FinishTrees ==
  ASSUME IInv, TreesInv,
         \/ FinishBinaryOperation \/ FinishAddressOf \/ FinishDereference \/ FinishIndex
         \/ FinishControlFlow
  PROVE  TreesInv'
<1>1. CASE FinishBinaryOperation
  <2>1. PICK k, type : k = Kind(Top.id) /\ type = Operand(1).type
    OBVIOUS
  <2>2. Finishing(BinaryOperators) /\ Stay /\ Return(k, type, Top.done) /\ temp' = temp
    BY <1>1, <2>1 DEF FinishBinaryOperation
  <2>3. k \notin {"block", "array_literal"}
    BY <2>1, <2>2 DEF Finishing, BinaryOperators
  <2> QED BY <2>2, <2>3, StayTree, FinishTree
<1>2. CASE FinishAddressOf
  <2>1. PICK w : w = WithType(types, Pointer(Operand(1).type))
    OBVIOUS
  <2>2. /\ Finishing({"address_of"}) /\ Commit(<<>>, <<>>, <<>>, w)
        /\ Return("address_of", w.index, Top.done) /\ temp' = temp
    BY <1>2, <2>1 DEF FinishAddressOf
  <2> QED BY <2>2, NoNodesFact, FinishTree
<1>3. CASE FinishDereference
  <2>1. PICK type : type = OperandType(1).child
    OBVIOUS
  <2>2. Finishing({"dereference"}) /\ Stay /\ Return("dereference", type, Top.done) /\ temp' = temp
    BY <1>3, <2>1 DEF FinishDereference
  <2> QED BY <2>2, StayTree, FinishTree
<1>4. CASE FinishIndex
  <2>1. PICK type : type = OperandType(1).child
    OBVIOUS
  <2>2. Finishing({"index"}) /\ Stay /\ Return("index", type, Top.done) /\ temp' = temp
    BY <1>4, <2>1 DEF FinishIndex
  <2> QED BY <2>2, StayTree, FinishTree
<1>5. CASE FinishControlFlow
  <2>1. PICK k, w, data :
          /\ k = Kind(Top.id) /\ w = WithType(types, Void)
          /\ data = IF k = "if" /\ Len(Top.done) = 2 THEN Append(Top.done, NoNode) ELSE Top.done
    OBVIOUS
  <2>2. Finishing(ControlFlow) /\ Stay /\ Return(k, w.index, data) /\ temp' = temp
    BY <1>5, <2>1 DEF FinishControlFlow, ControlFlow
  <2>3. k \notin {"block", "array_literal"}
    BY <2>1, <2>2 DEF Finishing, ControlFlow
  <2>4. data = Top.done \/ (Len(Top.done) = 2 /\ data = Append(Top.done, NoNode))
    BY <2>1
  <2> QED BY <2>2, <2>3, <2>4, StayTree, FinishTree
<1> QED BY <1>1, <1>2, <1>3, <1>4, <1>5

LEMMA MistypedTrees ==
  ASSUME IInv, TreesInv,
         \/ DereferenceOfNonPointer \/ IndexIsNotAnInteger \/ IndexOfNonArray
         \/ MismatchedAssign \/ ShadowingDefinition
  PROVE  TreesInv'
<1>1. CASE DereferenceOfNonPointer
  BY <1>1, MistypedTree DEF DereferenceOfNonPointer, Finishing, At
<1>2. CASE IndexIsNotAnInteger
  BY <1>2, MistypedTree DEF IndexIsNotAnInteger, Finishing, At
<1>3. CASE IndexOfNonArray
  BY <1>3, MistypedTree DEF IndexOfNonArray, Finishing, At
<1>4. CASE MismatchedAssign
  BY <1>4, MistypedTree DEF MismatchedAssign, At
<1>5. CASE ShadowingDefinition
  BY <1>5, MissingTree DEF ShadowingDefinition, Lowering, At
<1> QED BY <1>1, <1>2, <1>3, <1>4, <1>5
------------------------------------------------------------------------------
(* Builders.                                                               *)

LEMMA BuilderUses ==
  ASSUME NEW at \in {"array", "element", "block", "block_statement"},
         NEW id, NEW base, NEW count, NEW child
  PROVE  LET f == BuilderFrame(at, id, base, count, child)
         IN  f.at = at /\ FrameUses(f) = {}
BY DEF BuilderFrame, FrameUses

LEMMA BeginBuilderTrees ==
  ASSUME IInv, TreesInv, BeginArray \/ BeginBlock \/ BeginElement \/ BeginBlockStatement
  PROVE  TreesInv'
<1>1. ASSUME calls # <<>>, NEW at \in {"array", "block"}, NEW child,
             Call(<<BuilderFrame(at, Top.id, Len(temp), 0, child)>>),
             nodes' = nodes, functions' = functions
      PROVE  TreesInv'
  <2>1. PICK f, u : f = BuilderFrame(at, Top.id, Len(temp), 0, child) /\ u = <<f>>
    OBVIOUS
  <2>2. f.at = at /\ FrameUses(f) = {}
    BY <2>1, BuilderUses
  <2>3. u \in Seq({f}) /\ u # <<>> /\ u[1] = f /\ \A i \in 1 .. Len(u) : u[i] = f
    BY <2>1
  <2>4. u[1].at \notin Waiting
    BY <2>2, <2>3 DEF Waiting
  <2> QED BY <1>1, <2>1, <2>2, <2>3, <2>4, CallTree
<1>2. ASSUME calls # <<>>, Top.at \in {"array", "block"}, NEW at \in {"element", "block_statement"},
             NEW id, Call(LowerCall(id, TRUE) \o <<[Top EXCEPT !.at = at]>>), Stay
      PROVE  TreesInv'
  <2>1. PICK f : f = BuilderFrame(at, Top.id, Top.base, Top.count, Top.child)
    OBVIOUS
  <2>2. Top = BuilderFrame(Top.at, Top.id, Top.base, Top.count, Top.child)
    BY <1>2, BuilderTop
  <2>3. [Top EXCEPT !.at = at] = f
    BY <2>1, <2>2 DEF BuilderFrame
  <2>4. FrameUses(f) = {}
    BY <2>1, BuilderUses
  <2> QED BY <1>2, <2>3, <2>4, StayTree, LowerCallTree
<1>3. CASE BeginArray
  <2>1. PICK w : w = WithType(types, Void)
    OBVIOUS
  <2>2. /\ calls # <<>> /\ Commit(<<>>, <<>>, <<>>, w)
        /\ Call(<<[Builder("array") EXCEPT !.child = w.index]>>)
    BY <1>3, <2>1 DEF BeginArray, Lowering, At
  <2>3. [Builder("array") EXCEPT !.child = w.index] =
          BuilderFrame("array", Top.id, Len(temp), 0, w.index)
    BY DEF Builder, BuilderFrame
  <2> QED BY <1>1, <2>2, <2>3, NoNodesFact
<1>4. CASE BeginBlock
  <2>1. calls # <<>> /\ Stay /\ Call(<<Builder("block")>>)
    BY <1>4 DEF BeginBlock, Lowering, At
  <2>2. Builder("block") = BuilderFrame("block", Top.id, Len(temp), 0, 0)
    BY DEF Builder, BuilderFrame
  <2> QED BY <1>1, <2>1, <2>2, StayTree
<1>5. CASE BeginElement
  BY <1>2, <1>5 DEF BeginElement, At
<1>6. CASE BeginBlockStatement
  BY <1>2, <1>6 DEF BeginBlockStatement, At
<1> QED BY <1>3, <1>4, <1>5, <1>6

\* The arena owns what a node refers to that is pushed.
LEMMA PushTree ==
  ASSUME IInv, TreesInv, calls # <<>>, Top.at \in Waiting, FrameUses(Top) = {},
         NEW f, Become(<<f>>), f.at \notin Waiting, FrameUses(f) = {},
         nodes' = nodes, functions' = functions,
         NEW e, Children(e) \subseteq Children(result), temp' = Append(temp, e)
  PROVE  TreesInv'
<1>1. PICK ns2, arena2, fs2, stack2, r2 :
        nodes' = ns2 /\ temp' = arena2 /\ functions' = fs2 /\ calls' = stack2 /\ result' = r2
  OBVIOUS
<1>2. PICK n, m, b, size :
        n = Len(nodes) /\ m = n + Len(<<>>) /\ size = Len(temp) /\ b = <<"temp", size + 1>>
  OBVIOUS
<1>3. Joined(nodes, <<>>, ns2) /\ Joined(functions, <<>>, fs2)
  BY <1>1, CallsFact, NothingJoins
<1>4. Joined(temp, <<e>>, arena2)
  <2>1. IsSequence(temp)
    BY CallsFact, SequenceOf
  <2> QED BY <1>1, <2>1, AppendJoins
<1>5. NodesGet("temp", size, <<e>>, n, m, calls, result, b, Result, Result)
  <2>1. ASSUME NEW i \in 1 .. Len(<<e>>), NEW x \in Children(<<e>>[i])
        PROVE  Gets(x, <<"temp", size + i>>, n, m, calls, result, b, Result, Result)
    <3>1. i = 1 /\ x \in Children(result)
      OBVIOUS
    <3> QED BY <1>2, <3>1 DEF Gets, Top
  <2> QED BY <2>1 DEF NodesGet
<1>6. PICK u : u = <<f>>
  OBVIOUS
<1>7. u \in Seq({f}) /\ Len(u) = 1 /\ u[1] = f
  BY <1>6
<1>8. FramesGet(u, n, m, calls, result, b, Result, Result)
  <2>1. \A i \in 1 .. Len(u) : i = 1
    BY <1>7
  <2> QED BY <1>7, <2>1 DEF FramesGet
<1>11. Become(u)
  BY <1>6
<1>9. stack2[1] = f
  BY <1>1, <1>7, <1>11, StackTop
<1>10. ResultGets(stack2, r2, n, m, calls, result, b, Result, Result)
  BY <1>9 DEF ResultGets
<1> QED BY <1>1, <1>2, <1>3, <1>4, <1>5, <1>6, <1>7, <1>8, <1>10, NothingMoves, TreeStep

LEMMA EndElementTrees ==
  ASSUME IInv, TreesInv, EndElement \/ MistypedElement \/ EndBlockStatement
  PROVE  TreesInv'
<1>1. ASSUME calls # <<>>, Top.at \in {"element", "block_statement"}, NEW child,
             NEW at \in {"array", "block"},
             Become(<<BuilderFrame(at, Top.id, Top.base, Top.count + 1, child)>>),
             nodes' = nodes, functions' = functions,
             NEW e, Children(e) \subseteq Children(result), temp' = Append(temp, e)
      PROVE  TreesInv'
  <2>1. PICK f : f = BuilderFrame(at, Top.id, Top.base, Top.count + 1, child)
    OBVIOUS
  <2>2. f.at \notin Waiting /\ FrameUses(f) = {}
    BY <2>1, BuilderUses DEF Waiting
  <2>3. Top.at \in Waiting /\ FrameUses(Top) = {}
    BY <1>1 DEF Waiting, FrameUses
  <2> QED BY <1>1, <2>1, <2>2, <2>3, PushTree
<1>2. CASE EndElement
  <2>1. PICK child : child = IF TypeKind(Top.child) = "void" THEN result.type ELSE Top.child
    OBVIOUS
  <2>2. /\ calls # <<>> /\ Top.at = "element" /\ Stay /\ temp' = Append(temp, result)
        /\ Become(<<[Pushed("array") EXCEPT
                       !.child = IF TypeKind(@) = "void" THEN result.type ELSE @]>>)
    BY <1>2 DEF EndElement, At
  <2>3. [Pushed("array") EXCEPT !.child = IF TypeKind(@) = "void" THEN result.type ELSE @] =
          BuilderFrame("array", Top.id, Top.base, Top.count + 1, child)
    <3>1. Pushed("array") = BuilderFrame("array", Top.id, Top.base, Top.count + 1, Top.child)
      BY <2>2, BuilderTop, PushedTop
    <3> QED BY <2>1, <3>1 DEF BuilderFrame
  <2> QED BY <1>1, <2>2, <2>3, StayTree
<1>3. CASE MistypedElement
  <2>1. PICK w, n, es : /\ w = WithType(types, Void)
                        /\ n = Node("missing", w.index, <<>>, result.at)
                        /\ es = Problem("mistyped_element", result.at)
    OBVIOUS
  <2>2. /\ calls # <<>> /\ Top.at = "element"
        /\ \/ /\ Commit(<<>>, <<>>, es, w) /\ temp' = Append(temp, n)
              /\ Become(<<Pushed("array")>>)
           \/ MessageTooLong
    BY <1>3, <2>1 DEF MistypedElement, At
  <2>3. Pushed("array") = BuilderFrame("array", Top.id, Top.base, Top.count + 1, Top.child)
    BY <2>2, BuilderTop, PushedTop
  <2>4. Children(n) \subseteq Children(result)
    BY <2>1, Childless
  <2> QED BY <1>1, <2>2, <2>3, <2>4, NoNodesFact, TooLongTree
<1>4. CASE EndBlockStatement
  <2>1. /\ calls # <<>> /\ Top.at = "block_statement" /\ Stay /\ temp' = Append(temp, result)
        /\ Become(<<Pushed("block")>>)
    BY <1>4 DEF EndBlockStatement, At
  <2>2. Pushed("block") = BuilderFrame("block", Top.id, Top.base, Top.count + 1, Top.child)
    BY <2>1, BuilderTop, PushedTop
  <2> QED BY <1>1, <2>1, <2>2, StayTree
<1> QED BY <1>2, <1>3, <1>4

\* A builder ends: the arena gives its nodes to the HIR, next to each other.
LEMMA ReturnBuiltTree ==
  ASSUME IInv, TreesInv, calls # <<>>, Top.at \in {"array", "block"},
         NEW kind \in {"array_literal", "block"}, NEW type, NEW es, NEW ty,
         Commit(Built, <<>>, es, ty), Return(kind, type, <<FirstOfBuilt, Top.count>>),
         temp' = SubSeq(temp, 1, Top.base)
  PROVE  TreesInv'
<1>1. PICK ns2, arena2, stack2, r2 :
        nodes' = ns2 /\ temp' = arena2 /\ calls' = stack2 /\ result' = r2
  OBVIOUS
<1>2. PICK built : built = Built
  OBVIOUS
<1>3. PICK base \in Nat, count \in Nat : base = Top.base /\ count = Top.count
  BY BuilderTop
<1>4. base + count = Len(temp)
  BY <1>3, BuilderTop
<1>5. /\ built \in Seq(NodesOf(Now)) /\ Len(built) = count
      /\ \A i \in 1 .. count : built[i] = temp[base + i]
  BY <1>2, <1>3, BuiltFact
<1>6. Joined(nodes, built, ns2) /\ functions' = functions
  <2>1. ns2 = nodes \o built /\ functions' = functions
    BY <1>1, <1>2 DEF Commit
  <2> QED BY <1>5, <2>1, CallsFact, ConcatJoins
<1>7. Joined(arena2, built, temp)
  <2>1. arena2 = SubSeq(temp, 1, base)
    BY <1>1, <1>3
  <2>2. Len(arena2) = base /\ \A i \in 1 .. base : arena2[i] = temp[i]
    <3>1. temp \in Seq(NodesOf(Now)) /\ base <= Len(temp)
      BY <1>4, CallsFact
    <3>2. \A i \in 1 .. base : temp[i] \in NodesOf(Now)
      BY <1>4, <3>1
    <3>3. base - 1 + 1 = base /\ (1 <= base <=> base # 0) /\ \A i \in 1 .. base : 1 + i - 1 = i
      OBVIOUS
    <3> QED BY <2>1, <3>2, <3>3, SubSeqProperties
  <2> QED BY <1>4, <1>5, <2>2 DEF Joined
<1>8. Replaced(calls, stack2, <<>>)
  <2>1. stack2 = <<>> \o Tail(calls) /\ <<>> \in Seq({})
    BY <1>1 DEF Return, Become
  <2> QED BY <2>1, CallsFact, Became
<1>9. FrameUses(Top) = {} /\ Top.at \notin Waiting
  BY DEF FrameUses, Waiting
<1>10. ASSUME NEW x \in Children(r2) PROVE x \in Len(nodes) + 1 .. Len(ns2)
  <2>1. PICK first : first = FirstOfBuilt
    OBVIOUS
  <2>2. PICK data : data = <<first, count>>
    OBVIOUS
  <2>3. data[1] = first /\ data[2] = count
    BY <2>2
  <2>4. r2 = Node(kind, type, data, Top.id)
    BY <1>1, <1>3, <2>1, <2>2 DEF Return
  <2>5. r2.kind = kind /\ r2.data = data
    BY <2>4 DEF Node
  <2>6. Children(r2) = first .. first + count - 1
    BY <2>3, <2>5 DEF Children
  <2>7. PICK k \in 1 .. count : x = Len(nodes) + k
    BY <1>3, <2>1, <2>6, FirstFact
  <2>8. Len(ns2) = Len(nodes) + count /\ Len(nodes) \in Nat
    BY <1>5, <1>6 DEF Joined
  <2> QED BY <2>7, <2>8
<1>11. PICK ns, arena, stack, r, fs :
        ns = nodes /\ arena = temp /\ stack = calls /\ r = result /\ fs = functions
  OBVIOUS
<1>12. Owned(ns, arena, stack, r, fs)
  BY <1>11 DEF TreesInv
<1>13. FrameUses(stack[1]) = {} /\ stack[1].at \notin Waiting
  BY <1>9, <1>11 DEF Top
<1>14. Owned(ns2, arena2, stack2, r2, fs)
  BY <1>6, <1>7, <1>8, <1>10, <1>11, <1>12, <1>13, BuiltStep
<1> QED BY <1>1, <1>6, <1>11, <1>14 DEF TreesInv

LEMMA EndBuilderTrees ==
  ASSUME IInv, TreesInv, EndArray \/ EndBlock
  PROVE  TreesInv'
<1>1. CASE EndArray
  <2>1. PICK w, es : /\ calls # <<>> /\ Top.at = "array" /\ temp' = SubSeq(temp, 1, Top.base)
                     /\ Commit(Built, <<>>, es, w)
                     /\ Return("array_literal", w.index, <<FirstOfBuilt, Top.count>>)
    BY <1>1 DEF EndArray, At
  <2> QED BY <2>1, ReturnBuiltTree
<1>2. CASE EndBlock
  <2>1. PICK w, es : /\ calls # <<>> /\ Top.at = "block" /\ temp' = SubSeq(temp, 1, Top.base)
                     /\ Commit(Built, <<>>, es, w)
                     /\ Return("block", w.index, <<FirstOfBuilt, Top.count>>)
    BY <1>2 DEF EndBlock, At, ReturnVoid
  <2> QED BY <2>1, ReturnBuiltTree
<1> QED BY <1>1, <1>2
------------------------------------------------------------------------------
(* Assignments and functions.                                              *)

LEMMA AssignUses ==
  ASSUME NEW a \in Nat, NEW b \in Nat, NEW type, NEW at
  PROVE  Children(Node("assign", type, <<a, b>>, at)) \subseteq {a, b}
<1>1. PICK data : data = <<a, b>>
  OBVIOUS
<1>2. DOMAIN data = 1 .. 2 /\ data[1] = a /\ data[2] = b
  BY <1>1
<1>3. PICK node : node = Node("assign", type, data, at)
  OBVIOUS
<1>4. node.kind = "assign" /\ node.data = data
  BY <1>3 DEF Node
<1>5. Children(node) \subseteq {data[i] : i \in DOMAIN data}
  BY <1>4 DEF Children
<1>6. \A i \in 1 .. 2 : i = 1 \/ i = 2
  OBVIOUS
<1> QED BY <1>1, <1>2, <1>3, <1>5, <1>6

\* The node of the new variable has no owner yet but the result.
LEMMA FinishDefinitionTree == ASSUME IInv, TreesInv, FinishDefinition PROVE TreesInv'
<1>1. PICK n \in Nat : n = Len(nodes)
  BY CallsFact
<1>2. PICK m : m = n + 1
  OBVIOUS
<1>3. PICK lhs, ls, w, r2 :
        /\ Finishing({"local_definition"}) /\ Commit(<<lhs>>, ls, <<>>, w) /\ Become(<<>>)
        /\ result' = r2 /\ r2 = Node("assign", w.index, <<n + 1, Top.done[1]>>, Top.id)
        /\ Children(lhs) = {} /\ temp' = temp
  <2>1. PICK type, local, data, w :
          /\ Finishing({"local_definition"}) /\ temp' = temp
          /\ Commit(<<Node("variable", type, data, <<>>)>>, <<local>>, <<>>, w)
          /\ Return("assign", w.index, <<n + 1, Top.done[1]>>)
    BY <1>1 DEF FinishDefinition
  <2>2. Children(Node("variable", type, data, <<>>)) = {}
    BY Childless
  <2> QED BY <2>1, <2>2 DEF Return
<1>4. PICK ns2, arena2, fs2, stack2 :
        nodes' = ns2 /\ temp' = arena2 /\ functions' = fs2 /\ calls' = stack2
  OBVIOUS
<1>5. /\ Joined(nodes, <<lhs>>, ns2) /\ Joined(temp, <<>>, arena2) /\ Joined(functions, <<>>, fs2)
      /\ Len(<<lhs>>) = 1
  <2>1. ns2 = nodes \o <<lhs>> /\ fs2 = functions /\ arena2 = temp
    BY <1>3, <1>4 DEF Commit
  <2>2. <<lhs>> \in Seq({lhs}) /\ Len(<<lhs>>) = 1
    OBVIOUS
  <2> QED BY <2>1, <2>2, CallsFact, ConcatJoins, NothingJoins
<1>6. NodesGet("node", n, <<lhs>>, n, m, calls, result, Result, Result, Result)
  <2>1. \A i \in 1 .. Len(<<lhs>>) : Children(<<lhs>>[i]) = {}
    BY <1>3
  <2> QED BY <2>1 DEF NodesGet
<1>7. FramesGet(<<>>, n, m, calls, result, Result, Result, Result)
  BY DEF FramesGet
<1>8. ResultGets(stack2, r2, n, m, calls, result, Result, Result, Result)
  <2>1. PICK k : k = Top.done[1]
    OBVIOUS
  <2>2. k \in 1 .. n /\ k \in FrameUses(Top)
    <3>1. 1 \in 1 .. Len(Top.done) /\ Top.at = "finish" /\ Top.done[1] \in 1 .. n
      BY <1>1, <1>3, FinishingFact
    <3> QED BY <2>1, <3>1 DEF FrameUses
  <2>3. Children(r2) \subseteq {n + 1, k}
    <3>1. n + 1 \in Nat /\ k \in Nat
      BY <2>2
    <3> QED BY <1>3, <2>1, <3>1, AssignUses
  <2>4. n + 1 \in n + 1 .. m
    BY <1>2
  <2> QED BY <2>2, <2>3, <2>4 DEF ResultGets, Gets, Top
<1>9. <<>> \in Seq({}) /\ m = n + Len(<<lhs>>) /\ calls # <<>>
  BY <1>2, <1>3, <1>5, FinishingFact
<1> QED BY <1>1, <1>3, <1>4, <1>5, <1>6, <1>7, <1>8, <1>9, NothingMoves, TreeStep

\* The left side waits in its frame, with what it owns.
LEMMA BeginAssignedValueTree == ASSUME IInv, TreesInv, BeginAssignedValue PROVE TreesInv'
<1>1. PICK id, f : /\ id = Expression(Data(Top.id)[2])
                   /\ f = [at |-> "assign_rhs", id |-> Top.id, lhs |-> result]
  OBVIOUS
<1>2. /\ calls # <<>> /\ Top.at = "assign_lhs" /\ Stay
      /\ Call(LowerCall(id, TRUE) \o <<f>>)
  BY <1>1 DEF BeginAssignedValue, At
<1>3. PICK ns2, arena2, fs2, stack2, r2 :
        nodes' = ns2 /\ temp' = arena2 /\ functions' = fs2 /\ calls' = stack2 /\ result' = r2
  OBVIOUS
<1>4. PICK n, m, u, b : /\ n = Len(nodes) /\ m = n + Len(<<>>) /\ u = LowerCall(id, TRUE) \o <<f>>
                        /\ b = TopFrame(calls)
  OBVIOUS
<1>5. Joined(nodes, <<>>, ns2) /\ Joined(temp, <<>>, arena2) /\ Joined(functions, <<>>, fs2)
  <2>1. ns2 = nodes /\ fs2 = functions /\ arena2 = temp
    BY <1>2, <1>3, StayTree DEF Call
  <2> QED BY <2>1, CallsFact, NothingJoins
<1>6. IsCall(u, f)
  BY <1>4, CallUses
<1>7. /\ u \in Seq({u[1], u[2]}) /\ Len(u) = 2
      /\ u[1].at \notin Waiting /\ FrameUses(u[1]) = {} /\ u[2] = f
  BY <1>6 DEF IsCall, Waiting
<1>8. Become(u)
  BY <1>2, <1>4 DEF Call
<1>9. FrameUses(f) = Children(result) /\ Top.at \in Waiting
  BY <1>1, <1>2 DEF FrameUses, Waiting
<1>10. FramesGet(u, n, m, calls, result, b, Result, Result)
  <2>1. \A i \in 1 .. Len(u) : i = 1 \/ i = 2
    BY <1>7
  <2>2. \A x \in FrameUses(f) : Gets(x, TopFrame(calls), n, m, calls, result, b, Result, Result)
    BY <1>4, <1>9 DEF Gets, Top
  <2> QED BY <1>7, <2>1, <2>2 DEF FramesGet
<1>11. stack2[1] = u[1]
  BY <1>2, <1>3, <1>7, <1>8, StackTop
<1>12. ResultGets(stack2, r2, n, m, calls, result, b, Result, Result)
  BY <1>7, <1>11 DEF ResultGets
<1> QED BY <1>2, <1>3, <1>4, <1>5, <1>7, <1>8, <1>10, <1>12, NothingMoves, TreeStep

\* Both sides become nodes, which the result refers to.
LEMMA FinishAssignTree == ASSUME IInv, TreesInv, FinishAssign PROVE TreesInv'
<1>1. PICK n \in Nat : n = Len(nodes)
  BY CallsFact
<1>2. PICK m, lhs, rhs, w, r2 :
        /\ m = n + 2 /\ lhs = Top.lhs /\ rhs = result /\ w = WithType(types, Void)
        /\ r2 = Node("assign", w.index, <<n + 1, n + 2>>, Top.id)
  OBVIOUS
<1>3. /\ calls # <<>> /\ Top.at = "assign_rhs"
      /\ Commit(<<lhs, rhs>>, <<>>, <<>>, w) /\ Become(<<>>) /\ result' = r2 /\ temp' = temp
  BY <1>1, <1>2 DEF FinishAssign, At, ReturnVoid, Return
<1>4. PICK ns2, arena2, fs2, stack2, more :
        /\ nodes' = ns2 /\ temp' = arena2 /\ functions' = fs2 /\ calls' = stack2
        /\ more = <<lhs, rhs>>
  OBVIOUS
<1>5. more \in Seq({lhs, rhs}) /\ Len(more) = 2 /\ more[1] = lhs /\ more[2] = rhs
  BY <1>4
<1>6. Joined(nodes, more, ns2) /\ Joined(temp, <<>>, arena2) /\ Joined(functions, <<>>, fs2)
  <2>1. ns2 = nodes \o more /\ fs2 = functions /\ arena2 = temp
    BY <1>3, <1>4 DEF Commit
  <2> QED BY <1>5, <2>1, CallsFact, ConcatJoins, NothingJoins
<1>7. PICK b, d : b = <<"node", n + 2>> /\ d = <<"node", n + 1>>
  OBVIOUS
<1>8. FrameUses(Top) = Children(lhs) /\ Top.at \in Waiting
  BY <1>2, <1>3 DEF FrameUses, Waiting
<1>9. NodesGet("node", n, more, n, m, calls, result, b, d, Result)
  <2>1. \A i \in 1 .. Len(more) : i = 1 \/ i = 2
    BY <1>5
  <2>2. \A x \in Children(lhs) : Gets(x, <<"node", n + 1>>, n, m, calls, result, b, d, Result)
    BY <1>7, <1>8 DEF Gets, Top
  <2>3. \A x \in Children(rhs) : Gets(x, <<"node", n + 2>>, n, m, calls, result, b, d, Result)
    BY <1>2, <1>7, <1>8 DEF Gets, Top
  <2> QED BY <1>5, <2>1, <2>2, <2>3 DEF NodesGet
<1>10. FramesGet(<<>>, n, m, calls, result, b, d, Result)
  BY DEF FramesGet
<1>11. ResultGets(stack2, r2, n, m, calls, result, b, d, Result)
  <2>1. Children(r2) \subseteq {n + 1, n + 2}
    BY <1>2, AssignUses
  <2>2. n + 1 \in n + 1 .. m /\ n + 2 \in n + 1 .. m
    BY <1>2
  <2> QED BY <2>1, <2>2 DEF ResultGets, Gets
<1>12. <<>> \in Seq({}) /\ m = n + Len(more)
  BY <1>2, <1>5
<1> QED BY <1>1, <1>3, <1>4, <1>6, <1>9, <1>10, <1>11, <1>12, NothingMoves, TreeStep

\* The body becomes a node that only the function refers to.
LEMMA EndFunctionTree == ASSUME IInv, TreesInv, EndFunction PROVE TreesInv'
<1>1. PICK n \in Nat : n = Len(nodes)
  BY CallsFact
<1>2. PICK m, f, r2, k : /\ m = n + 1 /\ r2 = result /\ k = Len(functions)
                         /\ f = [name |-> ast.functions[next].name, body |-> n + 1,
                                 locals_start |-> start, locals_count |-> Len(locals) - start]
  OBVIOUS
<1>3. /\ calls # <<>> /\ Top.at = "function" /\ nodes' = Append(nodes, result)
      /\ functions' = Append(functions, f) /\ Become(<<>>) /\ temp' = temp /\ result' = r2
  BY <1>1, <1>2 DEF EndFunction, At
<1>4. PICK ns2, arena2, fs2, stack2 :
        nodes' = ns2 /\ temp' = arena2 /\ functions' = fs2 /\ calls' = stack2
  OBVIOUS
<1>5. /\ Joined(nodes, <<result>>, ns2) /\ Joined(temp, <<>>, arena2)
      /\ Joined(functions, <<f>>, fs2)
  <2>1. IsSequence(nodes)
    BY CallsFact, SequenceOf
  <2>2. arena2 = temp
    BY <1>3, <1>4
  <2> QED BY <1>3, <1>4, <2>1, <2>2, CallsFact, AppendJoins, NothingJoins
<1>6. PICK b, new : b = <<"node", n + 1>> /\ new = <<"function", k + 1>>
  OBVIOUS
<1>7. FrameUses(Top) = {} /\ Top.at \in Waiting
  BY <1>3 DEF FrameUses, Waiting
<1>8. NodesGet("node", n, <<result>>, n, m, calls, result, b, Result, new)
  <2>1. ASSUME NEW i \in 1 .. Len(<<result>>), NEW x \in Children(<<result>>[i])
        PROVE  Gets(x, <<"node", n + i>>, n, m, calls, result, b, Result, new)
    <3>1. i = 1 /\ x \in Children(result)
      OBVIOUS
    <3> QED BY <1>6, <1>7, <3>1 DEF Gets, Top
  <2> QED BY <2>1 DEF NodesGet
<1>9. FramesGet(<<>>, n, m, calls, result, b, Result, new)
  BY DEF FramesGet
<1>10. stack2 = <<>>
  <2>1. PICK s \in Seq(FramesOf(Now)) : s = calls /\ s # <<>>
    BY <1>3, CallsFact
  <2>2. 1 \in 1 .. Len(s)
    BY <2>1
  <2>3. \A i \in 1 .. Len(s) : s[i].at = "function" => i = Len(s)
    BY <2>1 DEF IInv, Pending
  <2>4. Len(s) = 1
    BY <1>3, <2>1, <2>2, <2>3 DEF Top
  <2>5. Tail(s) = <<>>
    <3>1. Tail(s) \in Seq(FramesOf(Now)) /\ Len(Tail(s)) = 0
      BY <2>1, <2>4
    <3> QED BY <3>1, EmptySeq
  <2>6. <<>> \o <<>> = <<>>
    OBVIOUS
  <2> QED BY <1>3, <1>4, <2>1, <2>5, <2>6 DEF Become
<1>11. ResultGets(stack2, r2, n, m, calls, result, b, Result, new)
  BY <1>10 DEF ResultGets
<1>12. FunctionsGet(k, <<f>>, n, m, calls, result, b, Result, new)
  <2>1. ASSUME NEW i \in 1 .. Len(<<f>>)
        PROVE  Gets(<<f>>[i].body, <<"function", k + i>>, n, m, calls, result, b, Result, new)
    <3>1. i = 1 /\ <<f>>[i] = f
      OBVIOUS
    <3>2. f.body = n + 1 /\ n + 1 \in n + 1 .. m
      BY <1>2
    <3> QED BY <1>6, <3>1, <3>2 DEF Gets
  <2> QED BY <2>1 DEF FunctionsGet
<1>13. <<>> \in Seq({}) /\ m = n + Len(<<result>>)
  BY <1>2
<1> QED BY <1>1, <1>2, <1>3, <1>4, <1>5, <1>6, <1>8, <1>9, <1>11, <1>12, <1>13, NothingMoves, TreeStep

LEMMA BeginFunctionTree == ASSUME IInv, TreesInv, BeginFunction PROVE TreesInv'
<1>1. PICK id, f, u : /\ id = Statement(ast.functions[next].body) /\ f = [at |-> "function"]
                      /\ u = LowerCall(id, TRUE) \o <<f>>
  OBVIOUS
<1>2. /\ calls' = u /\ result' = result /\ temp' = temp /\ nodes' = nodes /\ functions' = functions
  BY <1>1 DEF BeginFunction, hir
<1>3. IsCall(u, f)
  BY <1>1, CallUses
<1>4. Len(u) = 2 /\ u[1].at \notin Waiting /\ FrameUses(u[1]) = {} /\ FrameUses(u[2]) = {}
  <2>1. f.at = "function"
    BY <1>1
  <2> QED BY <1>3, <2>1 DEF IsCall, Waiting, FrameUses
<1>5. PICK ns, arena, stack, r, fs :
        ns = nodes /\ arena = temp /\ stack = calls /\ r = result /\ fs = functions
  OBVIOUS
<1>6. PICK owner : Owns(owner, ns, arena, stack, r, fs)
  BY <1>5 DEF TreesInv, Owned
<1>7. FramesOwn(owner, Len(ns), u)
  <2>1. \A i \in 1 .. Len(u) : i = 1 \/ i = 2
    BY <1>4
  <2> QED BY <1>4, <2>1 DEF FramesOwn
<1>8. ResultOwns(owner, Len(ns), u, r)
  BY <1>4 DEF ResultOwns
<1>9. Owns(owner, ns, arena, u, r, fs)
  BY <1>6, <1>7, <1>8 DEF Owns
<1> QED BY <1>2, <1>5, <1>9 DEF TreesInv, Owned
------------------------------------------------------------------------------
LEMMA InitTrees == Init => TreesInv
<1> SUFFICES ASSUME Init PROVE TreesInv
  OBVIOUS
<1>1. nodes = <<>> /\ temp = <<>> /\ calls = <<>> /\ functions = <<>>
  BY DEF Init
<1>2. \A i \in 1 .. Len(<<>>) : FALSE
  OBVIOUS
<1>3. PICK owner : owner = [x \in Nat |-> Result]
  OBVIOUS
<1>4. Owns(owner, <<>>, <<>>, <<>>, result, <<>>)
  BY <1>2 DEF Owns, NodesOwn, FramesOwn, ResultOwns, FunctionsOwn
<1> QED BY <1>1, <1>4 DEF TreesInv, Owned

LEMMA NextTrees == IInv /\ TreesInv /\ [Next]_vars => TreesInv'
<1> SUFFICES ASSUME IInv, TreesInv, [Next]_vars PROVE TreesInv'
  OBVIOUS
<1>1. CASE UNCHANGED vars
  BY <1>1 DEF vars, hir, TreesInv
<1>2. CASE SkipFunction
  BY <1>2 DEF SkipFunction, hir, TreesInv
<1>3. CASE EndLower
  BY <1>3 DEF EndLower, hir, TreesInv
<1>4. CASE BeginFunction \/ EndFunction
  BY <1>4, BeginFunctionTree, EndFunctionTree
<1>5. CASE Expressions
  <2>1. LowerMissing \/ LowerLiteral \/ LowerVariable \/ UndefinedVariable => TreesInv'
    BY LeafTrees
  <2>2. /\ BeginOperands \/ AllocateOperand => TreesInv'
        /\ FinishBinaryOperation \/ FinishAddressOf \/ FinishDereference \/ FinishIndex => TreesInv'
    BY BeginTrees, AllocateOperandTree, FinishTrees
  <2>3. DereferenceOfNonPointer \/ IndexIsNotAnInteger \/ IndexOfNonArray => TreesInv'
    BY MistypedTrees
  <2>4. BeginArray \/ BeginElement \/ EndElement \/ MistypedElement \/ EndArray => TreesInv'
    BY BeginBuilderTrees, EndElementTrees, EndBuilderTrees
  <2> QED BY <1>5, <2>1, <2>2, <2>3, <2>4 DEF Expressions
<1>6. CASE Statements
  <2>1. BeginControlFlow \/ FinishControlFlow => TreesInv'
    BY BeginTrees, FinishTrees
  <2>2. ShadowingDefinition \/ BeginDefinition \/ FinishDefinition => TreesInv'
    BY MistypedTrees, BeginTrees, FinishDefinitionTree
  <2>3. BeginAssign \/ BeginAssignedValue \/ FinishAssign \/ MismatchedAssign => TreesInv'
    BY BeginTrees, BeginAssignedValueTree, FinishAssignTree, MistypedTrees
  <2>4. BeginBlock \/ BeginBlockStatement \/ EndBlockStatement \/ EndBlock => TreesInv'
    BY BeginBuilderTrees, EndElementTrees, EndBuilderTrees
  <2> QED BY <1>6, <2>1, <2>2, <2>3, <2>4 DEF Statements
<1> QED BY <1>1, <1>2, <1>3, <1>4, <1>5, <1>6 DEF Next
------------------------------------------------------------------------------
(* What follows from it.                                                   *)

\* The functions have as many bodies as there are of them.
LEMMA BodiesFact ==
  ASSUME IInv, NEW owner, FunctionsOwn(owner, Len(nodes), functions)
  PROVE  Cardinality(Bodies) = Len(functions)
<1> DEFINE n == Len(functions)
           f == [i \in 1 .. n |-> functions[i].body]
<1>1. n \in Nat /\ DOMAIN functions = 1 .. n
  BY CallsFact, SequenceFact
<1>2. \A i \in 1 .. n : owner[functions[i].body] = <<"function", i>>
  BY DEF FunctionsOwn
<1>3. \A i \in 1 .. n, j \in 1 .. n : functions[i].body = functions[j].body => i = j
  BY <1>2
<1>4. Bodies = {functions[i].body : i \in 1 .. n}
  BY <1>1 DEF Bodies
<1>5. f \in Injection(1 .. n, Bodies)
  BY <1>3, <1>4 DEF Injection, IsInjective
<1>6. f \in Surjection(1 .. n, Bodies)
  BY <1>4, <1>5 DEF Surjection, Injection
<1>7. ExistsBijection(1 .. n, Bodies)
  BY <1>5, <1>6 DEF ExistsBijection, Bijection
<1> QED BY <1>1, <1>7, FS_CountingElements

LEMMA TreesForm ==
  ASSUME IInv, TreesInv
  PROVE  NodesFormTrees
<1>1. PICK owner : Owns(owner, nodes, temp, calls, result, functions)
  BY DEF TreesInv, Owned
<1>2. PICK n \in Nat : n = Len(nodes)
  BY CallsFact
<1>3. DOMAIN nodes = 1 .. n /\ DOMAIN functions = 1 .. Len(functions)
  BY <1>2, CallsFact, SequenceFact
<1>4. NodesOwn(owner, n, "node", nodes) /\ FunctionsOwn(owner, n, functions)
  BY <1>1, <1>2 DEF Owns
<1>5. ASSUME NEW i \in 1 .. n, NEW x \in Children(nodes[i])
      PROVE  x \in 1 .. i - 1 /\ owner[x] = <<"node", i>>
  <2>1. x \in 1 .. n /\ owner[x] = <<"node", i>> /\ x < i
    BY <1>2, <1>4 DEF NodesOwn
  <2> QED BY <2>1
<1>6. \A i \in 1 .. n : Children(nodes[i]) \subseteq 1 .. i - 1
  BY <1>5
<1>7. \A i \in 1 .. n, j \in 1 .. n : i # j => Children(nodes[i]) \cap Children(nodes[j]) = {}
  BY <1>5
<1>8. \A i \in 1 .. n : Children(nodes[i]) \cap Bodies = {}
  <2> SUFFICES ASSUME NEW i \in 1 .. n, NEW x \in Children(nodes[i]), x \in Bodies
               PROVE  FALSE
    OBVIOUS
  <2>1. PICK j \in 1 .. Len(functions) : x = functions[j].body
    BY <1>3 DEF Bodies
  <2>2. owner[x] = <<"function", j>>
    BY <1>4, <2>1 DEF FunctionsOwn
  <2> QED BY <1>5, <2>2
<1>9. Cardinality(Bodies) = Len(functions)
  BY <1>2, <1>4, BodiesFact
<1> QED BY <1>3, <1>6, <1>7, <1>8, <1>9 DEF NodesFormTrees

\* Whatever the AST and the limits, the nodes of the HIR form trees: each is
\* allocated after its children, and only one node or function refers to it,
\* errors or not, so that code is generated for each of them once
\* (lower.c:165-661, codegen.c:301-447).
THEOREM HirIsAForest == Spec => []NodesFormTrees
<1>1. Init => IInv /\ TreesInv
  BY InitInv, InitTrees
<1>2. IInv /\ TreesInv /\ [Next]_vars => (IInv /\ TreesInv)'
  BY NextInv, NextTrees
<1>3. IInv /\ TreesInv => NodesFormTrees
  BY TreesForm
<1> QED BY <1>1, <1>2, <1>3, PTL DEF Spec
================================================================================
