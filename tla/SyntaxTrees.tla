------------------------------ MODULE SyntaxTrees ------------------------------
(***************************************************************************)
(* Programs as syntax trees, for the instances of Lower and Compiler, and  *)
(* the ASTs the parser makes of them: an AST node is allocated after those *)
(* below it, next to the other operands of the node above.                 *)
(***************************************************************************)
EXTENDS Integers, Sequences, SequencesExt

\* A tree is a tuple: the kind of its root, and its children.
N(n) == <<"int_literal", n>>
Var(x) == <<"variable", x>>
Missing == <<"missing">>
Ref(x) == <<"address_of", x>>
Deref(x) == <<"dereference", x>>
Item(x, i) == <<"index", x, i>>
Literal(xs) == <<"array_literal", xs>>
Define(x, e) == <<"local_definition", x, e>>
Set(l, r) == <<"assign", l, r>>
Give(e) == <<"return", e>>
If(c, t) == <<"if", c, t>>
IfElse(c, t, f) == <<"if", c, t, f>>
While(c, b) == <<"while", c, b>>
Block(ss) == <<"block", ss>>
Function(name, statements) == [name |-> name, body |-> Block(statements)]
------------------------------------------------------------------------------
(* From trees to ASTs.  An area is what has been allocated so far; laying  *)
(* out a tree leaves its root unallocated.                                 *)

Root(kind, data) == [kind |-> kind, data |-> data, start |-> 0, end |-> 0]
Laid(node, exprs, stmts) == [node |-> node, exprs |-> exprs, stmts |-> stmts]

RECURSIVE LayOut(_, _), LayOutAll(_, _)
\* The roots of some trees, unallocated.
LayOutAll(trees, area) ==
  FoldLeft(LAMBDA done, tree :
             LET laid == LayOut(tree, done.area) IN [roots |-> Append(done.roots, laid.node), area |-> laid],
           [roots |-> <<>>, area |-> area], trees)
LayOut(tree, area) ==
  LET
    kind == tree[1]
    exprs == area.exprs
    parts(k) == LayOutAll(SubSeq(tree, 2, k), area)
    e == parts(Len(tree))
    nextExpr == Len(e.area.exprs) + 1
    nextStmt == Len(e.area.stmts) + 1
    allocExprs == e.area.exprs \o e.roots
    list == LayOutAll(tree[2], area)
  IN
    CASE kind \in {"int_literal", "variable"} -> Laid(Root(kind, <<tree[2]>>), exprs, area.stmts)
      [] kind = "missing" -> Laid(Root(kind, <<>>), exprs, area.stmts)
      [] kind = "array_literal" ->
           Laid(Root(kind, <<IF tree[2] = <<>> THEN 0 ELSE Len(list.area.exprs) + 1, Len(tree[2])>>),
                list.area.exprs \o list.roots, list.area.stmts)
      [] kind = "block" ->
           Laid(Root(kind, <<IF tree[2] = <<>> THEN 0 ELSE Len(list.area.stmts) + 1, Len(tree[2])>>),
                list.area.exprs, list.area.stmts \o list.roots)
      [] kind = "index" ->
           Laid(Root(kind, <<nextExpr + 1, nextExpr>>), e.area.exprs \o Reverse(e.roots), area.stmts)
      [] kind \in {"+", "-", "*", "/", "==", "!=", "<", "<=", ">", ">=", "assign"} ->
           Laid(Root(kind, <<nextExpr, nextExpr + 1>>), allocExprs, area.stmts)
      [] kind \in {"address_of", "dereference", "return"} ->
           Laid(Root(kind, <<nextExpr>>), allocExprs, area.stmts)
      [] kind = "local_definition" ->
           LET value == LayOut(tree[3], area)
           IN  Laid(Root(kind, <<tree[2], Len(value.exprs) + 1>>),
                    Append(value.exprs, value.node), area.stmts)
      [] kind \in {"if", "while"} ->
           LET condition == LayOut(tree[2], area)
               c == Laid(condition.node, Append(condition.exprs, condition.node), condition.stmts)
               t == LayOut(tree[3], c)
               allocated == Laid(t.node, t.exprs, Append(t.stmts, t.node))
               f == LayOut(tree[4], allocated)
           IN  IF kind = "if" /\ Len(tree) = 4
               THEN Laid(Root(kind, <<Len(c.exprs), Len(allocated.stmts), Len(f.stmts) + 1>>),
                         f.exprs, Append(f.stmts, f.node))
               ELSE Laid(Root(kind, <<Len(c.exprs), Len(allocated.stmts)>> \o
                                      (IF kind = "if" THEN <<0>> ELSE <<>>)),
                         allocated.exprs, allocated.stmts)

\* The AST of functions given by names and the trees of their bodies.
AstOf(program) ==
  LET laid ==
        FoldLeft(LAMBDA done, f :
                   LET body == LayOut(f.body, done.area)
                   IN  [area |-> Laid(body.node, body.exprs, Append(body.stmts, body.node)),
                        functions |-> Append(done.functions,
                                             [name |-> f.name, body |-> Len(body.stmts) + 1])],
                 [area |-> Laid(<<>>, <<>>, <<>>), functions |-> <<>>], program)
  IN  [functions |-> laid.functions, statements |-> laid.area.stmts,
       expressions |-> laid.area.exprs]
==============================================================================
