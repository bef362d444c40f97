---------------------------- MODULE AbstractSyntax ----------------------------
(***************************************************************************)
(* The AST that parse.c hands over to lower.c: arrays of expressions,      *)
(* statements and functions.  The data of a node are the fields of its     *)
(* member of astExpressionData or astStatementData, in order; what they    *)
(* refer to, they refer to by index.  Indices count from 1, and NoNode     *)
(* stands for the index (u16)-1.                                           *)
(***************************************************************************)
EXTENDS Integers, Sequences

NoNode == 0
BinaryOperators == {"+", "-", "*", "/", "==", "!=", "<", "<=", ">", ">="}

\* A node of each kind has the data of that kind, and the nodes it refers to
\* are there, those of a list next to each other.
IsList(data, items) ==
  data[1] \in Nat /\ data[2] \in Nat /\ data[1] .. data[1] + data[2] - 1 \subseteq items
IsExpression(node, exprs) ==
  LET d == node.data
  IN  CASE node.kind \in {"missing", "variable"} -> TRUE
        [] node.kind = "int_literal" -> d \in Seq(Int)
        [] node.kind \in {"address_of", "dereference"} -> d[1] \in exprs
        [] node.kind \in BinaryOperators \cup {"index"} -> d[1] \in exprs /\ d[2] \in exprs
        [] node.kind = "array_literal" -> IsList(d, exprs)
        [] OTHER -> FALSE
IsStatement(node, exprs, stmts) ==
  LET d == node.data
  IN  CASE node.kind = "missing" -> TRUE
        [] node.kind = "return" -> d[1] \in exprs
        [] node.kind = "assign" -> d[1] \in exprs /\ d[2] \in exprs
        [] node.kind = "local_definition" -> d[2] \in exprs
        [] node.kind = "while" -> d[1] \in exprs /\ d[2] \in stmts
        [] node.kind = "if" -> d[1] \in exprs /\ d[2] \in stmts /\ d[3] \in stmts \cup {NoNode}
        [] node.kind = "block" -> IsList(d, stmts)
        [] OTHER -> FALSE

IsSequence(s) == s \in Seq({s[i] : i \in DOMAIN s})
IsAst(root) ==
  LET exprs == DOMAIN root.expressions
      stmts == DOMAIN root.statements
  IN  /\ \A i \in exprs : IsExpression(root.expressions[i], exprs)
      /\ \A i \in stmts : IsStatement(root.statements[i], exprs, stmts)
      /\ IsSequence(root.functions)
      /\ \A i \in DOMAIN root.functions : root.functions[i].body \in stmts
==============================================================================
