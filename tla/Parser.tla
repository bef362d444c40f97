-------------------------------- MODULE Parser --------------------------------
(***************************************************************************)
(* parse.c: the recursive-descent, precedence-climbing parser, with its    *)
(* error recovery, as a machine with an explicit stack.  A C function that *)
(* is waiting for a callee is a frame of `calls`, top first; `result` is   *)
(* the fullExpression or fullStatement the last callee returned.  A step   *)
(* runs from one call or return to the next.                               *)
(*                                                                         *)
(* A token is its kind; identifier and number tokens are told apart by     *)
(* their positions.  Token i starts at 2 * i and ends at 2 * i + 1, so a   *)
(* span is a pair of numbers.  Indices of AST nodes count from 1, and      *)
(* NoNode stands for the index (u16)-1.  The array builders in m->temp are *)
(* one sequence, as they are one arena: a builder is a base and a count.   *)
(*                                                                         *)
(* A definition marked "Mutant" is no part of the model: it is what the    *)
(* definition after it becomes with a plausible bug, and a run finds the   *)
(* bug when it is put in that definition's place.                          *)
(***************************************************************************)
EXTENDS AbstractSyntax, FiniteSets

CONSTANTS
  Inputs,          \* the token buffers parsed: sequences of token kinds
  MaxExpressions,  \* MAX_EXPRESSION_COUNT
  MaxStatements,   \* MAX_STATEMENT_COUNT
  MaxDiagnostics,  \* MAX_DIAGNOSTIC_COUNT
  CountModulus     \* 2^16: `count` of array literals and blocks is a u16

\* What binary operators bind with.
\* Mutant: all operators bind alike.
BindingPowerFlat == [o \in BinaryOperators |-> 1]
BindingPower ==
  [o \in BinaryOperators |-> CASE o \in {"*", "/"} -> 3 [] o \in {"+", "-"} -> 2 [] OTHER -> 1]

Kinds == BinaryOperators \cup
  {"error", "number", "identifier", "func", "return", "var", "set", "if", "else", "while",
   "=", "{", "}", "(", ")", "[", "]", ":", ":=", ";", "&", ","}

ASSUME InputsAssumption == Inputs \subseteq Seq(Kinds)
ASSUME LimitsAssumption ==
  {MaxExpressions, MaxStatements, MaxDiagnostics, CountModulus} \subseteq Nat \ {0}

VARIABLES
  tokens,       \* p.tokens
  cursor,       \* p.cursor: how many tokens have been consumed
  calls,        \* the C call stack
  result,       \* what the last call returned
  temp,         \* the elements of the builders in m->temp
  expressions,  \* p.ast
  statements,
  functions,
  diagnostics,  \* the spans of the diagnostics recorded, in order
  status        \* "running", "done", or why the process aborted

vars == <<tokens, cursor, calls, result, temp, expressions, statements, functions,
          diagnostics, status>>

NoName == 0
------------------------------------------------------------------------------
(* Tokens and errors.  These take the cursor, which one step may move more *)
(* than once.                                                              *)

Kind(c) == IF c = Len(tokens) THEN "eof" ELSE tokens[c + 1]
AtEof(c) == Kind(c) = "eof"
AtItemFirst(c) == Kind(c) = "func"
\* Mutant: recovery does not stop at the next function.
AtRecoveryButFunc(c) == Kind(c) \in {"return", "set", "if", "else", "while", "{", "}"}
AtRecovery(c) ==
  Kind(c) \in {"func", "return", "set", "if", "else", "while", "{", "}"}

StartOf(token) == 2 * token
EndOf(token) == 2 * token + 1

\* Where a construct that begins at the cursor starts.
SpanStart(c) == IF AtEof(c) THEN EndOf(c) ELSE StartOf(c + 1)

\* Mutant: an error may skip past the end of the file.
SkipsAtEof(c, mode) == mode = "eat_all" \/ (mode = "recover" /\ ~AtRecovery(c))

\* error(): does it skip the token at the cursor?
Skips(c, mode) ==
  ~AtEof(c) /\ \/ mode = "eat_all"
               \/ mode = "recover" /\ ~AtRecovery(c)

\* An error at the cursor: the cursor afterwards and the span reported.
Error(c, mode) ==
  IF Skips(c, mode)
  THEN [to |-> c + 1, errors |-> <<[start |-> StartOf(c + 1), end |-> EndOf(c + 1)]>>]
  ELSE [to |-> c, errors |-> <<[start |-> EndOf(c), end |-> EndOf(c) + 1]>>]

Expect(c, kind, mode) ==
  IF Kind(c) = kind THEN [to |-> c + 1, errors |-> <<>>] ELSE Error(c, mode)

\* expectIdentifier: the name is the token's position.
ExpectIdentifier(c) ==
  LET e == Expect(c, "identifier", "recover")
  IN  [to |-> e.to, errors |-> e.errors,
       name |-> IF Kind(c) = "identifier" THEN c + 1 ELSE NoName]
------------------------------------------------------------------------------
(* Frames and nodes.                                                       *)

Node(kind, data, start, end) == [kind |-> kind, data |-> data, start |-> start, end |-> end]

\* The frames of a call of expressionBindingPower with a minimum power.
ExpressionCall(min) == <<[at |-> "operand"], [at |-> "operators", min |-> min]>>
StatementCall == <<[at |-> "statement"]>>
BlockCall == <<[at |-> "block"]>>

Top == calls[1]
At(label) == status = "running" /\ calls # <<>> /\ Top.at = label

\* Replace the top frame by others, the callee first.
Become(frames) == calls' = frames \o Tail(calls)
Call(frames) == Become(frames) /\ UNCHANGED <<result, temp, functions>>

\* Return a value to the frame below, or to a frame that goes on with it.
ReturnTo(frames, value) == Become(frames) /\ result' = value /\ UNCHANGED functions
Return(value) == ReturnTo(<<>>, value) /\ UNCHANGED temp

\* Go on with the postfix operators of the operand just parsed.
Operand(value) == ReturnTo(<<[at |-> "postfix"]>>, value) /\ UNCHANGED temp

\* The end of a step: the cursor, the diagnostics recorded on the way and
\* the nodes allocated, with the three limits that abort the process.
Commit(to, errors, exprs, stmts) ==
  /\ cursor' = to
  /\ diagnostics' = diagnostics \o errors
  /\ expressions' = expressions \o exprs
  /\ statements' = statements \o stmts
  /\ status' = IF Len(diagnostics') > MaxDiagnostics THEN "too_many_diagnostics"
               ELSE IF Len(expressions') > MaxExpressions THEN "too_many_expressions"
               ELSE IF Len(statements') > MaxStatements THEN "too_many_statements"
               ELSE "running"
  /\ UNCHANGED tokens

Stay == Commit(cursor, <<>>, <<>>, <<>>)
Advance == Commit(cursor + 1, <<>>, <<>>, <<>>)
AllocateExpressions(exprs) == Commit(cursor, <<>>, exprs, <<>>)
AllocateStatement == Commit(cursor, <<>>, <<>>, <<result>>)

NextExpression == Len(expressions) + 1
NextStatement == Len(statements) + 1
------------------------------------------------------------------------------
(* parse() and function().                                                 *)

\* parse() starts with the tokens of a file, and an empty AST.
Begin ==
  /\ cursor = 0
  /\ calls = <<>>
  /\ result = Node("missing", <<>>, 0, 0)
  /\ temp = <<>>
  /\ expressions = <<>>
  /\ statements = <<>>
  /\ functions = <<>>
  /\ diagnostics = <<>>
  /\ status = "running"
Init == tokens \in Inputs /\ Begin

TopLevel == status = "running" /\ calls = <<>>

BeginFunction ==
  /\ TopLevel
  /\ Kind(cursor) = "func"
  /\ LET name == ExpectIdentifier(cursor + 1)
     IN  /\ Commit(name.to, name.errors, <<>>, <<>>)
         /\ calls' = StatementCall \o <<[at |-> "function", name |-> name.name]>>
  /\ UNCHANGED <<result, temp, functions>>

EndFunction ==
  /\ At("function")
  /\ AllocateStatement
  /\ functions' = Append(functions, [name |-> Top.name, body |-> NextStatement])
  /\ Become(<<>>)
  /\ UNCHANGED <<result, temp>>

\* Mutant: what is no function is neither reported nor skipped.
NotAFunctionIgnored ==
  /\ TopLevel
  /\ Kind(cursor) \notin {"func", "eof"}
  /\ UNCHANGED vars

NotAFunction ==
  /\ TopLevel
  /\ Kind(cursor) \notin {"func", "eof"}
  /\ LET e == Error(cursor, "eat_all") IN Commit(e.to, e.errors, <<>>, <<>>)
  /\ UNCHANGED <<calls, result, temp, functions>>

EndParse ==
  /\ TopLevel
  /\ AtEof(cursor)
  /\ status' = "done"
  /\ UNCHANGED <<tokens, cursor, calls, result, temp, expressions, statements, functions,
                 diagnostics>>

(* expressionLhs()                                                         *)

Literal ==
  /\ At("operand")
  /\ Kind(cursor) \in {"number", "identifier"}
  /\ Advance
  /\ Operand(Node(IF Kind(cursor) = "number" THEN "int_literal" ELSE "variable",
                  <<cursor + 1>>, SpanStart(cursor), EndOf(cursor + 1)))

BeginPrefix ==
  /\ At("operand")
  /\ Kind(cursor) \in {"&", "*"}
  /\ Advance
  /\ Call(<<[at |-> "operand"],
            [at |-> "prefix", start |-> SpanStart(cursor),
             kind |-> IF Kind(cursor) = "&" THEN "address_of" ELSE "dereference"]>>)

EndPrefix ==
  /\ At("prefix")
  /\ AllocateExpressions(<<result>>)
  /\ Operand(Node(Top.kind, <<NextExpression>>, Top.start, EndOf(cursor)))

BeginParentheses ==
  /\ At("operand")
  /\ Kind(cursor) = "("
  /\ Advance
  /\ Call(ExpressionCall(0) \o <<[at |-> "parentheses"]>>)

\* The inner expression is the result, but it now ends at the parenthesis.
EndParentheses ==
  /\ At("parentheses")
  /\ LET close == Expect(cursor, ")", "recover")
     IN  /\ Commit(close.to, close.errors, <<>>, <<>>)
         /\ Operand([result EXCEPT !.end = EndOf(close.to)])

\* [expression] after an operand
BeginIndex ==
  /\ At("postfix")
  /\ Kind(cursor) = "["
  /\ Advance
  /\ Call(ExpressionCall(0) \o <<[at |-> "index", array |-> result]>>)

EndIndex ==
  /\ At("index")
  /\ LET close == Expect(cursor, "]", "recover")
     IN  /\ Commit(close.to, close.errors, <<result, Top.array>>, <<>>)
         /\ Operand(Node("index", <<NextExpression + 1, NextExpression>>,
                         Top.array.start, EndOf(close.to)))

EndOperand ==
  /\ At("postfix")
  /\ Kind(cursor) # "["
  /\ Stay
  /\ Return(result)

\* Closing brackets, commas and = are left for the callers.
MissingOperand ==
  /\ At("operand")
  /\ Kind(cursor) \notin {"number", "identifier", "&", "*", "(", "["}
  /\ LET e == Error(cursor, IF Kind(cursor) \in {")", "]", ",", "="}
                            THEN "eat_none" ELSE "recover")
     IN  /\ Commit(e.to, e.errors, <<>>, <<>>)
         /\ Operand(Node("missing", <<>>, SpanStart(cursor), EndOf(e.to)))
------------------------------------------------------------------------------
(* Builders: array literals in expressionLhs() and blockStatement() collect*)
(* their elements in temp memory until all are parsed, then allocate them  *)
(* next to each other and clear the temp memory.                           *)

Builder(label, start) ==
  [at |-> label, start |-> start, base |-> Len(temp), count |-> 0]

\* Read `count` elements from the builder's base.
Built(frame) == SubSeq(temp, frame.base + 1, frame.base + frame.count)

\* Mutant: the children are taken one too far.
FirstOfOffByOne(frame, next) == IF frame.count = 0 THEN NoNode ELSE next + 1

\* The index of the first of them once allocated.
FirstOf(frame, next) == IF frame.count = 0 THEN NoNode ELSE next

Pushed(frame, label) ==
  [frame EXCEPT !.at = label, !.count = (frame.count + 1) % CountModulus]

InArray(c) == Kind(c) # "]" /\ ~AtEof(c) /\ ~AtRecovery(c)

BeginArray ==
  /\ At("operand")
  /\ Kind(cursor) = "["
  /\ Advance
  /\ Call(<<Builder("array", SpanStart(cursor))>>)

BeginElement ==
  /\ At("array")
  /\ InArray(cursor)
  /\ Stay
  /\ Call(ExpressionCall(0) \o <<[Top EXCEPT !.at = "element"]>>)

EndElement ==
  /\ At("element")
  /\ LET comma == IF InArray(cursor) THEN Expect(cursor, ",", "eat_none")
                                     ELSE [to |-> cursor, errors |-> <<>>]
     IN  Commit(comma.to, comma.errors, <<>>, <<>>)
  /\ temp' = Append(temp, result)
  /\ Become(<<Pushed(Top, "array")>>)
  /\ UNCHANGED <<result, functions>>

EndArray ==
  /\ At("array")
  /\ ~InArray(cursor)
  /\ LET close == Expect(cursor, "]", "recover")
     IN  /\ Commit(close.to, close.errors, Built(Top), <<>>)
         /\ ReturnTo(<<[at |-> "postfix"]>>,
                     Node("array_literal", <<FirstOf(Top, NextExpression), Top.count>>,
                          Top.start, EndOf(close.to)))
  /\ temp' = SubSeq(temp, 1, Top.base)

(* expressionBindingPower()                                                *)

BeginRhs ==
  /\ At("operators")
  /\ Kind(cursor) \in BinaryOperators
  /\ BindingPower[Kind(cursor)] >= Top.min
  /\ Advance
  /\ Call(ExpressionCall(BindingPower[Kind(cursor)] + 1) \o
            <<[at |-> "rhs", min |-> Top.min, lhs |-> result, op |-> Kind(cursor)]>>)

EndRhs ==
  /\ At("rhs")
  /\ AllocateExpressions(<<Top.lhs, result>>)
  /\ result' = Node(Top.op, <<NextExpression, NextExpression + 1>>,
                    Top.lhs.start, EndOf(cursor))
  /\ Become(<<[at |-> "operators", min |-> Top.min]>>)
  /\ UNCHANGED <<temp, functions>>

EndExpression ==
  /\ At("operators")
  /\ Kind(cursor) \in BinaryOperators => BindingPower[Kind(cursor)] < Top.min
  /\ Stay
  /\ Return(result)
------------------------------------------------------------------------------
(* blockStatement()                                                        *)

BeginBlock ==
  /\ At("block")
  /\ Kind(cursor) = "{"
  /\ Advance
  /\ Call(<<Builder("statements", SpanStart(cursor))>>)

InBlock(c) == Kind(c) # "}" /\ ~AtEof(c) /\ ~AtItemFirst(c)

BeginBlockStatement ==
  /\ At("statements")
  /\ InBlock(cursor)
  /\ Stay
  /\ Call(StatementCall \o <<[Top EXCEPT !.at = "block_statement"]>>)

EndBlockStatement ==
  /\ At("block_statement")
  /\ Stay
  /\ temp' = Append(temp, result)
  /\ Become(<<Pushed(Top, "statements")>>)
  /\ UNCHANGED <<result, functions>>

\* Mutant: the builder is not cleared.
EndBlockKeepsTemp ==
  /\ At("statements")
  /\ ~InBlock(cursor)
  /\ LET close == Expect(cursor, "}", "recover")
     IN  /\ Commit(close.to, close.errors, <<>>, Built(Top))
         /\ Return(Node("block", <<FirstOf(Top, NextStatement), Top.count>>,
                        Top.start, EndOf(close.to)))

EndBlock ==
  /\ At("statements")
  /\ ~InBlock(cursor)
  /\ LET close == Expect(cursor, "}", "recover")
     IN  /\ Commit(close.to, close.errors, <<>>, Built(Top))
         /\ ReturnTo(<<>>, Node("block", <<FirstOf(Top, NextStatement), Top.count>>,
                              Top.start, EndOf(close.to)))
  /\ temp' = SubSeq(temp, 1, Top.base)

\* Not a block: parse a statement for its span, and drop it.
BeginNotABlock ==
  /\ At("block")
  /\ Kind(cursor) # "{"
  /\ Stay
  /\ Call(StatementCall \o <<[at |-> "not_a_block", start |-> SpanStart(cursor)]>>)

\* Mutant: a missing statement is reported again.
EndNotABlockAlwaysReports ==
  /\ At("not_a_block")
  /\ Commit(cursor, <<[start |-> result.start, end |-> result.end]>>, <<>>, <<>>)
  /\ Return(Node("missing", <<>>, Top.start, 0))

EndNotABlock ==
  /\ At("not_a_block")
  /\ Commit(cursor, IF result.kind = "missing" THEN <<>>
                    ELSE <<[start |-> result.start, end |-> result.end]>>, <<>>, <<>>)
  /\ Return(Node("missing", <<>>, Top.start, 0))

(* statement()                                                             *)

AtStatement(kind) == At("statement") /\ Kind(cursor) = kind

\* Consume the keyword and parse the first expression of the statement.
BeginStatement ==
  /\ At("statement")
  /\ Kind(cursor) \in {"return", "set", "if", "while"}
  /\ Advance
  /\ Call(ExpressionCall(0) \o <<[at |-> Kind(cursor), start |-> SpanStart(cursor)]>>)

EndReturn ==
  /\ At("return")
  /\ AllocateExpressions(<<result>>)
  /\ Return(Node("return", <<NextExpression>>, Top.start, EndOf(cursor)))

BeginSetValue ==
  /\ At("set")
  /\ LET equal == Expect(cursor, "=", "recover")
     IN  Commit(equal.to, equal.errors, <<result>>, <<>>)
  /\ Call(ExpressionCall(0) \o
            <<[at |-> "set_value", start |-> Top.start, lhs |-> NextExpression]>>)

\* Mutant: the value is not allocated.
EndSetForgetsValue ==
  /\ At("set_value")
  /\ Stay
  /\ Return(Node("assign", <<Top.lhs, NextExpression>>, Top.start, EndOf(cursor)))

EndSet ==
  /\ At("set_value")
  /\ AllocateExpressions(<<result>>)
  /\ Return(Node("assign", <<Top.lhs, NextExpression>>, Top.start, EndOf(cursor)))

BeginTrueBranch ==
  /\ At("if")
  /\ AllocateExpressions(<<result>>)
  /\ Call(BlockCall \o
            <<[at |-> "true_branch", start |-> Top.start, condition |-> NextExpression]>>)

BeginFalseBranch ==
  /\ At("true_branch")
  /\ Kind(cursor) = "else"
  /\ Commit(cursor + 1, <<>>, <<>>, <<result>>)
  /\ Call(BlockCall \o
            <<[at |-> "false_branch", start |-> Top.start, condition |-> Top.condition,
               true_block |-> NextStatement]>>)

EndIfWithoutElse ==
  /\ At("true_branch")
  /\ Kind(cursor) # "else"
  /\ AllocateStatement
  /\ Return(Node("if", <<Top.condition, NextStatement, NoNode>>, Top.start, EndOf(cursor)))

EndIfElse ==
  /\ At("false_branch")
  /\ AllocateStatement
  /\ Return(Node("if", <<Top.condition, Top.true_block, NextStatement>>,
                 Top.start, EndOf(cursor)))

UnmatchedElse ==
  /\ AtStatement("else")
  /\ Commit(cursor + 1, <<[start |-> StartOf(cursor + 1), end |-> EndOf(cursor + 1)]>>,
            <<>>, <<>>)
  /\ Return(Node("missing", <<>>, SpanStart(cursor), EndOf(cursor + 1)))

BeginWhileBody ==
  /\ At("while")
  /\ AllocateExpressions(<<result>>)
  /\ Call(BlockCall \o
            <<[at |-> "while_body", start |-> Top.start, condition |-> NextExpression]>>)

EndWhile ==
  /\ At("while_body")
  /\ AllocateStatement
  /\ Return(Node("while", <<Top.condition, NextStatement>>, Top.start, EndOf(cursor)))

StatementIsBlock ==
  /\ AtStatement("{")
  /\ Stay
  /\ Call(BlockCall)

BeginDefinition ==
  /\ AtStatement("identifier")
  /\ LET equal == Expect(cursor + 1, ":=", "recover")
     IN  Commit(equal.to, equal.errors, <<>>, <<>>)
  /\ Call(ExpressionCall(0) \o
            <<[at |-> "definition", start |-> SpanStart(cursor), name |-> cursor + 1]>>)

EndDefinition ==
  /\ At("definition")
  /\ AllocateExpressions(<<result>>)
  /\ Return(Node("local_definition", <<Top.name, NextExpression>>, Top.start, EndOf(cursor)))

StatementKinds == {"return", "set", "if", "else", "while", "{", "identifier"}

MissingStatement ==
  /\ At("statement")
  /\ Kind(cursor) \notin StatementKinds
  /\ LET e == Error(cursor, "recover")
     IN  /\ Commit(e.to, e.errors, <<>>, <<>>)
         /\ Return(Node("missing", <<>>, SpanStart(cursor), EndOf(e.to)))
------------------------------------------------------------------------------
Expressions ==
  \/ Literal \/ BeginPrefix \/ EndPrefix \/ BeginParentheses \/ EndParentheses
  \/ BeginIndex \/ EndIndex \/ EndOperand \/ MissingOperand
  \/ BeginArray \/ BeginElement \/ EndElement \/ EndArray
  \/ BeginRhs \/ EndRhs \/ EndExpression

Statements ==
  \/ BeginBlock \/ BeginBlockStatement \/ EndBlockStatement \/ EndBlock
  \/ BeginNotABlock \/ EndNotABlock
  \/ BeginStatement \/ EndReturn \/ BeginSetValue \/ EndSet
  \/ BeginTrueBranch \/ BeginFalseBranch \/ EndIfWithoutElse \/ EndIfElse
  \/ UnmatchedElse \/ BeginWhileBody \/ EndWhile
  \/ StatementIsBlock \/ BeginDefinition \/ EndDefinition \/ MissingStatement

Next == BeginFunction \/ EndFunction \/ NotAFunction \/ EndParse \/ Expressions \/ Statements

Spec == Init /\ [][Next]_vars

\* The compiler is one thread that keeps running.
FairSpec == Spec /\ WF_vars(Next)
------------------------------------------------------------------------------
(* Properties.                                                             *)

\* The expressions and statements a node refers to.
ArrayOrBlock(first, count) == first .. first + count - 1

ExpressionChildren(e) ==
  CASE e.kind \in BinaryOperators \cup {"address_of", "dereference", "index"} ->
         {e.data[i] : i \in DOMAIN e.data}
    [] e.kind = "array_literal" -> ArrayOrBlock(e.data[1], e.data[2])
    [] OTHER -> {}

StatementExpressions(s) ==
  CASE s.kind \in {"return", "if", "while"} -> {s.data[1]}
    [] s.kind = "local_definition" -> {s.data[2]}
    [] s.kind = "assign" -> {s.data[1], s.data[2]}
    [] OTHER -> {}

StatementChildren(s) ==
  CASE s.kind = "block" -> ArrayOrBlock(s.data[1], s.data[2])
    [] s.kind = "while" -> {s.data[2]}
    [] s.kind = "if" -> {s.data[2], s.data[3]} \ {NoNode}
    [] OTHER -> {}

\* The frames of array literals and blocks, which have a builder.
BuilderLabels == {"array", "element", "statements", "block_statement"}
IsBuilder(f) == f.at \in BuilderLabels

\* There is no builder among the frames from i to j.
NoBuilder(stack, i, j) == \A k \in i .. j : ~IsBuilder(stack[k])

\* The builder has pushed what is between its base and `end`, and counted it.
Holds(builder, end) ==
  builder.base <= end /\ builder.count = (end - builder.base) % CountModulus

\* The builders of a stack divide an arena of `size` elements among them.
Nested(stack, size) ==
  /\ NoBuilder(stack, 1, Len(stack)) => size = 0
  /\ \A i \in 1 .. Len(stack) : IsBuilder(stack[i]) =>
       /\ NoBuilder(stack, 1, i - 1) => Holds(stack[i], size)
       /\ \A j \in 1 .. i - 1 : IsBuilder(stack[j]) /\ NoBuilder(stack, j + 1, i - 1) =>
            Holds(stack[i], stack[j].base)
       /\ NoBuilder(stack, i + 1, Len(stack)) => stack[i].base = 0

\* What a call can return, and the frames of the functions that wait.
NodeKinds ==
  BinaryOperators \cup
    {"missing", "int_literal", "variable", "address_of", "dereference", "index",
     "array_literal", "return", "assign", "if", "while", "block", "local_definition"}
Nodes == [kind : NodeKinds, data : Seq(Nat), start : Nat, end : Nat]
Frames ==
  [at : {"operand", "postfix", "parentheses", "statement", "block"}]
    \cup [at : {"function"}, name : Nat]
    \cup [at : {"prefix"}, start : Nat, kind : {"address_of", "dereference"}]
    \cup [at : {"index"}, array : Nodes]
    \cup [at : {"operators"}, min : Nat]
    \cup [at : {"rhs"}, min : Nat, lhs : Nodes, op : BinaryOperators]
    \cup [at : {"array", "element", "statements", "block_statement"},
          start : Nat, base : Nat, count : Nat]
    \cup [at : {"return", "set", "if", "while", "not_a_block"}, start : Nat]
    \cup [at : {"set_value"}, start : Nat, lhs : Nat]
    \cup [at : {"true_branch", "while_body"}, start : Nat, condition : Nat]
    \cup [at : {"false_branch"}, start : Nat, condition : Nat, true_block : Nat]
    \cup [at : {"definition"}, start : Nat, name : Nat]

\* The type of every variable, and the cursor within the tokens.
TypeOK ==
  /\ tokens \in Seq(Kinds)
  /\ cursor \in 0 .. Len(tokens)
  /\ calls \in Seq(Frames)
  /\ result \in Nodes
  /\ temp \in Seq(Nodes)
  /\ expressions \in Seq(Nodes)
  /\ statements \in Seq(Nodes)
  /\ functions \in Seq([name : Nat, body : Nat])
  /\ diagnostics \in Seq([start : Nat, end : Nat])
  /\ status \in {"running", "done", "too_many_diagnostics", "too_many_expressions",
                 "too_many_statements"}

(* Whatever the errors before it, every func token passed has started a    *)
(* function: recovery never swallows the start of the next item            *)
(* (parse.c:94-132).                                                       *)
EveryFunctionSurvives ==
  Len(functions) + (IF calls = <<>> THEN 0 ELSE 1) =
    Cardinality({i \in 1 .. cursor : tokens[i] = "func"})

(* The array literals and blocks being parsed share one arena: each finds  *)
(* exactly the elements it pushed between its base and the base of the     *)
(* builder nested in it, and counts them modulo 2^16 (parse.c:275-290,     *)
(* 467-480); nothing is left when the function is done.                    *)
BuildersNested == Nested(calls, Len(temp))

(* The AST is a forest built bottom up: children precede their parent, no  *)
(* node is the child of two, and every function has a body of its own.     *)
(* Lowering each function therefore visits a node at most once.            *)
NodesFormTrees ==
  LET exprs == DOMAIN expressions
      stmts == DOMAIN statements
      distinct(children) == \A i, j \in DOMAIN children :
                              i # j => children[i] \cap children[j] = {}
      bodies == {functions[i].body : i \in DOMAIN functions}
  IN  /\ \A i \in exprs : ExpressionChildren(expressions[i]) \subseteq 1 .. i - 1
      /\ \A i \in stmts : /\ StatementChildren(statements[i]) \subseteq 1 .. i - 1
                          /\ StatementExpressions(statements[i]) \subseteq exprs
      /\ distinct([i \in exprs |-> ExpressionChildren(expressions[i])])
      /\ distinct([i \in stmts |-> StatementChildren(statements[i])])
      /\ distinct([i \in stmts |-> StatementExpressions(statements[i])])
      /\ Cardinality(bodies) = Len(functions)
      /\ \A i \in exprs, j \in stmts :
           ExpressionChildren(expressions[i]) \cap StatementExpressions(statements[j]) = {}
      /\ \A j \in stmts : StatementChildren(statements[j]) \cap bodies = {}

(* Every node has the data of its kind and refers to nodes that are there: *)
(* what lowering takes for granted of the AST it is given, and never looks *)
(* at again (lower.c:105-606).                                             *)
AstIsComplete ==
  IsAst([expressions |-> expressions, statements |-> statements, functions |-> functions])

(* Every diagnostic marks a non-empty part of the file after its first     *)
(* token: the error found past a token that is not there, which is marked  *)
(* after the token before the cursor, and the span of a dropped statement  *)
(* (parse.c:138-151, 455-459).                                             *)
DiagnosticsMarkText ==
  \A i \in DOMAIN diagnostics :
    diagnostics[i].start < diagnostics[i].end /\ diagnostics[i].start >= StartOf(1)

(* The loop of an array literal is about to go round at a token that       *)
(* neither expression() nor expect() eats (parse.c:280-286).               *)
Stuck == At("array") /\ Kind(cursor) \in {")", "="}

(* Every loop of the parser consumes tokens until it reaches the end of    *)
(* the file, whatever the errors, but for an array literal whose own loop  *)
(* has come to ) or =.                                                     *)
ParsesToTheEnd == <>(status = "done" \/ Stuck)

(* README.md:30: minic is resilient to errors in source code.              *)
ResilientToErrors == status # "too_many_diagnostics"

(* parse.c:32: a program with more expressions than fit is reported.       *)
ReportsExpressionLimit ==
  status = "done" /\ diagnostics = <<>> =>
    Cardinality({i \in DOMAIN tokens : tokens[i] = "number"}) <= MaxExpressions
==============================================================================
