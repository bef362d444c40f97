--------------------------------- MODULE Lower ---------------------------------
(***************************************************************************)
(* lower.c: name resolution, type checking and lowering of the AST to the  *)
(* HIR, as a machine with an explicit stack.  A C function that is waiting *)
(* for a callee is a frame of `calls`, top first; `result` is the fullNode *)
(* the last callee returned.  A step runs from one call or return to the   *)
(* next.                                                                   *)
(*                                                                         *)
(* An AST is a record of the three arrays Parser builds, with the same     *)
(* nodes, but names and numbers stand for themselves and not for their     *)
(* tokens.  An AST node is referred to by a pair <<"expression", index>>   *)
(* or <<"statement", index>>, which also stands for its span.  Indices     *)
(* count from 1, and NoNode stands for the index (u16)-1.                  *)
(*                                                                         *)
(* A definition marked "Mutant" is no part of the model: it is what the    *)
(* definition after it becomes with a plausible bug, and a run finds the   *)
(* bug when it is put in that definition's place.                          *)
(***************************************************************************)
EXTENDS AbstractSyntax, FiniteSets

CONSTANTS
  Asts,            \* the ASTs lowered
  NoName,          \* the identifierId (u32)-1 of a missing name
  Paddings,        \* what the padding bytes of a hirArray may hold
  MaxNodes,        \* MAX_NODE_COUNT
  MaxLocals,       \* MAX_LOCAL_COUNT
  MaxTypes,        \* MAX_TYPE_COUNT
  MaxDiagnostics,  \* MAX_DIAGNOSTIC_COUNT
  MessageBytes     \* the size of the buffers messages with types are made in

NoLocal == 0

ASSUME AstsAssumption == \A a \in Asts : IsAst(a)
ASSUME PaddingsAssumption == Paddings # {}
ASSUME LimitsAssumption ==
  {MaxNodes, MaxLocals, MaxTypes, MaxDiagnostics, MessageBytes} \subseteq Nat \ {0}

VARIABLES
  ast,          \* c.ast
  calls,        \* the C call stack
  result,       \* what the last call returned
  temp,         \* the elements of the builders in m->temp
  next,         \* the next function of the AST to lower
  start,        \* c.hir.current_function_locals_start
  nodes,        \* c.hir
  locals,
  types,
  functions,
  used,         \* the locals whose local_used is set
  diagnostics,  \* those recorded, in order
  status        \* "running", "done", or why the process aborted

hir == <<nodes, locals, types, functions>>
vars == <<ast, calls, result, temp, next, start, hir, used, diagnostics, status>>

------------------------------------------------------------------------------
(* The AST.                                                                *)

Ast(id) == IF id[1] = "expression" THEN ast.expressions[id[2]] ELSE ast.statements[id[2]]
Kind(id) == Ast(id).kind
Data(id) == Ast(id).data
Expression(index) == <<"expression", index>>
Statement(index) == <<"statement", index>>

(* Types.  An entry of the table is a kind and the bytes of a hirTypeData: *)
(* the child type, the count, and padding between the two.                 *)

Type(kind, child, count, padding) ==
  [kind |-> kind, child |-> child, count |-> count, padding |-> padding]
Void == Type("void", 0, 0, 0)
I64 == Type("i64", 0, 0, 0)
Pointer(child) == Type("pointer", child, 0, 0)
Array(child, count, padding) == Type("array", child, count, padding)

\* allocateType() for an entry: the index, and the table afterwards.
WithType(table, type) ==
  LET known == {t \in DOMAIN table : table[t] = type}
  IN  [full |-> Len(table) >= MaxTypes,
       table |-> IF known = {} THEN Append(table, type) ELSE table,
       index |-> IF known = {} THEN Len(table) + 1 ELSE CHOOSE t \in known : TRUE]
SameTypes == [full |-> FALSE, table |-> types]

TypeKind(index) == types[index].kind

\* hirTypeShow(): how many bytes it takes to name a type.
DigitCount(n) == IF n < 10 THEN 1 ELSE IF n < 100 THEN 2 ELSE IF n < 1000 THEN 3
             ELSE IF n < 10000 THEN 4 ELSE 5
ShownBytes ==
  LET bytes[t \in DOMAIN types] ==
        CASE types[t].kind = "void" -> 4
          [] types[t].kind = "i64" -> 3
          [] types[t].kind = "pointer" -> 1 + bytes[types[t].child]
          [] types[t].kind = "array" -> 2 + DigitCount(types[t].count) + bytes[types[t].child]
  IN  bytes

(* Diagnostics.  A message that names types is put together in a buffer on *)
(* the stack first, around `text` bytes of words.                          *)

Diagnostic(severity, what, at) == <<[severity |-> severity, what |-> what, at |-> at]>>
Problem(what, at) == Diagnostic("error", what, at)
Fits(text, bytes) == text + bytes < MessageBytes
------------------------------------------------------------------------------
(* Frames and nodes.                                                       *)

Node(kind, type, data, at) == [kind |-> kind, type |-> type, data |-> data, at |-> at]

NoResult == Node("missing", 0, <<>>, <<>>)

\* The call that lowers an AST node; reads: does a variable count as used?
LowerCall(id, reads) == <<[at |-> "lower", id |-> id, reads |-> reads]>>

Top == calls[1]
At(label) == status = "running" /\ calls # <<>> /\ Top.at = label
Lowering(kinds) == At("lower") /\ Kind(Top.id) \in kinds

Become(frames) == calls' = frames \o Tail(calls)

\* The end of a step: nodes and locals allocated, diagnostics recorded, the
\* types looked up or added, and the limits that abort the process.
Commit(more_nodes, more_locals, errors, typing) ==
  /\ nodes' = nodes \o more_nodes
  /\ locals' = locals \o more_locals
  /\ diagnostics' = diagnostics \o errors
  /\ types' = typing.table
  /\ status' = IF Len(diagnostics') > MaxDiagnostics THEN "too_many_diagnostics"
               ELSE IF Len(nodes') > MaxNodes THEN "too_many_nodes"
               ELSE IF Len(locals') > MaxLocals THEN "too_many_locals"
               ELSE IF typing.full THEN "too_many_types"
               ELSE "running"
  /\ UNCHANGED <<ast, next, start, functions>>

Stay == Commit(<<>>, <<>>, <<>>, SameTypes)

Call(frames) == Become(frames) /\ UNCHANGED <<result, temp, used>>

\* Return a node to the frame below.
Return(kind, type, data) ==
  /\ Become(<<>>)
  /\ result' = Node(kind, type, data, Top.id)
  /\ UNCHANGED used

\* Return a node without a value, or one that stands for an error.
ReturnVoid(kind, data, more_nodes, errors) ==
  LET void == WithType(types, Void)
  IN  Commit(more_nodes, <<>>, errors, void) /\ Return(kind, void.index, data)
ReturnMissing(errors) == ReturnVoid("missing", <<>>, <<>>, errors) /\ UNCHANGED temp

\* Abort while a message that names types is put together.
MessageTooLong ==
  /\ status' = "message_too_long"
  /\ UNCHANGED <<ast, calls, result, temp, next, start, hir, used, diagnostics>>
ReturnMistyped(what, at, text, shown) ==
  IF Fits(text, shown) THEN ReturnMissing(Problem(what, at)) ELSE MessageTooLong
------------------------------------------------------------------------------
Init ==
  /\ ast \in Asts
  /\ calls = <<>>
  /\ result = NoResult
  /\ temp = <<>>
  /\ next = 1
  /\ start = 0
  /\ nodes = <<>> /\ locals = <<>> /\ types = <<>> /\ functions = <<>>
  /\ used = {}
  /\ diagnostics = <<>>
  /\ status = "running"

(* lower()                                                                 *)

Idle == status = "running" /\ calls = <<>>

\* Mutant: the loop goes on with the same function.
SkipFunctionForever ==
  /\ Idle
  /\ next <= Len(ast.functions)
  /\ ast.functions[next].name = NoName
  /\ UNCHANGED vars

\* Functions without a name are left out.
SkipFunction ==
  /\ Idle
  /\ next <= Len(ast.functions)
  /\ ast.functions[next].name = NoName
  /\ next' = next + 1
  /\ UNCHANGED <<ast, calls, result, temp, start, hir, used, diagnostics, status>>

\* Mutant: the locals of the functions before stay in scope.
BeginFunctionKeepsScope ==
  /\ Idle
  /\ next <= Len(ast.functions)
  /\ ast.functions[next].name # NoName
  /\ calls' = LowerCall(Statement(ast.functions[next].body), TRUE) \o <<[at |-> "function"]>>
  /\ UNCHANGED <<ast, result, temp, next, start, hir, used, diagnostics, status>>

BeginFunction ==
  /\ Idle
  /\ next <= Len(ast.functions)
  /\ ast.functions[next].name # NoName
  /\ start' = Len(locals)
  /\ calls' = LowerCall(Statement(ast.functions[next].body), TRUE) \o <<[at |-> "function"]>>
  /\ UNCHANGED <<ast, result, temp, next, hir, used, diagnostics, status>>

EndFunction ==
  /\ At("function")
  /\ nodes' = Append(nodes, result)
  /\ functions' = Append(functions,
       [name |-> ast.functions[next].name, body |-> Len(nodes) + 1,
        locals_start |-> start, locals_count |-> Len(locals) - start])
  /\ next' = next + 1
  /\ status' = IF Len(nodes') > MaxNodes THEN "too_many_nodes" ELSE "running"
  /\ Become(<<>>)
  /\ UNCHANGED <<ast, result, temp, start, locals, types, used, diagnostics>>

\* One warning for each local that is never read.
UnusedUpTo[l \in 0 .. Len(locals)] ==
  IF l = 0 THEN <<>>
  ELSE IF l \in used THEN UnusedUpTo[l - 1] ELSE Append(UnusedUpTo[l - 1], l)
UnusedLocals == UnusedUpTo[Len(locals)]

EndLower ==
  /\ Idle
  /\ next > Len(ast.functions)
  /\ diagnostics' = diagnostics \o
       [i \in DOMAIN UnusedLocals |->
          Diagnostic("warning", "unused_variable", locals[UnusedLocals[i]].at)[1]]
  /\ status' = IF Len(diagnostics') > MaxDiagnostics THEN "too_many_diagnostics" ELSE "done"
  /\ UNCHANGED <<ast, calls, result, temp, next, start, hir, used>>
------------------------------------------------------------------------------
(* lowerExpressionInner()                                                  *)

LowerMissing ==
  /\ Lowering({"missing"})
  /\ ReturnMissing(<<>>)

LowerLiteral ==
  /\ Lowering({"int_literal"})
  /\ LET t == WithType(types, I64)
     IN  /\ Commit(<<>>, <<>>, <<>>, t)
         /\ Return("int_literal", t.index, Data(Top.id))
  /\ UNCHANGED temp

\* lookupLocal()
Visible(name) == {l \in start + 1 .. Len(locals) : locals[l].name = name}
LookupLocal(name) ==
  IF Visible(name) = {} THEN NoLocal
  ELSE CHOOSE l \in Visible(name) : \A m \in Visible(name) : l <= m

\* Mutant: an assignment to a variable counts as a use of it.
LowerVariableAlwaysReads ==
  /\ Lowering({"variable"})
  /\ LET local == LookupLocal(Data(Top.id)[1])
     IN  /\ local # NoLocal
         /\ result' = Node("variable", locals[local].type, <<local>>, Top.id)
         /\ used' = used \cup {local}
  /\ Stay
  /\ Become(<<>>)
  /\ UNCHANGED temp

LowerVariable ==
  /\ Lowering({"variable"})
  /\ LET local == LookupLocal(Data(Top.id)[1])
     IN  /\ local # NoLocal
         /\ result' = Node("variable", locals[local].type, <<local>>, Top.id)
         /\ used' = IF Top.reads THEN used \cup {local} ELSE used
  /\ Stay
  /\ Become(<<>>)
  /\ UNCHANGED temp

UndefinedVariable ==
  /\ Lowering({"variable"})
  /\ LookupLocal(Data(Top.id)[1]) = NoLocal
  /\ ReturnMissing(Problem("undefined_variable", Top.id))

(* Most nodes lower their operands from left to right, allocate each of    *)
(* them at once, and only then look at what they have got.  `done` holds   *)
(* the nodes of the operands lowered so far.                               *)

Operands(id) ==
  LET d == Data(id)
  IN  CASE Kind(id) \in BinaryOperators \cup {"index"} -> <<Expression(d[1]), Expression(d[2])>>
        [] Kind(id) \in {"address_of", "dereference", "return"} -> <<Expression(d[1])>>
        [] Kind(id) = "local_definition" -> <<Expression(d[2])>>
        [] Kind(id) = "while" -> <<Expression(d[1]), Statement(d[2])>>
        [] Kind(id) = "if" -> <<Expression(d[1]), Statement(d[2])>> \o
                                (IF d[3] = NoNode THEN <<>> ELSE <<Statement(d[3])>>)

LowerOperands(id, done) ==
  LowerCall(Operands(id)[Len(done) + 1], TRUE) \o <<[at |-> "operands", id |-> id, done |-> done]>>

BeginOperands ==
  /\ Lowering(BinaryOperators \cup {"address_of", "dereference", "index"})
  /\ Stay
  /\ Call(LowerOperands(Top.id, <<>>))

\* Control flow has its type, void, before its operands are lowered.
BeginControlFlow ==
  /\ Lowering({"return", "if", "while"})
  /\ Commit(<<>>, <<>>, <<>>, WithType(types, Void))
  /\ Call(LowerOperands(Top.id, <<>>))

AllocateOperand ==
  /\ At("operands")
  /\ LET done == Append(Top.done, Len(nodes) + 1)
     IN  /\ Commit(<<result>>, <<>>, <<>>, SameTypes)
         /\ Call(IF Len(done) < Len(Operands(Top.id)) THEN LowerOperands(Top.id, done)
                 ELSE <<[at |-> "finish", id |-> Top.id, done |-> done]>>)

Finishing(kinds) == At("finish") /\ Kind(Top.id) \in kinds
Operand(i) == nodes[Top.done[i]]
OperandType(i) == types[Operand(i).type]

\* The type is that of the left operand, whatever the right one's.
FinishBinaryOperation ==
  /\ Finishing(BinaryOperators)
  /\ Stay
  /\ Return(Kind(Top.id), Operand(1).type, Top.done)
  /\ UNCHANGED temp

FinishAddressOf ==
  /\ Finishing({"address_of"})
  /\ LET t == WithType(types, Pointer(Operand(1).type))
     IN  /\ Commit(<<>>, <<>>, <<>>, t)
         /\ Return("address_of", t.index, Top.done)
  /\ UNCHANGED temp

FinishDereference ==
  /\ Finishing({"dereference"})
  /\ OperandType(1).kind = "pointer"
  /\ Stay
  /\ Return("dereference", OperandType(1).child, Top.done)
  /\ UNCHANGED temp

DereferenceOfNonPointer ==
  /\ Finishing({"dereference"})
  /\ OperandType(1).kind # "pointer"
  /\ ReturnMistyped("cannot_dereference", Operand(1).at, 42, ShownBytes[Operand(1).type])

\* Mutant: the type of the array is not checked.
FinishIndexOfAnything ==
  /\ Finishing({"index"})
  /\ OperandType(2).kind = "i64"
  /\ Stay
  /\ Return("index", OperandType(1).child, Top.done)
  /\ UNCHANGED temp

FinishIndex ==
  /\ Finishing({"index"})
  /\ OperandType(2).kind = "i64"
  /\ OperandType(1).kind = "array"
  /\ Stay
  /\ Return("index", OperandType(1).child, Top.done)
  /\ UNCHANGED temp

IndexIsNotAnInteger ==
  /\ Finishing({"index"})
  /\ OperandType(2).kind # "i64"
  /\ ReturnMistyped("non-integer_index", Operand(1).at, 32, ShownBytes[Operand(2).type])

IndexOfNonArray ==
  /\ Finishing({"index"})
  /\ OperandType(2).kind = "i64"
  /\ OperandType(1).kind # "array"
  /\ ReturnMistyped("cannot_index", Operand(1).at, 39, ShownBytes[Operand(1).type])
------------------------------------------------------------------------------
(* Array literals and blocks collect their children in a builder in temp   *)
(* memory, then allocate them next to each other and clear the builder.    *)

Builder(label) == [at |-> label, id |-> Top.id, base |-> Len(temp), count |-> 0, child |-> 0]
Built == SubSeq(temp, Top.base + 1, Top.base + Top.count)

\* Mutant: the node before the first.
FirstOfBuiltOffByOne == IF Top.count = 0 THEN NoNode ELSE Len(nodes)
FirstOfBuilt == IF Top.count = 0 THEN NoNode ELSE Len(nodes) + 1
ChildrenLeft == Top.count < Data(Top.id)[2]
NextChild == Data(Top.id)[1] + Top.count
Pushed(label) == [Top EXCEPT !.at = label, !.count = Top.count + 1]

BeginArray ==
  /\ Lowering({"array_literal"})
  /\ LET void == WithType(types, Void)
     IN  /\ Commit(<<>>, <<>>, <<>>, void)
         /\ Call(<<[Builder("array") EXCEPT !.child = void.index]>>)

BeginElement ==
  /\ At("array")
  /\ ChildrenLeft
  /\ Stay
  /\ Call(LowerCall(Expression(NextChild), TRUE) \o <<[Top EXCEPT !.at = "element"]>>)

\* Mutant: the types of the elements are not compared.
AnyElementTypes == TRUE

\* The first element with a type other than void decides on the child type.
ElementTypes == TypeKind(Top.child) = "void" \/ result.type = Top.child

EndElement ==
  /\ At("element")
  /\ ElementTypes
  /\ Stay
  /\ temp' = Append(temp, result)
  /\ Become(<<[Pushed("array") EXCEPT
                 !.child = IF TypeKind(@) = "void" THEN result.type ELSE @]>>)
  /\ UNCHANGED <<result, used>>

MistypedElement ==
  /\ At("element")
  /\ ~ElementTypes
  /\ IF Fits(32, ShownBytes[Top.child] + ShownBytes[result.type])
     THEN LET void == WithType(types, Void)
          IN  /\ Commit(<<>>, <<>>, Problem("mistyped_element", result.at), void)
              /\ temp' = Append(temp, Node("missing", void.index, <<>>, result.at))
              /\ Become(<<Pushed("array")>>)
              /\ UNCHANGED <<result, used>>
     ELSE MessageTooLong

EndArray ==
  /\ At("array")
  /\ ~ChildrenLeft
  /\ \E padding \in Paddings :
       LET t == WithType(types, Array(Top.child, Top.count, padding))
       IN  /\ Commit(Built, <<>>, <<>>, t)
           /\ Return("array_literal", t.index, <<FirstOfBuilt, Top.count>>)
  /\ temp' = SubSeq(temp, 1, Top.base)

BeginBlock ==
  /\ Lowering({"block"})
  /\ Stay
  /\ Call(<<Builder("block")>>)

BeginBlockStatement ==
  /\ At("block")
  /\ ChildrenLeft
  /\ Stay
  /\ Call(LowerCall(Statement(NextChild), TRUE) \o <<[Top EXCEPT !.at = "block_statement"]>>)

EndBlockStatement ==
  /\ At("block_statement")
  /\ Stay
  /\ temp' = Append(temp, result)
  /\ Become(<<Pushed("block")>>)
  /\ UNCHANGED <<result, used>>

\* Mutant: the builder is not cleared.
EndBlockKeepsTemp ==
  /\ At("block")
  /\ ~ChildrenLeft
  /\ ReturnVoid("block", <<FirstOfBuilt, Top.count>>, Built, <<>>)
  /\ UNCHANGED temp

EndBlock ==
  /\ At("block")
  /\ ~ChildrenLeft
  /\ ReturnVoid("block", <<FirstOfBuilt, Top.count>>, Built, <<>>)
  /\ temp' = SubSeq(temp, 1, Top.base)
------------------------------------------------------------------------------
(* lowerStatement().  It looks for definitions without a name as well, but *)
(* the parser only ever leaves out the names of functions.                 *)

FinishControlFlow ==
  /\ Finishing({"return", "if", "while"})
  /\ Stay
  /\ Return(Kind(Top.id), WithType(types, Void).index,
            IF Kind(Top.id) = "if" /\ Len(Top.done) = 2 THEN Append(Top.done, NoNode)
            ELSE Top.done)
  /\ UNCHANGED temp

\* The value is not even looked at.
ShadowingDefinition ==
  /\ Lowering({"local_definition"})
  /\ LookupLocal(Data(Top.id)[1]) # NoLocal
  /\ ReturnMissing(Problem("cannot_shadow", Top.id))

BeginDefinition ==
  /\ Lowering({"local_definition"})
  /\ LookupLocal(Data(Top.id)[1]) = NoLocal
  /\ Stay
  /\ Call(LowerOperands(Top.id, <<>>))

FinishDefinition ==
  /\ Finishing({"local_definition"})
  /\ LET void == WithType(types, Void)
         local == [name |-> Data(Top.id)[1], type |-> Operand(1).type, at |-> Top.id]
         lhs == Node("variable", local.type, <<Len(locals) + 1>>, <<>>)
     IN  /\ Commit(<<lhs>>, <<local>>, <<>>, void)
         /\ Return("assign", void.index, <<Len(nodes) + 1, Top.done[1]>>)
  /\ UNCHANGED temp

BeginAssign ==
  /\ Lowering({"assign"})
  /\ Stay
  /\ Call(LowerCall(Expression(Data(Top.id)[1]), FALSE)
            \o <<[at |-> "assign_lhs", id |-> Top.id]>>)

BeginAssignedValue ==
  /\ At("assign_lhs")
  /\ Stay
  /\ Call(LowerCall(Expression(Data(Top.id)[2]), TRUE)
            \o <<[at |-> "assign_rhs", id |-> Top.id, lhs |-> result]>>)

\* Mutant: the sides are allocated in the order they are not referred to.
FinishAssignSwapped ==
  /\ At("assign_rhs")
  /\ Top.lhs.type = result.type
  /\ ReturnVoid("assign", <<Len(nodes) + 2, Len(nodes) + 1>>, <<Top.lhs, result>>, <<>>)
  /\ UNCHANGED temp

FinishAssign ==
  /\ At("assign_rhs")
  /\ Top.lhs.type = result.type
  /\ ReturnVoid("assign", <<Len(nodes) + 1, Len(nodes) + 2>>, <<Top.lhs, result>>, <<>>)
  /\ UNCHANGED temp

MismatchedAssign ==
  /\ At("assign_rhs")
  /\ Top.lhs.type # result.type
  /\ ReturnMistyped("mismatched_assignment", result.at, 32,
                    ShownBytes[Top.lhs.type] + ShownBytes[result.type])
------------------------------------------------------------------------------
Expressions ==
  \/ LowerMissing \/ LowerLiteral \/ LowerVariable \/ UndefinedVariable
  \/ BeginOperands \/ AllocateOperand
  \/ FinishBinaryOperation \/ FinishAddressOf
  \/ FinishDereference \/ DereferenceOfNonPointer
  \/ FinishIndex \/ IndexIsNotAnInteger \/ IndexOfNonArray
  \/ BeginArray \/ BeginElement \/ EndElement \/ MistypedElement \/ EndArray

Statements ==
  \/ BeginControlFlow \/ FinishControlFlow
  \/ ShadowingDefinition \/ BeginDefinition \/ FinishDefinition
  \/ BeginAssign \/ BeginAssignedValue \/ FinishAssign \/ MismatchedAssign
  \/ BeginBlock \/ BeginBlockStatement \/ EndBlockStatement \/ EndBlock

Next == SkipFunction \/ BeginFunction \/ EndFunction \/ EndLower \/ Expressions \/ Statements

Spec == Init /\ [][Next]_vars

\* The compiler is one thread that keeps running.
FairSpec == Spec /\ WF_vars(Next)
------------------------------------------------------------------------------
(* Properties.                                                             *)

\* The nodes a node of the HIR refers to.
Children(node) ==
  LET d == node.data
  IN  CASE node.kind \in {"block", "array_literal"} -> d[1] .. d[1] + d[2] - 1
        [] node.kind \in {"int_literal", "variable", "missing"} -> {}
        [] OTHER -> {d[i] : i \in DOMAIN d} \ {NoNode}

Bodies == {functions[i].body : i \in DOMAIN functions}
Errors == {i \in DOMAIN diagnostics : diagnostics[i].severity = "error"}
Reported(what) == {diagnostics[i].at : i \in {j \in DOMAIN diagnostics : diagnostics[j].what = what}}

Ids == ({"expression"} \X DOMAIN ast.expressions) \cup ({"statement"} \X DOMAIN ast.statements)
Spans == Ids \cup {<<>>}
TypeIds == DOMAIN types
NodeKinds ==
  BinaryOperators \cup
    {"missing", "int_literal", "variable", "address_of", "dereference", "index",
     "array_literal", "assign", "if", "while", "return", "block"}
Nodes == [kind : NodeKinds, type : TypeIds, data : Seq(Int), at : Spans]
Frames ==
  [at : {"function"}]
    \cup [at : {"lower"}, id : Ids, reads : BOOLEAN]
    \cup [at : {"operands", "finish"}, id : Ids, done : Seq(DOMAIN nodes)]
    \cup [at : {"array", "element", "block", "block_statement"},
          id : Ids, base : Nat, count : Nat, child : TypeIds \cup {0}]
    \cup [at : {"assign_lhs"}, id : Ids]
    \cup [at : {"assign_rhs"}, id : Ids, lhs : Nodes]

\* The type of every variable; every node, local and type has a type that
\* the table holds already.
TypeOK ==
  /\ calls \in Seq(Frames)
  /\ result \in Nodes \cup {NoResult}
  /\ temp \in Seq(Nodes)
  /\ next \in 1 .. Len(ast.functions) + 1
  /\ start \in 0 .. Len(locals)
  /\ nodes \in Seq(Nodes)
  /\ \A l \in DOMAIN locals : locals[l].type \in TypeIds /\ locals[l].at \in Ids
  /\ \A t \in TypeIds : /\ types[t].kind \in {"void", "i64", "pointer", "array"}
                        /\ types[t].kind \in {"pointer", "array"} => types[t].child \in 1 .. t - 1
  /\ \A f \in DOMAIN functions :
       /\ functions[f].body \in DOMAIN nodes
       /\ functions[f].locals_start + functions[f].locals_count \in 0 .. Len(locals)
  /\ used \subseteq DOMAIN locals
  /\ \A d \in DOMAIN diagnostics : diagnostics[d].at \in Ids
  /\ status \in {"running", "done", "too_many_nodes", "too_many_locals", "too_many_types",
                 "too_many_diagnostics", "message_too_long"}

(* The HIR is a forest built bottom up: children come before their parent, *)
(* no node has two parents, and a function's body has none.  Code is then  *)
(* generated for each node once (codegen.c:301-447).                       *)
NodesFormTrees ==
  /\ \A i \in DOMAIN nodes : Children(nodes[i]) \subseteq 1 .. i - 1
  /\ \A i, j \in DOMAIN nodes : i # j => Children(nodes[i]) \cap Children(nodes[j]) = {}
  /\ \A i \in DOMAIN nodes : Children(nodes[i]) \cap Bodies = {}
  /\ Cardinality(Bodies) = Len(functions)

IsBuilder(f) == f.at \in {"array", "element", "block", "block_statement"}
NoBuilder(i, j) == \A k \in i .. j : ~IsBuilder(calls[k])

(* The literals and blocks being lowered share the arena m->temp: each     *)
(* finds exactly the nodes it pushed, between its base and the base of the *)
(* one nested in it (lower.c:304-364, 567-590).                            *)
BuildersNested ==
  LET Holds(f, end) == f.base + f.count = end
  IN  /\ NoBuilder(1, Len(calls)) => temp = <<>>
      /\ \A i \in {k \in DOMAIN calls : IsBuilder(calls[k])} :
           /\ NoBuilder(1, i - 1) => Holds(calls[i], Len(temp))
           /\ \A j \in 1 .. i - 1 : IsBuilder(calls[j]) /\ NoBuilder(j + 1, i - 1) =>
                Holds(calls[i], calls[j].base)
           /\ NoBuilder(i + 1, Len(calls)) => calls[i].base = 0

(* What codegen takes for granted of every node that is not missing, even  *)
(* in a program with errors, and whatever the padding of types: the types  *)
(* of operands fit (lower.c:206, 248, 269, 490), and an element of a       *)
(* literal that does not have the child type has none (lower.c:319-348).   *)
WellTypedNode(n) ==
  LET child(i) == nodes[n.data[i]]
      type == types[n.type]
  IN  CASE n.kind = "variable" -> n.type = locals[n.data[1]].type
        [] n.kind = "address_of" -> type = Pointer(child(1).type)
        [] n.kind = "dereference" -> types[child(1).type] = Pointer(n.type)
        [] n.kind = "index" -> /\ types[child(1).type].kind = "array"
                               /\ types[child(1).type].child = n.type
                               /\ types[child(2).type] = I64
        [] n.kind = "assign" -> child(1).type = child(2).type
        [] n.kind \in BinaryOperators -> n.type = child(1).type
        [] n.kind = "array_literal" ->
             /\ type.kind = "array"
             /\ type.count = n.data[2]
             /\ \A i \in Children(n) :
                  nodes[i].type = type.child \/ TypeKind(nodes[i].type) = "void"
        [] OTHER -> TRUE
WellTyped == \A i \in DOMAIN nodes : WellTypedNode(nodes[i])

(* A program without errors and without values of type void, which only    *)
(* empty arrays have elements of, has no missing node, and its literals    *)
(* pass the assertion that all elements have the child type                *)
(* (codegen.c:275): what is wrong is always reported.                      *)
NoVoidValues ==
  \A i \in DOMAIN ast.expressions :
    LET e == ast.expressions[i]
    IN  e.kind # "missing" /\ ~(e.kind = "array_literal" /\ e.data[2] = 0)
CleanMeansWellTyped ==
  status = "done" /\ Errors = {} /\ NoVoidValues
    /\ (\A i \in DOMAIN ast.statements : ast.statements[i].kind # "missing") =>
    \A i \in DOMAIN nodes :
      /\ nodes[i].kind # "missing"
      /\ nodes[i].kind = "array_literal" =>
           \A j \in Children(nodes[i]) : nodes[j].type = types[nodes[i].type].child

(* Lowering ends, in success or with the process aborted.                  *)
LowersToTheEnd == <>(status # "running")
==============================================================================
