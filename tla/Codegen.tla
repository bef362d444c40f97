-------------------------------- MODULE Codegen --------------------------------
(***************************************************************************)
(* codegen.c: the HIR of each function becomes a stack frame and AArch64   *)
(* code.  A step generates one function: laying out a frame and generating *)
(* a node are recursive functions, which see no other step.                *)
(*                                                                         *)
(* An instruction is a tuple of its mnemonic and operands; labels are      *)
(* tuples too.  The four instructions of a call of memcpy are one.         *)
(*                                                                         *)
(* A definition marked "Mutant" is no part of the model: it is what the    *)
(* definition after it becomes with a plausible bug, and a run finds the   *)
(* bug when it is put in that definition's place.                          *)
(***************************************************************************)
EXTENDS StackLayout, SequencesExt

VARIABLES
  nodes, locals, functions,  \* the rest of the HIR, which codegen only reads
  frames,     \* the stack layouts: local_offsets and temporary_offsets
  assembly,   \* the instructions emitted
  generated,  \* how many functions have been
  problems,   \* the nodes reported as "not_an_lvalue"
  outcome     \* "running", "done", or why the process aborted

hir == <<nodes, locals, types, functions>>
vars == <<hir, frames, assembly, generated, problems, outcome>>

NoNode == 0
BinaryOperators == {"+", "-", "*", "/", "==", "!=", "<", "<=", ">", ">="}
------------------------------------------------------------------------------
(* What is in a frame.                                                     *)

\* The nodes below a node, in the order allocateTemporaries() visits them.
List(d) == [i \in 1 .. d[2] |-> d[1] + i - 1]
Below(n) ==
  LET d == nodes[n].data
  IN  CASE nodes[n].kind \in {"missing", "int_literal", "variable"} -> <<>>
        [] nodes[n].kind \in {"array_literal", "block"} -> List(d)
        [] nodes[n].kind = "index" -> <<d[2], d[1]>>
        [] nodes[n].kind = "if" -> IF d[3] = NoNode THEN <<d[1], d[2]>> ELSE d
        [] OTHER -> d

\* The first k of some sequences, one after the other.
Concatenated(parts, k) ==
  LET upto[i \in 0 .. k] == IF i = 0 THEN <<>> ELSE upto[i - 1] \o parts[i]
  IN  upto[k]

\* The array literals at or below a node, each after those inside it.
LiteralsBy(literals, n) ==
  LET below == Concatenated([i \in DOMAIN Below(n) |-> literals[Below(n)[i]]], Len(Below(n)))
  IN  IF nodes[n].kind = "array_literal" THEN Append(below, n) ELSE below
Literals == LET literals[n \in DOMAIN nodes] == LiteralsBy(literals, n) IN literals

\* The slots of a frame: the function's locals, then the literals.
Slots(f) ==
  LET local(i) == Slot("local", i, locals[i].type)
      literal(n) == Slot("literal", n, nodes[n].type)
      literals == Literals[f.body]
  IN  [i \in 1 .. f.locals_count |-> local(f.locals_start + i)]
      \o [i \in 1 .. Len(literals) |-> literal(literals[i])]

\* Mutant: the frame is not rounded up.
UnroundedLayout(f) == [Frame(Slots(f)) EXCEPT !.size = Ends(Slots(f))[Len(Slots(f))]]

\* calculateStackLayout()
Layout(f) == Frame(Slots(f))

OffsetOf(layout, what, index) ==
  LET at == CHOOSE i \in DOMAIN layout.slots :
              layout.slots[i].what = what /\ layout.slots[i].index = index
  IN  layout.slots[at].offset
------------------------------------------------------------------------------
(* Generating code.  What a node emits depends on the counter of labels:   *)
(* it is a function from the counter before it to the code, the counter    *)
(* after it, the nodes reported, and whether an assertion has failed.      *)

Emits(code, problemsFound, hasFailed) ==
  [id \in Nat |-> [code |-> code, id |-> id, problems |-> problemsFound, failed |-> hasFailed]]
Emit(code) == Emits(code, <<>>, FALSE)
Report(n) == Emits(<<>>, <<n>>, FALSE)
Check(holds) == Emits(<<>>, <<>>, ~holds)

\* One after the other.
Then(p, q) ==
  [id \in Nat |->
    LET first == p[id]
        second == q[first.id]
    IN  [code |-> first.code \o second.code, id |-> second.id,
         problems |-> first.problems \o second.problems,
         failed |-> first.failed \/ second.failed]]
InOrder(pieces) ==
  LET upto[i \in 0 .. Len(pieces)] ==
        IF i = 0 THEN Emit(<<>>) ELSE Then(upto[i - 1], pieces[i])
  IN  upto[Len(pieces)]

Push == <<"str_x8_[sp_-16]">>
Pop(register) == <<"ldr_[sp]_16", register>>
SubFp(offset) == <<"sub_x8_fp", offset>>
Label(label) == <<"label", label>>

\* load() and store() by type
Load(t) == IF types[t].kind \in {"i64", "pointer"} THEN <<<<"ldr_x8_[x8]">>>> ELSE <<>>
Store(t) ==
  <<Pop("x9")>> \o
    CASE types[t].kind = "void" -> <<>>
      [] types[t].kind \in {"i64", "pointer"} -> <<<<"str_x8_[x9]">>>>
      [] types[t].kind = "array" -> <<<<"memcpy_x9_x8", Size[t]>>>>

\* Mutant: the operands are the other way round.
OperatorSwapped(o) == <<<<"mov_x9_x8">>, Pop("x8"), <<"x8_x9_x8", o>>>>
Operator(o) == <<<<"mov_x9_x8">>, Pop("x8"), <<"x8_x8_x9", o>>>>

ElementOffset(offset, child, i) == (offset - Size[child] * i) % SizeModulus

\* Mutant: the counter is taken but not moved on.
TakeLabelAgain(id) == id
TakeLabel(id) == id + 1

\* An element of an array literal, an if and a while: c is the name and the
\* stack layout of the function, gen what the nodes below n emit.
GenElement(c, gen, n, i) ==
  LET element == nodes[n].data[1] + i
      child == types[nodes[n].type].child
  IN  InOrder(<<
        Check(nodes[element].type = child),
        Emit(<<SubFp(ElementOffset(OffsetOf(c.layout, "literal", n), child, i)), Push>>),
        gen[element].value,
        Emit(Store(child))>>)

GenIf(c, gen, n, id) ==
  LET d == nodes[n].data
      else == <<"ELSE", c.name, id>>
      endif == <<"ENDIF", c.name, id>>
  IN  InOrder(<<
        gen[d[1]].value,
        Emit(<<<<"cbz", else>>>>),
        gen[d[2]].value,
        Emit(<<<<"b", endif>>, Label(else)>>),
        IF d[3] = NoNode THEN Emit(<<>>) ELSE gen[d[3]].value,
        Emit(<<Label(endif)>>)>>)

GenWhile(c, gen, n, id) ==
  LET d == nodes[n].data
      while == <<"WHILE", c.name, id>>
      endwhile == <<"ENDWHILE", c.name, id>>
  IN  InOrder(<<
        Emit(<<Label(while)>>),
        gen[d[1]].value,
        Emit(<<<<"cbz", endwhile>>>>),
        gen[d[2]].value,
        Emit(<<<<"b", while>>, Label(endwhile)>>)>>)

\* A node where a value is wanted, and where an address is.
GenAddress(c, gen, n) ==
  LET d == nodes[n].data
      kind == nodes[n].kind
  IN  CASE kind = "variable" -> Emit(<<SubFp(OffsetOf(c.layout, "local", d[1]))>>)
        [] kind = "dereference" -> gen[d[1]].value
        [] kind = "index" -> InOrder(<<
             gen[d[1]].address,
             Emit(<<Push>>),
             gen[d[2]].value,
             Emit(<<<<"mov_x9", Size[nodes[n].type]>>, <<"x8_x8_x9", "*">>, Pop("x9"),
                    <<"x8_x8_x9", "+">>>>)>>)
        [] kind = "array_literal" ->
             Then(InOrder([i \in 1 .. d[2] |-> GenElement(c, gen, n, i - 1)]),
                  Emit(<<SubFp(OffsetOf(c.layout, "literal", n))>>))
        [] OTHER -> Report(n)

\* %d of a u64: its low 32 bits, signed.
Immediate(value) == ((value + SizeModulus \div 2) % SizeModulus) - SizeModulus \div 2

Gen(c, gen, n) ==
  LET d == nodes[n].data
      kind == nodes[n].kind
      type == nodes[n].type
  IN  CASE kind = "missing" -> Emit(<<>>)
        [] kind = "int_literal" -> Emit(<<<<"mov_x8", Immediate(d[1])>>>>)
        [] kind \in {"variable", "index"} -> Then(GenAddress(c, gen, n), Emit(Load(type)))
        [] kind \in BinaryOperators ->
             InOrder(<<gen[d[1]].value, Emit(<<Push>>), gen[d[2]].value, Emit(Operator(kind))>>)
        [] kind = "address_of" -> gen[d[1]].address
        [] kind = "dereference" -> Then(gen[d[1]].value, Emit(Load(type)))
        [] kind = "array_literal" -> GenAddress(c, gen, n)
        [] kind = "assign" ->
             InOrder(<<gen[d[1]].address, Emit(<<Push>>), gen[d[2]].value,
                       Emit(Store(nodes[d[2]].type))>>)
        [] kind = "if" -> [id \in Nat |-> GenIf(c, gen, n, id)[TakeLabel(id)]]
        [] kind = "while" -> [id \in Nat |-> GenWhile(c, gen, n, id)[TakeLabel(id)]]
        [] kind = "return" ->
             Then(gen[d[1]].value, Emit(<<<<"mov_x0_x8">>, <<"b", <<"RETURN", c.name>>>>>>))
        [] kind = "block" -> InOrder([i \in 1 .. d[2] |-> gen[d[1] + i - 1].value])

GenBy(c, gen, n) == [address |-> GenAddress(c, gen, n), value |-> Gen(c, gen, n)]
Code(c) == LET gen[n \in DOMAIN nodes] == GenBy(c, gen, n) IN gen

\* genPrologue() and genEpilogue()
Prologue(size) == <<<<"sub_sp", 16>>, <<"stp_fp_lr_[sp]">>, <<"mov_fp_sp">>, <<"sub_sp", size>>>>
Epilogue(size) == <<<<"add_sp", size>>, <<"ldp_fp_lr_[sp]">>, <<"add_sp", 16>>, <<"ret">>>>

FunctionCode(f, layout, body) ==
  <<Label(<<"_", f.name>>)>> \o Prologue(layout.size) \o body
    \o <<Label(<<"RETURN", f.name>>)>> \o Epilogue(layout.size)
------------------------------------------------------------------------------
Init ==
  /\ frames = <<>>
  /\ assembly = <<>>
  /\ generated = 0
  /\ problems = <<>>
  /\ outcome = "running"

\* One function.  The layout comes first; dividing by zero may trap.
GenerateFunction ==
  /\ outcome = "running"
  /\ generated < Len(functions)
  /\ LET f == functions[generated + 1]
         layout == Layout(f)
         body == Code([name |-> f.name, layout |-> layout])[f.body].value[0]
     IN  \E traps \in BOOLEAN :
           IF traps /\ layout.zero
           THEN /\ outcome' = "division_by_zero"
                /\ UNCHANGED <<frames, assembly, generated, problems>>
           ELSE /\ outcome' = IF body.failed THEN "assertion_failed" ELSE "running"
                /\ frames' = Append(frames, layout)
                /\ assembly' = assembly \o FunctionCode(f, layout, body.code)
                /\ problems' = problems \o body.problems
                /\ generated' = generated + 1
  /\ UNCHANGED hir

EndCodegen ==
  /\ outcome = "running"
  /\ generated = Len(functions)
  /\ outcome' = "done"
  /\ UNCHANGED <<hir, frames, assembly, generated, problems>>

Next == GenerateFunction \/ EndCodegen
------------------------------------------------------------------------------
(* Properties.                                                             *)

(* codegen.c:460: the frame has enough space for all local variables.      *)
EnoughSpaceForLocals ==
  \A f \in DOMAIN frames : \A i \in DOMAIN frames[f].slots :
    frames[f].slots[i].offset <= frames[f].size

(* Of the frame just made, the slots are apart, as far as no type has size *)
(* zero and no offset passes 2^32 (codegen.c:138-147, 497-511).            *)
FramesAreDisjoint ==
  \A f \in DOMAIN frames :
    f = generated /\ ~frames[f].zero /\ OffsetsFit(frames[f]) => SlotsAreApart(frames[f])

(* When all functions have been generated, no label is defined twice, and  *)
(* every branch goes to one of its own function, if no two functions have  *)
(* the same name (codegen.c:401-427, 497-511).                             *)
LabelsAreUnique ==
  LET defined == {i \in DOMAIN assembly : assembly[i][1] = "label"}
      branches == {i \in DOMAIN assembly : assembly[i][1] \in {"b", "cbz"}}
  IN  /\ outcome = "running" /\ generated = Len(functions)
      /\ IsInjective([i \in DOMAIN functions |-> functions[i].name])
      => /\ \A i, j \in defined : i # j => assembly[i] # assembly[j]
         /\ \A i \in branches : \E j \in defined :
              /\ assembly[j][2] = assembly[i][2]
              /\ \A k \in defined : assembly[k][2][1] = "_" => (k < i <=> k < j)
==============================================================================
