# minic, in TLA+

A verification project for minic, a small compiler from a C-like language to
AArch64 assembly, written in C (the repository this directory accompanies;
paths below are relative to it). It consists of TLA+ modules that model the
compiler's stages, configurations with which TLC checks them on small
instances, and proofs that TLAPS checks for every instance.

- [The system](#the-system): parts, state, interactions, what is hard
- [The modules](#the-modules): which models what, and how it corresponds
- [The runs](#the-runs): what each checks, its bounds, what it shows
- [Fairness](#fairness)
- [What is proved](#what-is-proved)
- [Disagreements found](#disagreements-found)
- [Not modelled](#not-modelled)
- [Plan](#plan)

## The system

minic is one process with one thread. `main.c` finds the project's files,
and runs stage after stage over them; a stage reads the output of the one
before and never goes back. The stages share memory only through arenas
(`bump.c`), which are passed by pointer: *general* memory lives as long as the
process, *temp* memory is cleared by whoever took a mark.

    project.c   file names and contents          (all files)
    lex.c       characters  -> token buffer      (all files)
    intern.c    spellings   -> identifier IDs    (all files at once)
    parse.c     tokens      -> AST               (file by file, from here on)
    lower.c     AST         -> HIR
    codegen.c   HIR         -> assembly, appended to one text
    main.c      show the diagnostics; if there were errors, exit 1;
                otherwise write out.s, run `as` and `ld`

| Component | State it keeps | Operations | What makes it correct |
|---|---|---|---|
| Interner (`intern.c`) | open-addressing hash table in temp memory; contents by ID; an ID per token | `intern`, `processToken`, `internerLookup` | two tokens have one ID exactly if they have one spelling; the probe loop ends; every identifier token gets an ID that looks up to its spelling |
| Parser (`parse.c`) | cursor, AST arrays, element and statement builders on one temp arena, diagnostics; and, in the C stack, the recursive descent | `parse`, `function`, `statement`, `blockStatement`, `expression`, `expressionBindingPower`, `expressionLhs`, `indexExpression`, `expect`, `error`, `astDebug` | it accepts the language and builds its trees; it reaches the end of the file whatever the errors; recovery loses no function; nodes form trees; builders nest; a limit is reported when it is exceeded |
| Lowering (`lower.c`) | HIR arrays (nodes, locals, types, functions), the scope (`current_function_locals_start` and the locals from it on), used flags, builders in temp memory, diagnostics | `lower`, `lowerStatement`, `lowerExpression`, `lookupLocal`, `allocateNode`, `allocateLocal`, `allocateType`, `hirDebug` | names resolve by the scope rules; unused variables are the never-read ones; a node that is not missing is well typed even in a program with errors; what is wrong is reported |
| Code generator (`codegen.c`) | offset of each local, frame size, label counter, the text | `codegen`, `calculateStackLayout`, `gen`, `genAddress`, `load`, `store`, `genPrologue`, `genEpilogue` | locals do not overlap and lie in the frame; labels are unique; pushes match pops on every path; the code computes what the program means |
| Driver (`main.c`) | the token buffers, one assembly and one storage of diagnostics for all files, the current file | `main` | every program is compiled, and equal ones alike; errors are shown and decide on the exit code; out.s is written only for programs without errors |
| Lexer (`lex.c`) | position, tokens, diagnostics | `lex` | longest match; every character that is not white space is in a token or reported |
| Diagnostics (`diagnostics.c`) | up to 1024 diagnostics | `diagnosticsStorageRecord`, `diagnosticsStorageShow` | shown in order, in the right file, on the right line, with marks under what is wrong; the limit aborts |
| Arenas (`bump.c`, `string_builder.c`, `memory.c`) | bytes used, nesting of builders | `bumpAllocateArray`, `bumpStartArrayBuilder`, `arrayBuilderPush`, `bumpFinishArrayBuilder`, string builders, marks | no overlap, alignment, contents stay; a cleared mark frees exactly what came after it |
| Project discovery (`project.c`) | file names and contents, the current file | `projectDiscover`, `setCurrentFile` | every `.mc` file, once |
| Test runner (`test.c`) | `.expected` and `.actual` files | `runTests` | what is expected stays; `.actual` files are those of failed tests |
| Utilities (`utils.c`) | none that outlives a call | `fxhash`, `internalError`, logging | |

What is hard here. Nothing runs concurrently and there are no messages, and only
the last steps and the tests leave files for the next run, so the difficulty is
elsewhere: recursive functions that
share arenas and cursors while they wait for one another (*which* nodes are in
temp memory when a nested builder finishes?); a state that one branch leaves
for another (the scope after a skipped function, a label counter, the stack
pointer at a join of two paths); recovery, which must go on after an error and
must not drop what follows; going on *after* errors, with missing nodes, into
lowering and code generation; loops whose end depends on data (the probe, the
parser's loops, the loops of the generated program); many files that share
globals, storages and arenas; failures of `write`, `as` and `ld` that nobody looks
at; and integers: table sizes, u16 counts checked in the wrong order, alignments of
zero.
`PROJECT.json` lists each of these hazards at its line, with the properties
that would notice it going wrong.

## The modules

Recursive functions of the C code are modelled as a stack of *frames*, `calls`:
a frame says where a waiting function will go on (`at`) and holds its local
variables; `result` is what the function that just returned gave back. An action
is what happens between two calls or returns, with all its side effects. A call
that cannot call back (`expect`, `lookupLocal`, `allocateType`...) is an operator
used in the action. Positions and IDs count from 1, and 0 is "none".

### Interner: `StringTable`, `Interner`, `InternerProofs`, `MCInterner`

`StringTable` is the abstract promise: a list of spellings and a link per
identifier token. A step links some token that is not linked yet, to the index
of its spelling (`LinkKnown`), or by appending it if it is not there
(`LinkNew`). It knows no hash and no order of the tokens.

`Interner` is `intern.c`. `phase` says which loop `intern()` is in, `buf_index`
and `token` are the loops' counters (`NextBuffer`, `SkipToken`), `AllocateTable`
is the counting and the allocation, `BeginProbe`, `NoMatch`, `Link`, `Insert` are
the parts of `processToken`: every probe is one step. The four parallel
arrays of slots are one function, `slots`. `Hash` is any function from spellings
to naturals. `ImplementsTable` is the refinement: `contents` and `ids` are the
abstract table's, `Link` implements `LinkKnown`, `Insert` implements `LinkNew`,
and every other step is a stutter.

### Parser: `AbstractSyntax`, `Parser`, `Grammar`, `Printer`, `MCParser`, `ParserProofs`, `ParserAstProofs`

`AbstractSyntax` is the AST as `minic.h` declares it, which the parser hands over to
lowering: `IsAst` says that every node has the data of its kind, that the nodes it refers
to are in the arrays, and that those of a list are in one range.

`Parser` is `parse.c` up to its debug printer. `tokens` is a sequence of token
kinds; a token's span is determined by its position, which is enough for
properties about spans. One action per piece of each function: for example
`BeginIndex` and `EndIndex` are the two halves of `indexExpression()`, around the
recursive `expression()`. `Expect` and `Error` model `expect` and
`error` with the three modes of recovery; `Commit` is what every action does
with the outcome: move the cursor, append diagnostics and nodes, and abort the
process when a limit is exceeded (`status`). The four limits are
constants; `CountModulus` is the width of the u16 with which elements are
counted.

`Grammar` states the language again, top down and by sets: the programs up to a
length and their trees, with precedence and associativity.

`Printer` is the debug printers: `AstWords` is `astDebug` and `HirWords` is
`hirDebug`, as the sequence of words they print, with the name or number a word
stands for; spaces and line breaks are left out.

`MCParser` compares the AST of a program with the grammar's tree. Then
`ParseAgain` gives the parser what `AstWords` has printed of it: the brackets that
`debugExpression` puts around operators must lead to the same tree, with the same
names and numbers in their places, and to the same words.

### Lowering: `Lower`, `SyntaxTrees`, `MCLower`, `LowerProofs`

`Lower` is `lower.c` up to its debug printer. `start` is the first local of
the current function's scope; `used` stands for the flags of `local_used`;
`types` is the table of types, in which the same type may occur many times;
`types[t].padding` models the bytes of a `hirTypeData` that nobody initializes but
`memcmp` compares: whether two entries of equal meaning compare equal is a
nondeterministic choice (`Paddings = {0, 1}`). `ShownBytes` counts the bytes of
a type's name, because messages are formatted into buffers of a fixed size
(`MessageBytes`): one that does not fit ends the process.

Lowering follows the indices of the AST without looking whether they are there. What
it takes for granted is `IsAst` of `AbstractSyntax`; that the `Asts` are such is an
assumption of the module, which TLC evaluates on every run, and what the parser
guarantees (`AstIsComplete`, proved).

`SyntaxTrees` builds the AST arrays for the runs, in the order the parser
allocates. `MCLower` states the rules of scoping again, in terms of the text of
a function: `Scope` lists definitions and uses from left to right and says
which definition each use means, which definitions shadow, and which are never
read. `CleanMeansFaithful` compares `HirWords` with `AstWords` (`Printer`), word for
word.

### Code generation: `StackLayout`, `Codegen`, `Compiler`, `Execution`, `Machine`, `Semantics`, `MCCompiler`, `CompilerProofs`

`StackLayout` is the part of `codegen.c` that places slots in a frame, with `hirTypeSize`
and `hirTypeAlign` of `lower.c`: it needs nothing but the table of types.
`Codegen` is the rest of `codegen.c`: `Slots` are what the loops over locals and nodes find a
place for, `Gen` and `GenAddress` are what `gen` and `genAddress` emit for a node. That depends
on the counter of labels, and on what the nodes below emit: a piece of code is a function of
the counter, with the instructions, the counter afterwards and the diagnostics as its
value, `Then` puts one behind another, and `Code` is the recursive function that has the
pieces of all nodes (recursive operators cannot be proved about). Instructions are tuples,
such as `<<"cbz", label>>`. `Immediate` is what `%d` prints of a literal.
One step generates one function: nothing can observe it in between.

`Machine` is external: the meaning of those instructions, with words that
nobody has written reading as `Junk`, and `memcpy` leaving every
caller-saved register `Junk`. `Semantics` is an interpreter of the *AST*: it knows
neither of lowering nor of memory, arrays are values, pointers are paths.
`Compiler` puts `Lower` and `Codegen` together as `main.c` does with one file: `LowerStep`,
`CodegenStep`, then `ShowErrors` or `WriteAssembly`. `Execution` goes on from there: somebody
calls a function that means something (`CallFunction`) and the `Machine` runs the assembly.
The parser is not part of this composition: `SyntaxTrees` gives ASTs in its place.
It is part of the next one, which ends where `Machine` begins.

### The process: `Driver`, `Lexemes`, `Lexer`, `Diagnostics`, `TestRunner`, `MCDriver`, `LexerProofs`, `ProcessProofs`

`Driver` is `main.c` and `project.c`, from the entries of the directory to `out`.
`stage` is what `main()` is doing, or how the process ended. Directory entries come
in any order (`ReadEntry`); then the files are lexed one after the other
(`BeginLexing`, `Lex`, `EndLexing`), and parsed, lowered and generated one after
the other (`BeginParsing` ... `EndGenerating`): `Lex`, `Parse`, `LowerAst`, `Generate`
are the steps of `Lexer`, `Parser`, `Lower` and `Codegen` themselves. In between the
driver does what the code does: it carries over the tokens, the AST with its
spellings and values (`SpelledAst`), the HIR and the assembly, and `Record` appends
the diagnostics of a pass for the current file and evaluates the assertion
that temporary memory is empty. `Parser` and `Lower` share the variables for the C
stack and for `m->temp`. `ShowDiagnostics` decides on the exit code;
`WriteAssembly`, `Assemble` and `Link` may each succeed or fail without anybody
noticing, and what they make then depends on what an earlier run has left on the
`disk`. `as` and `ld` are external: one refuses a label defined twice, the other code
without `_main`. An identifier is its spelling, which is what `intern` makes of
the IDs of all files (`SameIdIffSameText`, proved).

`Lexer` is the loop of `lex()`, a branch an action, over sequences of characters.
`TokensAreLongestLexemes` states what it has found again, without its order of
branches: `KindsOf` tells from a piece of text alone what it is. Which characters are
letters, digits and spaces are constants; that they are not in one another's way, nor
in that of the signs, and that a C string has no zero byte in it, are its assumptions.
They are declared in `Lexemes`, with the tables at the top of `lex.c`, and the run of
`Driver`, whose files have these texts, evaluates them. `Diagnostics` are the functions that find the line and the column of a
span and print the line with its marks; `ShowsItsLine` says what is to be
seen. `TestRunner` is `runTests()`: what a pass prints, which files there are
already, and whether the pass aborts are arbitrary. Its writes and removals may fail or be cut
short without anybody looking (`Written`; `unnoticed` are the tests with a file that is not
what it should be), and a file that could not be created ends the process when it is read.

### Arenas: `ObjectStack`, `Arena`, `MCArena`, `ArenaProofs`

`ObjectStack` is what an arena promises: objects that are created, extended if they
are the youngest, written to by their owner, and released youngest first, and
that otherwise keep their contents. `Arena` is `bump.c` and `string_builder.c` with
bytes and addresses: an action is a whole function, with its assertions and its
out-of-memory abort, and the client calls them in any order it may (it pushes
only to its youngest builder; that parser and lowering do so is `BuildersNested`).
`stringBuilderFinish()` writes its terminator without a check. Where something has
been printed, the assertion of the last printf is what makes room for it, and the model has
nothing else; where nothing has, nothing in `string_builder.c` does, and the client is taken to
finish an empty string only in an arena with a byte left (`ByteLeft`). So does minic: without
diagnostics `main.c:60-62` does it in temporary memory that is empty (asserted in lines 23 and 56),
without functions `main.c:65` in the 16 MB of the assembly, and the printers of a program without
functions (`parse.c:1003-1018`, `lower.c:1065-1086`) in temporary memory that has been cleared.
`ImplementsObjects` is the refinement: the objects are read back from the bytes.

## The runs

| Run | Checks | Instance |
|---|---|---|
| `interner` | type, IDs, lookup, probes, termination, refinement | every project of at most 4 tokens in one file or split in two, over 4 spellings of which two have the same hash, one the next, and one a hash that collides in small tables |
| `interner_load` | *violated*: the load factor | the same, at most 2 tokens |
| `parser` | type, agreement with the grammar and of what is printed, trees, completeness of the AST, builders, spans of diagnostics, recovery, end | after `return`, all sequences of up to 4 of 12 tokens, the programs of up to 6 of 7 tokens, and `n op n op n` for all operators; bodies of up to 4 of 9 tokens; branches and loops, 5 of 5 tokens; errors between functions and in arrays, 4 of 8 tokens |
| `parser_resilient` | *violated*: no limit on errors is met | two tokens after `[` |
| `parser_limit` | *violated*: the limit is reported | limits scaled to 3 expressions and a count modulo 4 |
| `lower` | type, trees, builders, types of nodes, faithfulness, scopes, unused variables, end | five families of programs: typing one level deep and two levels deep, scopes over branches, loops and functions, missing nodes, long type names |
| `compiler` | frames, labels, balance of the stack, meaning, end | trees of two operators; arrays of arrays, by value and through pointers; branches and loops with returns; errors and two functions |
| `compiler_frame` | *violated*: room for all locals | an empty array among locals |
| `compiler_resilient` | *violated*: no assertion fails | the array of `tests_lower/mixed_array_literal_element_types.mc` |
| `driver` | type, longest match, diagnostics, equal files, exit code and `out`, tests, end | every text of up to 4 of 7 characters; every pair of 11 programs, with warnings, with errors of each pass and on several lines, with a program that aborts; an assignment with any up to 3 of 7 tokens in it; three files of which two are the same, with one of 11 in between, before or after; four files, so that the counter is 0 again; other entries of the directory; any failures of the last steps; two directories with a test each, in any state |
| `arena` | type, no overlap, nesting, alignment, refinement | an arena of 6 bytes, elements of 1 and 3 bytes, up to 3 objects and 2 marks |
| `arena_alignment` | *violated*: builders are aligned | characters, then a builder of elements with alignment 4 |

**Why the bounds are enough.** *Interner*: four tokens make tables of 0 to 5
slots. Two spellings with equal hash, a third one in the way of their chain, and
one whose home slot coincides in a small table only, make chains that wrap
around and that run through one another; a table of 1 and of 2 slots is full.
Longer inputs repeat these cases, and the theorems hold for all. *Parser*: what a
function of the parser does depends on the current token, on its frame and at
most on the frame below. The openings reach every function, and tails of four
or five tokens are long enough for two nested calls and what follows them. Every
pair of binary operators occurs in `n op n op n`, which determines precedence
and associativity of all chains; brackets, prefixes and indices are printed in
programs of up to nine tokens, nested in one another. Sequences that are not programs are a large
majority, so recovery is exercised in every function. The grammar's length bound
of a family is that of its longest inputs. *Lowering*: every kind of expression
occurs as an operand of every other that takes operands; two functions with the
same names are enough for a variable to be found in the wrong one; a definition before, inside
and after each kind of branch. `MessageBytes` is scaled from 128 to 56, so that
types three to seven arrays deep fall on both sides of it. *Compiler*:
`SizeModulus` stands for 2^32, the modulus of sizes and offsets, and is far
above the sizes of the runs, so that no size overflows in them (TLC's own
integers end below 2^32); the stack has 1024 bytes, more than any frame and its
pushes need; `MaxIterations`, 6,
bounds only what has a meaning (longer loops mean nothing, and are not called).
585 programs are run to their end. *Driver*: texts of four characters have every
pair of neighbouring tokens, the two characters of a token apart and together, and
a keyword with a character before and after it; pairs of files are enough for
what one leaves to the next, each of the 11 programs ends a pass in its own
way, and between two equal files it is another one that may have left something; an assignment with parts of it missing is where the spans of expressions that are not
there come into diagnostics. `FileModulus`, 4, stands for 65536. *Arena*: six bytes hold two objects of
three, so that alignment leaves gaps, and every operation meets the end of the
arena; three objects nest two builders in a string or an array.

`MaxExpressions`, `MaxStatements`, `MaxDiagnostics`, `MaxNodes`, `MaxLocals` and
`MaxTypes` stand for 65536 and 1024; except in `parser_limit` and
`parser_resilient` they are larger than the programs that get to the end need,
so that the runs are not cut off by them (14 diagnostics in `parser`: four `set` in a
block make 13; in `driver`, 14 are what the program that gets stuck needs).

Deadlock is checked for `compiler` and `driver`, where the end of everything is a
step (`Stop`): a machine with no instruction to execute, or a stage that hands over
something the next one has no step for, would be a deadlock. The other
specifications end in a state without successor, and say `CHECK_DEADLOCK FALSE`;
that they end only where they should is `Termination`, `ParsesToTheEnd`,
`LowersToTheEnd`.

Every property has a *mutant*: an operator next to the definition it replaces,
marked `Mutant`, that contains a plausible bug, and with which the property fails
in the run that checks it.

## Fairness

minic has a single thread that never waits for anything: while a stage has a
step, it takes it. This is weak fairness of the next-state relation as a whole,
and no more is assumed; in particular no action is favoured over another. For
`Execution`, the thread is first the compiler's and then that of the program it
made. Because the runs of `Execution` and `Driver` have no deadlock,
`[]<>Ended \/ []<><<TRUE>>_vars` is the same as weak fairness, and saves TLC from
running a pass to find out whether a step is enabled. `as`, `ld` and the passes
that the tests run are taken to return.

## What is proved

`InternerProofs` proves, for every set of spellings, every project and every hash
function, that is, for any number of tokens, files and collisions:

| Theorem | Says |
|---|---|
| `InvariantHolds` | `Spec => []IInv`, the inductive invariant |
| `TypeCorrect` | `TypeOK` |
| `LookupCorrect` | `LookupIsInverse`: exactly the tokens passed are linked, to an ID in range that looks up to the token's spelling |
| `ProbingCorrect` | `ProbeChains` |
| `ProbeLoopHasAnEnd` | `ProbeCanStop`: there is an empty slot whenever a probe runs |
| `IdsStandForNames` | `SameIdIffSameText` |
| `Refinement` | `Spec => Table!Spec` |

Assumptions: `Empty` is not a slot, `NotIdentifier` is not a spelling, projects
are sequences of sequences of these, and `Hash` maps spellings to naturals. They are
declared in `Interner` and TLC evaluates them in each of its runs.

The argument. `IInv` adds to the type and the two checked invariants:
`StartInv` (before the table exists, nothing is linked), `SizeInv` (the size is
that of the number of identifier tokens), `SlotInv` (slots and `contents` are
inverse to one another: each slot's ID leads to its spelling, its
hash is that of the spelling, and each ID has its slot), `CountInv` (there are
no more occupied slots than identifier tokens passed), and `ProbeInv` (the slots
the probe has left behind are occupied, by other spellings).
`IdsStandForNames` needs that a spelling is in at most one slot. `Insert` must
therefore know that the spelling is nowhere in the table when the probe finds an
empty slot: if it were in slot *s*, then by `ProbeChains` the slots from its home to *s*
are all occupied, so the empty slot is not among them and the probe has been at *s*
already; but by `ProbeInv` the spelling was not there. `ProbeLoopHasAnEnd` is
counting: with the token at hand not yet passed, the occupied slots are
fewer than identifier tokens, of which there are at most as many as slots — even
though, by `interner_load`, the table can be full afterwards. `Termination` itself
(that the probe reaches such a slot) is a liveness property, and TLC's alone.

`ParserProofs` proves, for every sequence of tokens, however long and wrong, and for
all limits:

| Theorem | Says |
|---|---|
| `TypeCorrect` | `TypeOK`: the cursor stays within the tokens; builders read what is in the arena |
| `AlwaysAPreviousToken` | `PreviousTokenExists`: `cursor - 1` is a token wherever the code reads it |
| `NoFunctionIsLost` | `EveryFunctionSurvives`: error recovery skips no `func` |
| `BuildersShareTheArena` | `BuildersNested`: between its base and that of the builder nested in it, each builder has what it counted, modulo the width of the count |
| `EveryDiagnosticMarksText` | `DiagnosticsMarkText`: a diagnostic marks at least a character, after the first token |

Assumptions: the inputs are sequences of kinds of tokens, and the limits and
`CountModulus` are positive (`InputsAssumption`, `LimitsAssumption` in `Parser`).

The argument. `IInv` is these properties with two facts about the stack of
frames. `StackInv`: the frame of `function()` is at the bottom and nowhere else, so
the stack is empty again exactly when `EndFunction` returns, which is when the
number of functions catches up with the number of `func` tokens passed.
`BuildersFit`: what a builder has counted is in the arena, below the base of every
builder nested in it. `TypeOK` alone is not inductive: `EndArray` reads the arena
from the builder's base on, and cuts it back to that base, so it must be known that the
elements are there and that those of the outer builders stay. The count is a u16 that
may have wrapped around, so that it is equal to the number of elements only
modulo `CountModulus`. One lemma, `Step`, covers every action of a function above
`function()`: the cursor moves past tokens that are not `func` (`Passes`), and the
top frame is replaced by well-formed ones. `ErrorFact` shows that `error()` moves so
in each of its modes, "eat all" only where the caller has tested for `func`.

For `EveryDiagnosticMarksText`, most errors are reported at the previous or the current token, which
`IInv` knows to be there. The exception is the statement that is dropped because
a block belongs in its place: its span is that of the node, so `SpansInv` says
where the frames that will end a span have started (`StartFits`), and that what
is dropped is a statement, which is missing or marks text (`Droppable`). An
expression would not do: the span of a missing one may be empty, and that none is
ever returned to `not_a_block` takes a fact about neighbours in the stack.

`ParserAstProofs` proves, under the same assumptions:

| Theorem | Says |
|---|---|
| `AstIsAForest` | `NodesFormTrees`: children precede their parent, no node is the child of two, every function has a body of its own |
| `AstIsWellFormed` | `AstIsComplete`: every node has the data of its kind and refers to nodes that are there |

*The forest.* `NodesFormTrees` is about allocated nodes only and far from inductive:
most nodes that exist are not allocated yet, but are the result, in the
arena or in a frame that waits, and refer to allocated ones. `TreesInv` therefore
has an *owner* for each index of an expression or a statement: the place of the
one node that refers to it, which is an index of an array, a place in the
arena, a frame, the result or a function. That the owner is a function is what
keeps two nodes from sharing a child, and that a node which is allocated
owns smaller indices is what keeps it from being its own ancestor. Every step moves what
one or two places own to others, and gives the nodes it allocates to one
(`Moved`): pushing an element gives what the result owned to a place in the
arena, `EndArray` gives that to the expressions it allocates and these to the
result. With `BuildersNested` in `IInv`, the elements of a builder are its own. It holds even when
the count of a builder has wrapped around: elements are lost then, but none is
shared.

*The shapes.* That what a node refers to is there follows from `TreesInv`, if the node
has data of its kind; so `ShapesInv` is about kinds. An expression is returned to a
frame that waits for an expression, and a statement to one that waits for a statement
(`Takes`, and `Returns` for neighbours in the stack), the elements of an array literal
are expressions and those of a block statements (`TempFits`: the `Holder` of a place
of the arena is the builder that pushed it), and every node, allocated or not, is of
a shape of its side. It holds as well when the count of a builder has wrapped around, and
when a limit has ended the process.

`LowerProofs` proves, for every AST the parser may leave, any limits and whichever
types compare equal:

| Theorem | Says |
|---|---|
| `TypeCorrect` | `TypeOK`: every index in a node, local, type, function or frame is that of an entry |
| `BuildersShareTheArena` | `BuildersNested`: array literals and blocks find in `m->temp` the nodes they pushed |
| `HirIsWellTyped` | `WellTyped`: the operands of a node have the types that codegen takes for granted, in programs with errors as well |
| `HirIsAForest` | `NodesFormTrees` of `Lower`: a node is allocated after the nodes it refers to, and these are nobody else's |

Assumptions: the ASTs are as `IsAst` says, some padding is possible, and the limits
are positive (`AstsAssumption`, `PaddingsAssumption`, `LimitsAssumption` in `Lower`).
For the parser's output the first one is the theorem `AstIsWellFormed`, for any input. What is
in between, that `SpelledAst` puts spellings and values in the places of positions, is in
`DriverTypeCorrect`, below: `DriverTypeOK` has `IsAst` of what is lowered.

The argument. A node is well typed with respect to tables that grow: it may be
the result, on the arena or in a frame long before it is allocated, and its
children's types are looked up in tables that have more entries by then. So what
is known of a node (`Sound`: it refers to entries of the tables, and is well
typed) has the tables as a parameter, `g`, and so has what is known of frames; one
group of lemmas shows that all of it stays true when the tables grow (`Grows`:
entries are only ever added), and `Settled` packs what each action shows of the
tables it leaves. `IInv` says that the nodes allocated,
those on the arena, the result and the left-hand sides that wait in frames are
sound; that frames are those of expressions and statements of the right kind, with
as many operands as are still needed (`FrameFits`); that the elements an array
literal has collected have its child type, or none (`ElementsFit`), which
`EndArray` needs and which the node pushed last cannot tell; and that builders
divide the arena (`Fill`, by the places where what each frame has pushed ends).
A type may occur in the table twice, when padding makes equal types compare
different; an `assign` nevertheless has operands with the same *index*, and
`dereference` and `index` have the child that the table gives for the operand.
`UnusedExists` shows that the recursive function `UnusedUpTo` has a value for every
number of locals, by the well-foundedness of `<`: a minimal counterexample takes the place
of the induction theorems.

*The forest.* The argument for `HirIsAForest` is that of `AstIsAForest`: `TreesInv` says that every index that something
refers to has one owner. Besides nodes, functions and the elements of the arena, the owner
may be the result a call has just returned, or a frame, by the operands that are
allocated but have no parent yet (`done`) or by what the left-hand side of an assignment
refers to while its value is lowered. A frame is named by its height above the bottom, so
that owners stay what they are while frames come and go above them. Most actions move what
the result and the top frame own to one place each, and give a node they allocate to one
(`Moved`, `MoveStep`): `AllocateOperand` makes the result a node of the table that owns
what the result did, and the frame the owner of that node. Only the end of an array or a block
moves what many places of the arena own (`BuiltStep`); that these are the builder's
own elements is what `BuildersNested` says.

`LexerProofs` proves, for every text, and whatever the characters of each class are:

| Theorem | Says |
|---|---|
| `LexerFindsLongestLexemes` | `TokensAreLongestLexemes`: the tokens are the longest lexemes from left to right, between them is only whitespace, and what is no lexeme is reported, once and in order |

Assumptions: `ClassesAssumption`, `TextsAssumption` in `Lexemes`. The run `driver` checks
`TokensAreLongestLexemes` while each file is lexed; the theorem is about `Lexer` itself,
whose `Spec` takes any of the texts, and `FilesAreLexed`, below, about the files of the process.

The argument has two parts. What a piece of text may be is decided by its first character
(`LetterKinds`, `DigitKinds`, `SignKinds`), so that for each branch there is a lemma that
the token it pushes is the longest: a run ends where its class ends (`PieceOfClass`), no
sign is longer than two characters (`SignPiece`), and no two keywords have the same
spelling (`KeywordsDiffer`), without which `ConvertKeyword` would have a choice.
`LexerInv` then says this of the tokens so far, that they are in order with only whitespace
between them and up to the offset (`OrderInv`, `BlankInv`), and that the *n*-th diagnostic
is at the *n*-th error among them (`Reported`), which takes counting. The order of the
branches matters in one place: `OneChar` and `Invalid` need that no token of two
characters fits.

`CompilerProofs` proves, for every AST the parser may leave, whatever its types, and for any
number of functions:

| Theorem | Says |
|---|---|
| `FramesAreKeptApart` | `FramesAreDisjoint`: in a frame, slots are aligned, within the frame, and apart from each other |
| `LabelsNeverClash` | `LabelsAreUnique`: no label is defined twice, and a branch goes to a label of its own function |

Assumptions: those of `LowerProofs`, and that `SizeModulus` is a multiple of 8 above 8 (it is 2^32;
`SizeModulusAssumption` in `Compiler`). `FramesAreDisjoint` is about frames in which no slot has
alignment zero, the run `compiler_frame` has the others, and in which no sum made of offsets is
larger than the modulus (`OffsetsFit`), as nothing in the code checks it. `LabelsAreUnique` is about
functions with different names; equal ones are in the run `driver`.

*Frames.* Sizes and alignments are multiples of 8 (`SizesAreWords`), which is why rounding up
to any of them keeps what is a multiple of 8 one (`RoundUpFact`), although arrays of arrays have
alignments that are no powers of two. So a slot starts where the one before it ends or later
(`SlotStep`), ends ascend (`EndsAscend`), and the frame is rounded up from the last.

*Labels.* `Contains` says which labels code defines, each once, and to which labels it branches,
and `Part` says it of a piece of code: from any counter on, its labels are numbered from the
counter before it to the counter after it, and its branches go to these or to the end of the
function. In a sequence each piece starts from the counter of the one before, so that their labels are apart
(`ThenPart`). An `if` or a `while` has taken its own number before its
parts are generated: its labels are apart from theirs because the counter is past that number
(`IfPart`, `WhilePart`), and it is only as a whole, with all of its labels behind the branches to
them, that it is a piece. `LabelsInv` then takes the functions one by one.

*Recursion.* The recursive functions `Size`, `Ends`, `Literals` and `Code` have to be shown to have a
value first, each by a minimal counterexample (`SizesExist`, `EndsExist`, `LiteralsExist`, `CodeExist`). They do, because of what
lowering leaves (`HirFact`): a type comes after the one it is made of (`TypesFounded`, from the
types that `LowerProofs` knows in the table), and a node after those it refers to (`HirIsAForest`).
The second is also the induction by which every node is a piece (`CodePiece`).

`ProcessProofs` proves, about the process, with any files in any order:

| Theorem | Says |
|---|---|
| `DriverTypeCorrect` | `DriverTypeOK`: the AST that is lowered, with spellings and values in it, is what lowering takes for granted; the current file is the one that is compiled |
| `FilesAreLexed` | `TokensAreLongestLexemes`, of every file `main()` lexes |
| `RunnerJudgesTests` | `TestsAreJudged`, for any tests and outputs |
| `DiagnosticsShowTheirLine` | `ShowsItsLine`, and the assertion of `diagnostics.c:34`, for any text and a span on one line that has an end |

Assumptions: those about characters (`Lexemes`) and limits (`Parser`), that files have such texts
(`ProjectsAssumption`), and that a digit has a value from 0 to 9 (`DigitsAssumption`). Nothing is
assumed of what one pass leaves to the next, which is what the first theorem is about.

*The passes together.* `DriverInv` says how far the process has come (there are as many token
buffers as files when compiling starts, so that a file that is compiled has one), and for each
pass that what it works on is in the state its own proof is about: `LexerInv` while a file is
lexed, and `IInv`, `TreesInv`, `ShapesInv` of the parser while one is parsed. Those proofs are
used as they are: `BeginLexing` and `BeginParsing` establish these
invariants, a step of a pass keeps its own, and all others leave its variables alone or leave the
stage. What has to be added is what is handed over. What lexing leaves (`IsBuffer`): tokens of kinds
the parser knows, each of some characters of the text, and a number of digits only
(`NumbersAreDigits`, of `KindsOf`). What parsing leaves: that every literal, wherever it is on its
way into the AST, is at the position of a number (`LiteralsInv`, in `ParserAstProofs`), so that
what `SpelledAst` makes of it is a value. That this is a number at all (`ValueIsNatural`) takes a
minimal counterexample, `ValueOf` being a recursive function of the digits. The shapes of nodes do not
depend on spellings and values, so the AST is as complete with them as
without (`SpelledAstIsAst`), and lowering reads it only (`NextAst`).

*Diagnostics.* That a tab and a space are not `^` or `~` is a hypothesis of `DiagnosticsShowTheirLine`, as is
that the span is not empty and ends in the text or just after it. The run `driver` checks
(`DiagnosticsAreShown`) that every diagnostic is such, except for those about an expression that is
missing (`SaidOfMissing`) and whose span is the gap between two tokens (`IsGap`). It goes from the token found in its place to the end of the token
before (`parse.c:217-218, 325`), so the span may be empty, or end before it starts, and lowering reports
at it: of `set a =` with `}` on the next line, `diagnostics.c:103-123` shows
the rest of the file and not that line. Nothing in the repository says what should be shown.
`Diagnostics` looks for the newlines around a span as the code does, up to the first that ends it
(`NewlinesBefore`; in a span that starts before it ends, these are all, by `ComesToAll`), `Line` counts
lines from the start of the text: `LinesBefore` shows that as many lines start before a line as there are newlines
before it, and `LineOfStart` that no two lines have the same number.

*Tests.* What is known of a test that has run is an invariant, because no test runs twice
(`JudgedInv`), and so it holds when a later test aborts the process; `TestStep` is what a step may change
of the files, and a pass that aborts changes none. `OutputsAssumption` says that no output looks like
a missing file. Of a test with a file that could not be written nothing is said but that what was expected
stays. The other steps of the process leave the tests alone (`TestingStep`).

`ArenaProofs` proves, for any size and place of the arena, any types whose alignment
divides their size, and any number of objects and marks:

| Theorem | Says |
|---|---|
| `TypeCorrect` | `TypeOK` |
| `ObjectsStayApart` | `ObjectsAreApart`: live objects are in the used part and do not overlap |
| `NestingIsCounted` | `NestingCountsBuilders` |
| `ArraysStayAligned` | `ArraysAreAligned` |
| `Refinement` | `ImplementsObjects`: the bytes implement the stack of objects |

Assumptions: `SizesAssumption`, `TypesAssumption`, `ValuesAssumption` in `Arena`.

The argument. `Layout` adds to the checked invariants that objects are in the order
of their addresses (`Apart`), what marks separate (`MarksInv`: a mark keeps
exactly the objects before it, and an open builder below it ends where the mark
is, so that it can go on when the mark is cleared), and that the youngest
builder ends where the used part ends (`GrowingInv`). A string needs one fact
more, that there is a byte left for its terminator, which `vsnprintf` writes behind what
is counted, and which marks and nested builders leave alone; for an empty string it is the
condition on the client, `ByteLeft`. The refinement reads objects back from the bytes: each step writes
only behind the objects that stay, so their contents do, and the lemmas on
division find the element a byte belongs to.

Only model-checked: all liveness; what the code generated does when it runs
(`ComputesItsMeaning`, `StackIsBalanced`), which takes an induction over the program as `Semantics`
interprets it, with recursive operators; of the process, where the passes' diagnostics are
(`DiagnosticsAreShown`), that files with the same text fare alike (`EqualFilesFareAlike`, which compares
two runs of each pass), and what becomes of given programs (`ExitTellsTheTruth`);
what the modules `MCParser`
and `MCLower` state with recursive definitions (`AgreesWithGrammar`, `CleanMeansFaithful`,
`ScopesFollowTheText`, `UnusedAreNeverRead`).

## Disagreements found

Each is a run that TLC must find violated; `PROJECT.json` quotes the lines.

1. `src/intern.c:79` — for one or two identifiers the table is full, not at
   three quarters. It works nonetheless.
2. `src/parse.c:280` — the loop of array literals does not advance at `)` or
   `=`: `func main { return [) }` fills the list of diagnostics and aborts.
3. `src/parse.c:285` — elements are counted by a u16 that wraps around
   before the limit is tested.
4. `src/codegen.c:275` — code is generated in spite of errors, and asserts
   on a literal whose elements are of different types: the abort comes before
   the diagnostics are shown. (`tests_lower/mixed_array_literal_element_types.mc`
   is tested with lowering only.)
5. `src/codegen.c:15` — an empty array has alignment zero, and rounding up to
   it divides by zero; where that yields zero, locals overlap.
6. `src/bump.c:137` — a builder starts at any address, whatever the alignment of
   its elements: what `parse` and `lower` build after characters or after smaller
   elements is accessed misaligned, which the sanitizer of the Makefile reports.

## Not modelled

- **Failing `opendir`, `open` and `read`** of the sources (`project.c`, `test.c`): the
  results are not checked, or asserted; what follows a failure is undefined, so
  `Driver` starts from files that can be read. The same goes for an `.expected` file
  that is there. An `.expected` file that could not be created is one that aborts the
  process (the assertion of `test.c:12`).
- **What nothing in the repository promises**: which message a long type name gets in
  128 bytes (`LowersToTheEnd` counts the abort as an end), what `out` is after a write, `as` or
  `ld` has failed unnoticed, also because two functions have one name, and which files
  are compiled when there are 65536 (`ExitTellsTheTruth` leaves those out). The models
  have all of this and the runs reach it, without a property.
- **Formatting**: spaces and line breaks of the debug printers, colours, the texts of
  messages but for their lengths where a buffer bounds them, the names of
  kinds of tokens (`lex.c:192-322`), `-d`, which only adds such output, and logging.
- **Utilities**: `fxhash` is any function; nothing calls `numCpus`.
- The depth of the C stack, 64-bit overflow in the generated program, encodings
  and ranges of immediates; sizes of 4 GB and more.
- A last line without a newline, and a span that is empty or ends before it starts:
  `diagnostics.c:103-123` then prints the
  text up to its end and no marks. The model has it (`ShownText`, `Marks`), but
  no property says what should be shown.

## Plan

The modules were written in this order, and in this order they are also the most important: what a
name means (`StringTable`, `Interner`), what a program is (`AbstractSyntax`, `Parser`, `Grammar`,
`Printer`), what it means and what its code does (`Lower`, `SyntaxTrees`, `StackLayout`, `Codegen`, `Machine`,
`Semantics`, `Compiler`, `Execution`), and then what they stand on and who calls them (`ObjectStack`,
`Arena`, `Lexer`, `Diagnostics`, `TestRunner`, `Driver`). Proofs followed each of them, where
they can be proved about.

What would come next is `StackIsBalanced`: that `sp` is the same on all paths to a label is a fact about
pieces of code as well, but its proof has to follow the machine through them.
