--------------------------------- MODULE Driver ---------------------------------
(***************************************************************************)
(* main.c and project.c: the whole process, from the entries of the        *)
(* directory to out.  It runs the Lexer over each file, then the Parser,   *)
(* Lower and Codegen over each file, shows the diagnostics, and calls the  *)
(* assembler and the linker, or it is the TestRunner.  Parser and Lower    *)
(* use the same C stack and the same m->temp, one after the other, so they *)
(* share `calls`, `result` and `temp` here, and the log and the status of  *)
(* the pass that runs.                                                     *)
(*                                                                         *)
(* An identifier stands for its spelling, as intern() makes an ID do for   *)
(* the tokens of all files (InternerProofs).                               *)
(*                                                                         *)
(* A definition marked "Mutant" is no part of the model: it is what the    *)
(* definition after it becomes with a plausible bug, and a run finds the   *)
(* bug when it is put in that definition's place.                          *)
(***************************************************************************)
EXTENDS Parser, Lexemes, SequencesExt

CONSTANTS
  Projects,     \* the entries the directory may have: name, regular, text
  FileModulus,  \* 2^16: num_files is a u16
  Newline, Tab, Space,  \* characters
  DigitValue,   \* of each digit
  MaxInteger,   \* the largest number strtoll() gives
  Paddings, MaxNodes, MaxLocals, MaxTypes, MessageBytes, SizeModulus,
  Tests, Outputs, Abort, Missing

ASSUME ProjectsAssumption ==
  <<>> \in Texts /\ \A p \in Projects : \A entry \in p : entry.text \in Texts
ASSUME OutputsAssumption == Abort \notin Outputs /\ Missing \notin Outputs
ASSUME DigitsAssumption == DigitValue \in [Digits -> 0 .. 9]
ASSUME FileAssumption == FileModulus \in Nat \ {0} /\ MaxInteger \in Nat

VARIABLES
  text, offset, lexed, invalid,                               \* of Lexer
  ast, next, start, nodes, locals, types, hirFunctions, used, \* of Lower
  frames, assembly, generated, problems, outcome,             \* of Codegen
  output, expected, actual, judged, unnoticed, verdict,       \* of TestRunner
  stage,     \* what main() is doing, or how the process ended
  directory, \* the entries of the directory
  unread,    \* those readdir() has not returned yet
  files,     \* current_project
  buffers,   \* token_buffers
  compiled,  \* how many files have been
  current,   \* current_file
  storage,   \* the diagnostics recorded
  disk,      \* out.s, out.o and out
  failed     \* what has failed unnoticed: "write", "as", "ld"

LX == INSTANCE Lexer
D == INSTANCE Diagnostics
L == INSTANCE Lower WITH Asts <- {}, NoName <- <<>>, functions <- hirFunctions
CG == INSTANCE Codegen WITH functions <- hirFunctions
T == INSTANCE TestRunner

lexing == <<text, offset, lexed, invalid>>
parsing == <<tokens, cursor, expressions, statements, functions>>
lowering == <<ast, next, start, nodes, locals, types, hirFunctions, used>>
pass == <<calls, result, temp, diagnostics, status>>
generating == <<frames, assembly, generated, problems, outcome>>
testing == <<output, expected, actual, judged, unnoticed, verdict>>
project == <<directory, unread, files>>
linking == <<disk, failed>>
driverVars == <<lexing, parsing, lowering, pass, generating, testing, stage, project, buffers,
                compiled, current, storage, linking>>
------------------------------------------------------------------------------
(* project.c                                                               *)

IsSource(entry) ==
  LET n == Len(entry.name)
  IN  entry.regular /\ n >= 4 /\ SubSeq(entry.name, n - 2, n) = <<".", "m", "c">>

\* projectDiscover(): an entry, in no particular order.  The counter is the
\* index of the next file, and starts again at 0.
ReadEntry ==
  /\ stage = "discover"
  /\ \E entry \in unread :
       /\ unread' = unread \ {entry}
       /\ files' = IF ~IsSource(entry) THEN files
                   ELSE IF Len(files) + 1 = FileModulus THEN <<>>
                   ELSE Append(files, [name |-> entry.name, text |-> entry.text])
  /\ UNCHANGED <<directory, lexing, parsing, lowering, pass, generating, testing, stage, buffers, compiled,
                 current, storage, linking>>

EndDiscovery ==
  /\ stage = "discover"
  /\ unread = {}
  /\ stage' = "read"
  /\ UNCHANGED <<lexing, parsing, lowering, pass, generating, testing, project, buffers, compiled,
                 current, storage, linking>>

\* Mutant: the current file is set once.
SetCurrentFileOnce(i) == current' = IF current = 0 THEN i ELSE current
SetCurrentFile(i) == current' = i

\* What a pass has recorded joins what there is, for the current file; then
\* comes the assertion that nothing is left in temporary memory.
Record(found, then) ==
  /\ storage' = storage \o [i \in DOMAIN found |-> found[i] @@ [file |-> current]]
  /\ stage' = IF Len(storage') > MaxDiagnostics THEN "aborted"
              ELSE IF temp # <<>> THEN "assertion_failed" ELSE then

Found(severity, what, from, to) ==
  [severity |-> severity, what |-> what, start |-> from, end |-> to]
------------------------------------------------------------------------------
(* The loop of lex(), and intern().                                        *)

BeginLexing ==
  /\ stage = "read"
  /\ Len(buffers) < Len(files)
  /\ SetCurrentFile(Len(buffers) + 1)
  /\ text' = files[Len(buffers) + 1].text
  /\ offset' = 0 /\ lexed' = <<>> /\ invalid' = <<>>
  /\ stage' = "lex"
  /\ UNCHANGED <<parsing, lowering, pass, generating, testing, project, buffers, compiled, storage,
                 linking>>

Lex ==
  /\ stage = "lex"
  /\ LX!Next
  /\ UNCHANGED <<parsing, lowering, pass, generating, testing, stage, project, buffers, compiled,
                 current, storage, linking>>

EndLexing ==
  /\ stage = "lex"
  /\ LX!AtEnd
  /\ buffers' = Append(buffers, LX!Tokens)
  /\ Record([i \in DOMAIN invalid |->
               Found("error", "invalid_token", invalid[i].start, invalid[i].end)], "read")
  /\ UNCHANGED <<lexing, parsing, lowering, pass, generating, testing, project, compiled, current,
                 linking>>

InternAll ==
  /\ stage = "read"
  /\ Len(buffers) = Len(files)
  /\ stage' = "compile"
  /\ UNCHANGED <<lexing, parsing, lowering, pass, generating, testing, project, buffers, compiled,
                 current, storage, linking>>
------------------------------------------------------------------------------
(* The loop of parse(), lower() and codegen().  Parser numbers the tokens  *)
(* and takes 2 * i and 2 * i + 1 for where token i starts and ends, and    *)
(* the end of a token plus one for the end of what is missing after it.    *)

Buffer == buffers[compiled + 1]
Content == files[compiled + 1].text

StartOffset(p) == IF p % 2 = 0 THEN Buffer[p \div 2].start ELSE Buffer[p \div 2].end
EndOffset(p) ==
  IF p = 0 THEN 0
  ELSE IF p % 2 = 1 THEN Buffer[p \div 2].end ELSE Buffer[p \div 2 - 1].end + 1

Spelling(i) == SubSeq(Content, Buffer[i].start + 1, Buffer[i].end)

\* strtoll(): the value of the first n digits.
Saturated(n) == IF n > MaxInteger THEN MaxInteger ELSE n
ValueOf(digits) ==
  LET value[n \in 0 .. Len(digits)] ==
        IF n = 0 THEN 0 ELSE Saturated(10 * value[n - 1] + DigitValue[digits[n]])
  IN  value[Len(digits)]

\* The nodes with their names, values and spans.
Spelled(n) ==
  [n EXCEPT !.data = CASE n.kind = "variable" -> <<Spelling(n.data[1])>>
                       [] n.kind = "int_literal" -> <<ValueOf(Spelling(n.data[1]))>>
                       [] n.kind = "local_definition" -> <<Spelling(n.data[1]), n.data[2]>>
                       [] OTHER -> n.data,
            !.start = StartOffset(n.start), !.end = EndOffset(n.end)]
SpelledAst ==
  [expressions |-> [i \in DOMAIN expressions |-> Spelled(expressions[i])],
   statements |-> [i \in DOMAIN statements |-> Spelled(statements[i])],
   functions |-> [i \in DOMAIN functions |->
     [functions[i] EXCEPT !.name = IF functions[i].name = NoName THEN <<>>
                                   ELSE Spelling(functions[i].name)]]]

BeginPass ==
  /\ calls' = <<>>
  /\ temp' = <<>>
  /\ diagnostics' = <<>>
  /\ status' = "running"

\* Mutant: the current file stays the last one that was lexed.
BeginParsingInLastFile ==
  /\ stage = "compile"
  /\ compiled < Len(files)
  /\ tokens' = [i \in DOMAIN Buffer |-> Buffer[i].kind]
  /\ cursor' = 0
  /\ expressions' = <<>> /\ statements' = <<>> /\ functions' = <<>>
  /\ BeginPass
  /\ result' = Node("missing", <<>>, 0, 0)
  /\ stage' = "parse"
  /\ UNCHANGED <<lexing, lowering, generating, testing, project, buffers, compiled, current, storage,
                 linking>>

BeginParsing ==
  /\ stage = "compile"
  /\ compiled < Len(files)
  /\ SetCurrentFile(compiled + 1)
  /\ tokens' = [i \in DOMAIN Buffer |-> Buffer[i].kind]
  /\ cursor' = 0
  /\ expressions' = <<>> /\ statements' = <<>> /\ functions' = <<>>
  /\ BeginPass
  /\ result' = Node("missing", <<>>, 0, 0)
  /\ stage' = "parse"
  /\ UNCHANGED <<lexing, lowering, generating, testing, project, buffers, compiled, storage,
                 linking>>

Parse ==
  /\ stage = "parse"
  /\ Next
  /\ UNCHANGED <<lexing, lowering, generating, testing, stage, project, buffers, compiled, current,
                 storage, linking>>

EndParsing ==
  /\ stage = "parse"
  /\ status = "done"
  /\ Record([i \in DOMAIN diagnostics |->
               Found("error", "syntax", StartOffset(diagnostics[i].start),
                     EndOffset(diagnostics[i].end))], "lower")
  /\ ast' = SpelledAst
  /\ next' = 1 /\ start' = 0
  /\ nodes' = <<>> /\ locals' = <<>> /\ types' = <<>> /\ hirFunctions' = <<>>
  /\ used' = {}
  /\ BeginPass
  /\ result' = L!NoResult
  /\ UNCHANGED <<lexing, parsing, generating, testing, project, buffers, compiled, current, linking>>

LowerAst ==
  /\ stage = "lower"
  /\ L!Next
  /\ UNCHANGED <<lexing, parsing, generating, testing, stage, project, buffers, compiled, current,
                 storage, linking>>

\* A node of the HIR has the span of the node of the AST it was lowered from.
FoundAt(severity, what, id) == Found(severity, what, L!Ast(id).start, L!Ast(id).end)

\* codegen() appends to the assembly of the files before.
EndLowering ==
  /\ stage = "lower"
  /\ status = "done"
  /\ Record([i \in DOMAIN diagnostics |->
               LET d == diagnostics[i] IN FoundAt(d.severity, d.what, d.at)], "generate")
  /\ frames' = <<>> /\ generated' = 0 /\ problems' = <<>> /\ outcome' = "running"
  /\ UNCHANGED <<lexing, parsing, lowering, pass, assembly, testing, project, buffers, compiled,
                 current, linking>>

Generate ==
  /\ stage = "generate"
  /\ CG!Next
  /\ UNCHANGED <<lexing, parsing, ast, next, start, used, pass, testing, stage, project, buffers,
                 compiled, current, storage, linking>>

\* Mutant: a file without tokens is not counted.
EndGeneratingSkipsEmpty ==
  /\ stage = "generate"
  /\ outcome = "done"
  /\ Record([i \in DOMAIN problems |->
               FoundAt("error", "not_an_lvalue", nodes[problems[i]].at)], "compile")
  /\ compiled' = IF Buffer = <<>> THEN compiled ELSE compiled + 1
  /\ UNCHANGED <<lexing, parsing, lowering, pass, generating, testing, project, buffers, current,
                 linking>>

EndGenerating ==
  /\ stage = "generate"
  /\ outcome = "done"
  /\ Record([i \in DOMAIN problems |->
               FoundAt("error", "not_an_lvalue", nodes[problems[i]].at)], "compile")
  /\ compiled' = compiled + 1
  /\ UNCHANGED <<lexing, parsing, lowering, pass, generating, testing, project, buffers, current,
                 linking>>

\* A limit, a division by zero or a failed assertion ends the process.
AbortPass ==
  /\ \/ stage \in {"parse", "lower"} /\ status \notin {"running", "done"}
     \/ stage = "generate" /\ outcome \notin {"running", "done"}
  /\ stage' = "aborted"
  /\ UNCHANGED <<lexing, parsing, lowering, pass, generating, testing, project, buffers, compiled,
                 current, storage, linking>>
------------------------------------------------------------------------------
(* The end of main().                                                      *)

\* Mutant: warnings count.
AnyDiagnostic == storage # <<>>
HasErrors == \E i \in DOMAIN storage : storage[i].severity = "error"

\* diagnosticsStorageShow(), with its assertion.
ShowDiagnostics ==
  /\ stage = "compile"
  /\ compiled = Len(files)
  /\ stage' = IF \E i \in DOMAIN storage : ~D!InText(storage[i].start, files[storage[i].file].text)
              THEN "assertion_failed" ELSE IF HasErrors THEN "exit_1" ELSE "write"
  /\ UNCHANGED <<lexing, parsing, lowering, pass, generating, testing, project, buffers, compiled,
                 current, storage, linking>>

\* What is in a file: code, or one of these.
Earlier == <<<<"earlier">>>>
Cut == <<<<"cut">>>>
None == <<<<"none">>>>

\* One of the last steps, whose result nobody looks at: it leaves what it
\* should make, if that can be made, or something else.
Makes(tool, name, wanted, possible, others) ==
  \E made \in others \cup (IF possible THEN {wanted} ELSE {}) :
    /\ disk' = [disk EXCEPT ![name] = made]
    /\ failed' = IF possible /\ made = wanted THEN failed ELSE failed \cup {tool}

\* open() or write() may fail.
WriteAssembly ==
  /\ stage = "write"
  /\ Makes("write", "s", assembly, TRUE, {disk.s, Cut})
  /\ stage' = "assemble"
  /\ UNCHANGED <<lexing, parsing, lowering, pass, generating, testing, project, buffers, compiled,
                 current, storage>>

\* Labels are defined once in a program that assembles, and _main is one of
\* those in a program that links.
LabelsIn(code) == SelectSeq(code, LAMBDA i : i[1] = "label")
Main == <<"label", <<"_", <<"m", "a", "i", "n">>>>>>

Assemble ==
  /\ stage = "assemble"
  /\ Makes("as", "o", disk.s, IsInjective(LabelsIn(disk.s)), {disk.o, None})
  /\ stage' = "link"
  /\ UNCHANGED <<lexing, parsing, lowering, pass, generating, testing, project, buffers, compiled,
                 current, storage>>

Link ==
  /\ stage = "link"
  /\ Makes("ld", "out", disk.o, disk.o = Earlier \/ Main \in ToSet(disk.o), {disk.out, None})
  /\ stage' = "exit_0"
  /\ UNCHANGED <<lexing, parsing, lowering, pass, generating, testing, project, buffers, compiled,
                 current, storage>>

Test ==
  /\ stage = "test"
  /\ T!Next
  /\ stage' = IF verdict' = "done" THEN "exit_0" ELSE IF verdict' = "aborted" THEN "aborted"
              ELSE "test"
  /\ UNCHANGED <<lexing, parsing, lowering, pass, generating, project, buffers, compiled, current,
                 storage, linking>>
------------------------------------------------------------------------------
\* main(): the argument --test, or a directory.
DriverInit ==
  /\ \/ /\ stage = "discover" /\ directory \in Projects
        /\ output = [t \in Tests |-> Abort]
        /\ expected = [t \in Tests |-> Missing] /\ actual = expected
     \/ stage = "test" /\ directory = {}
  /\ unread = directory
  /\ T!Init
  /\ text = <<>> /\ LX!Begin
  /\ tokens = <<>> /\ cursor = 0 /\ expressions = <<>> /\ statements = <<>> /\ functions = <<>>
  /\ calls = <<>> /\ result = Node("missing", <<>>, 0, 0) /\ temp = <<>>
  /\ diagnostics = <<>> /\ status = "done"
  /\ ast = [expressions |-> <<>>, statements |-> <<>>, functions |-> <<>>]
  /\ next = 1 /\ start = 0 /\ used = {}
  /\ nodes = <<>> /\ locals = <<>> /\ types = <<>> /\ hirFunctions = <<>>
  /\ CG!Init
  /\ files = <<>> /\ buffers = <<>> /\ compiled = 0 /\ current = 0 /\ storage = <<>>
  /\ disk = [s |-> Earlier, o |-> Earlier, out |-> Earlier]
  /\ failed = {}

Ended == stage \in {"exit_0", "exit_1", "aborted", "assertion_failed"}
Stop == Ended /\ UNCHANGED driverVars

DriverNext ==
  \/ ReadEntry \/ EndDiscovery
  \/ BeginLexing \/ Lex \/ EndLexing \/ InternAll
  \/ BeginParsing \/ Parse \/ EndParsing \/ LowerAst \/ EndLowering
  \/ Generate \/ EndGenerating \/ AbortPass
  \/ ShowDiagnostics \/ WriteAssembly \/ Assemble \/ Link
  \/ Test \/ Stop

DriverSpec == DriverInit /\ [][DriverNext]_driverVars

\* The process is one thread that goes on.  A step is possible until it has
\* ended, as there is no deadlock, and changes something: this is
\* WF_driverVars(DriverNext), without an ENABLED that takes every step again.
FairDriverSpec == DriverSpec /\ ([]<>Ended \/ []<><<TRUE>>_driverVars)
------------------------------------------------------------------------------
(* Properties.                                                             *)

\* The types of what the driver adds to the passes; the AST with spellings and
\* values in it still is what lowering takes for granted.
DriverTypeOK ==
  /\ Ended \/ stage \in {"discover", "read", "lex", "compile", "parse", "lower", "generate",
                         "write", "assemble", "link", "test"}
  /\ unread \subseteq directory
  /\ Len(files) < FileModulus
  /\ Len(buffers) <= Len(files) /\ compiled <= Len(buffers) /\ current <= Len(files)
  /\ stage \in {"parse", "lower", "generate"} => current = compiled + 1
  /\ stage = "lower" => IsAst(ast)
  /\ DOMAIN disk = {"s", "o", "out"} /\ failed \subseteq {"write", "as", "ld"}

TokensAreLongestLexemes == stage = "lex" => LX!TokensAreLongestLexemes
TestsAreJudged == T!TestsAreJudged

\* What may be said of an expression that is missing, whose span may be empty
\* or end before it starts: it goes from the token found in its place, or the
\* end, to the end of the token before (parse.c:217-218, 325).
SaidOfMissing ==
  {"cannot_dereference", "mistyped_element", "mismatched_assignment", "not_an_lvalue"}
IsGap(d) ==
  LET b == buffers[d.file]
  IN  \E k \in DOMAIN b :
        /\ d.end = b[k].end
        /\ d.start = IF k = Len(b) THEN b[k].end ELSE b[k + 1].start

(* Every diagnostic, whichever pass made it, is in its own file or, if     *)
(* something is missing at the end, just after it: the assertion of        *)
(* diagnostics.c:34 never fails.  It marks at least one character, unless  *)
(* it is about an expression that is missing between two tokens or at the  *)
(* end, and if its line has an end, that line is shown with the marks in   *)
(* their places (parse.c:138-151, diagnostics.c:72-138, main.c:31, 42).    *)
DiagnosticsAreShown ==
  /\ stage # "assertion_failed"
  /\ Ended =>
       \A i \in DOMAIN storage :
         LET d == storage[i]
             content == files[d.file].text
         IN  /\ d.file \in DOMAIN files
             /\ D!InText(d.start, content) /\ d.end <= Len(content) + 1
             /\ d.start < d.end \/ (d.what \in SaidOfMissing /\ IsGap(d))
             /\ d.start < d.end /\ D!Ends(d, content) # {} /\ D!OnOneLine(d, content)
                  => D!ShowsItsLine(d, content)

\* What was found in a file, and the code made of it, function by function.
FoundIn(file) ==
  LET here == SelectSeq(storage, LAMBDA d : d.file = file)
  IN  [i \in DOMAIN here |-> [severity |-> here[i].severity, what |-> here[i].what,
                              start |-> here[i].start, end |-> here[i].end]]
Entries == SelectSeq([i \in DOMAIN assembly |-> i],
                     LAMBDA i : assembly[i][1] = "label" /\ assembly[i][2][1] = "_")
Code(function) ==
  SubSeq(assembly, Entries[function],
         IF function = Len(Entries) THEN Len(assembly) ELSE Entries[function + 1] - 1)

\* The names that follow func, as the text has them.
NamesIn(file) ==
  LET b == buffers[file]
      at == SelectSeq([i \in DOMAIN b |-> i],
                      LAMBDA i : i > 1 /\ b[i].kind = "identifier" /\ b[i - 1].kind = "func")
  IN  [i \in DOMAIN at |-> SubSeq(files[file].text, b[at[i]].start + 1, b[at[i]].end)]
NamesBefore(file) == FlattenSeq([i \in 1 .. file - 1 |-> NamesIn(i)])
CodeOf(file) == [i \in DOMAIN NamesIn(file) |-> Code(Len(NamesBefore(file)) + i)]

(* Files with the same text fare alike, whatever was compiled before them: *)
(* no scope, type, label, node or count of one pass is left to the next,   *)
(* and no diagnostic goes to another file (main.c:41-57).                  *)
EqualFilesFareAlike ==
  stage \in {"write", "exit_1"} =>
    \A i, j \in DOMAIN files :
      files[i].text = files[j].text => FoundIn(i) = FoundIn(j) /\ CodeOf(i) = CodeOf(j)

\* The process ends, whatever the files say (main.c).
Exits == <>Ended
==============================================================================
