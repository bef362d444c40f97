------------------------------- MODULE MCDriver -------------------------------
(***************************************************************************)
(* Instances of Driver: directories with every short text over a few       *)
(* characters, and with up to four files of a few programs.                *)
(***************************************************************************)
EXTENDS Driver

CONSTANTS MaxTextLength

Characters(s) == [i \in 1 .. Len(s) |-> SubSeq(s, i, i)]
SetOf(s) == ToSet(Characters(s))

MCLetters == SetOf("abcdefghijklmnopqrstuvwxyz_")
MCDigits == SetOf("0123456789")
MCDigitValue == [d \in MCDigits |-> CHOOSE v \in 0 .. 9 : ToString(v) = d]
MCNewline == "\n"
MCTab == "\t"
MCWhitespace == {" ", MCTab, MCNewline}

Entry(name, content) == [name |-> Characters(name), regular |-> TRUE, text |-> content]

ShortTexts == UNION {[1 .. k -> {"i", "f", "1", MCNewline, "=", "!", "$"}] : k \in 0 .. MaxTextLength}

\* Correct programs, one of them with a warning, and one that may abort.
GoodPrograms == {Characters(p) : p \in
  {"", "func main { return 42 }\n",
   "func f {\n x := [1, 2]\n while x[0] <= 2 { set x[0] = x[1] + 1 }\n}\n",
   "func f1 { a := 1 if a { b := &a return *b } else { } }",
   "func f_ { a := 1 }\n\nfunc main { return 1 }",
   "func f { e := [] }\n"}}

\* Programs with errors that each of the passes finds, on a line or several,
\* with an end of the line or without; of the last there is no end.
BadPrograms == {Characters(p) : p \in
  {"func {\n\tx := 1 @\n}",
   "func f {\n\tx := y\n\treturn 1\n",
   "\n\nfunc g {\n set 1 =\n  2 }\n",
   "func f return 1\nreturn",
   "func f { return [) }\n"}}

\* An assignment, and those with parts of it missing.
Assigning(parts) == Characters("func f {\n a := [1]\n set ") \o parts \o <<MCNewline, "}">>
Assignments ==
  {Assigning(parts) : parts \in
     UNION {[1 .. k -> {"a", "1", "*", "=", ",", "[", ")"}] : k \in 0 .. 3}}

Programs == GoodPrograms \cup BadPrograms
\* What they may leave to others: functions, names and errors, a warning.
LeftOver == {Characters(p) : p \in
  {"func f {\n x := [1, 2]\n while x[0] <= 2 { set x[0] = x[1] + 1 }\n}\n",
   "func f_ { a := 1 }\n\nfunc main { return 1 }",
   "func f {\n\tx := y\n\treturn 1\n"}}
Names == <<"a.mc", "b.mc", "long.mc", "c.mc">>
Small == Characters("func a {}\n")

\* Directories without a program, or with other entries than programs.
MCProjects ==
  {{Entry("a.mc", content)} : content \in ShortTexts \cup Assignments}
    \cup {{Entry(Names[1], p), Entry(Names[2], q)} : p, q \in Programs}
    \cup {{Entry("a.mc", p), [Entry("d.mc", q) EXCEPT !.regular = FALSE], Entry(".mc", q),
           Entry("b.mc.old", q)} : p, q \in GoodPrograms}
    \cup {{Entry(Names[1], p), Entry(Names[2], q), Entry(Names[3], p)} :
             p \in LeftOver, q \in Programs}
    \cup {{}, {Entry(Names[i], Small) : i \in 1 .. 4}}

MCTexts == ShortTexts \cup Assignments \cup Programs \cup {Small}

\* A test in each of two directories.
MCTests == {<<1, "a">>, <<2, "a">>}
------------------------------------------------------------------------------
Correct(content) ==
  content \in GoodPrograms \cup {Small, Assigning(<<"a", "=", "a">>)} \/ ToSet(content) \subseteq MCWhitespace
Sources == {e \in directory : e.regular /\ e.name \in {Characters(Names[i]) : i \in 1 .. 4}}

(* Every program in the directory is compiled, as long as they can be      *)
(* counted.  The exit code is 1, with nothing touched on the disk, exactly *)
(* if one of them has an error, and not for a warning; it is 0 otherwise,  *)
(* and if nothing has failed unnoticed, out then holds the functions of    *)
(* all programs, in the order they were found in (main.c:74-87,            *)
(* project.c:20-60).                                                       *)
ExitTellsTheTruth ==
  stage \in {"exit_0", "exit_1"} /\ verdict = "running" =>
    /\ Cardinality(Sources) < FileModulus =>
         {files[i].name : i \in DOMAIN files} = {e.name : e \in Sources}
    /\ stage = "exit_1" <=> \E i \in DOMAIN files : ~Correct(files[i].text)
    /\ stage = "exit_1" => disk = [s |-> Earlier, o |-> Earlier, out |-> Earlier]
    /\ stage = "exit_0" /\ failed = {} =>
         LET labels == SelectSeq(disk.out, LAMBDA i : i[1] = "label" /\ i[2][1] = "_")
         IN  [i \in DOMAIN labels |-> labels[i][2][2]] = NamesBefore(Len(files) + 1)
================================================================================
