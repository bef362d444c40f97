------------------------------- MODULE TestRunner -------------------------------
(***************************************************************************)
(* runTests() of test.c for the three directories of main.c's --test: a    *)
(* test is what a pass prints of a program, compared with a file of it.  A *)
(* test is a pair of the number of its directory and a name; what a pass   *)
(* prints of it, and whether it aborts instead, is up to the pass.         *)
(*                                                                         *)
(* A definition marked "Mutant" is no part of the model: it is what the    *)
(* definition after it becomes with a plausible bug, and a run finds the   *)
(* bug when it is put in that definition's place.                          *)
(***************************************************************************)
EXTENDS Integers

CONSTANTS
  Tests,    \* the .mc files in the directories
  Outputs,  \* what may be printed
  Abort,    \* the pass aborts, and the process with it
  Missing   \* there is no such file

VARIABLES
  output,     \* what the pass prints of each test, or Abort
  expected,   \* the .expected files
  actual,     \* the .actual files
  judged,     \* the tests that have run
  unnoticed,  \* those of them with a file that is not what it should be
  verdict     \* "running", "done" or "aborted"

vars == <<output, expected, actual, judged, unnoticed, verdict>>

Init ==
  /\ output \in [Tests -> Outputs \cup {Abort}]
  /\ expected \in [Tests -> Outputs \cup {Missing}]
  /\ actual \in [Tests -> Outputs \cup {Missing}]
  /\ judged = {}
  /\ unnoticed = {}
  /\ verdict = "running"

\* readdir() gives the tests of a directory in any order.
IsNext(test) ==
  /\ verdict = "running"
  /\ test \in Tests \ judged
  /\ \A other \in Tests : other[1] < test[1] => other \in judged

\* Mutant: a .actual file is removed before the pass that may abort.
CrashWithoutActual ==
  /\ \E test \in Tests : /\ IsNext(test)
                         /\ output[test] = Abort \/ expected[test] = Missing
                         /\ actual' = [actual EXCEPT ![test] = Missing]
  /\ verdict' = "aborted"
  /\ UNCHANGED <<output, expected, judged, unnoticed>>

\* The pass aborts, or readFile() at a file that could not be created.
Crash ==
  /\ \E test \in Tests : IsNext(test) /\ (output[test] = Abort \/ expected[test] = Missing)
  /\ verdict' = "aborted"
  /\ UNCHANGED <<output, expected, actual, judged, unnoticed>>

\* Nobody looks at the results of open(), write() and remove(): what is written
\* may be anything, and a file may be left as it was.
Written(wanted, before) == {wanted, before} \cup (IF wanted = Missing THEN {} ELSE Outputs)

\* Mutant: the output of an earlier failure stays.
WantedUnlessPassed(test, text) == IF text = output[test] THEN actual[test] ELSE output[test]

Wanted(test, text) == IF text = output[test] THEN Missing ELSE output[test]

Judge ==
  \E test \in Tests :
    /\ IsNext(test)
    /\ output[test] # Abort
    /\ \E text \in IF expected[test] = Missing THEN Outputs ELSE {expected[test]} :
         LET wanted == Wanted(test, text)
         IN  \E left \in Written(wanted, actual[test]) :
               /\ expected' = [expected EXCEPT ![test] = text]
               /\ actual' = [actual EXCEPT ![test] = left]
               /\ unnoticed' = IF left = wanted /\ text \in {expected[test], output[test]}
                               THEN unnoticed ELSE unnoticed \cup {test}
    /\ judged' = judged \cup {test}
    /\ UNCHANGED <<output, verdict>>

Finish ==
  /\ verdict = "running"
  /\ judged = Tests
  /\ verdict' = "done"
  /\ UNCHANGED <<output, expected, actual, judged, unnoticed>>

Next == Crash \/ Judge \/ Finish
------------------------------------------------------------------------------
(* Properties.                                                             *)

(* Running the tests never changes what is expected once it is there, and  *)
(* until a test is judged its files stay as they are, so that a crash      *)
(* leaves those of the test it is in and of the tests after it alone.  A   *)
(* test that is judged, unless one of its files could not be written, has  *)
(* an .expected file, made of its output if there was none, and a .actual  *)
(* file exactly if it fails: none is left over from an earlier run, and a  *)
(* crash later changes nothing of it.  At the end all are judged           *)
(* (test.c:63-117).                                                        *)
TestsAreJudged ==
  /\ [][\A t \in Tests :
          /\ expected[t] # Missing => expected'[t] = expected[t]
          /\ t \in judged \/ t \notin judged' =>
               expected'[t] = expected[t] /\ actual'[t] = actual[t]
          /\ t \in judged' \ judged /\ t \notin unnoticed' /\ expected[t] = Missing =>
               expected'[t] = output[t]]_vars
  /\ [](\A t \in judged \ unnoticed :
          actual[t] = IF output[t] = expected[t] THEN Missing ELSE output[t])
  /\ [](verdict = "done" => judged = Tests)
==============================================================================
