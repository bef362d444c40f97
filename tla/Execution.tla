------------------------------- MODULE Execution -------------------------------
(***************************************************************************)
(* What becomes of the program that the Compiler has written: outside of   *)
(* the compiler, the Machine runs one of the functions.  What a function   *)
(* means is left to Semantics, which knows of none of them.                *)
(***************************************************************************)
EXTENDS Compiler

CONSTANTS
  Junk, Caller, Stack,
  MaxIterations

ASSUME StackAssumption == Stack \in Nat /\ Stack % 16 = 0

VARIABLES
  pc, registers, memory,  \* of Machine
  running,  \* the function called in the end, or NoFunction
  meaning   \* and what it means

M == INSTANCE Machine
S == INSTANCE Semantics

executing == <<pc, registers, memory>>
call == <<running, meaning>>
executionVars == <<compilerVars, executing, call>>

NoFunction == 0

ExecutionInit ==
  /\ CompilerInit
  /\ M!Init
  /\ running = NoFunction
  /\ meaning = S!Undefined

CompilerStep == CompilerNext /\ UNCHANGED <<executing, call>>

\* Somebody calls a function that means something.
Meaning(f) == S!Result(ast, ast.functions[CHOOSE i \in DOMAIN ast.functions :
                                            ast.functions[i].name = functions[f].name])
CallFunction ==
  /\ exit = "out.s_written"
  /\ running = NoFunction
  /\ \E f \in DOMAIN functions : \E m \in {Meaning(f)} :
       /\ m # S!Undefined
       /\ M!Start(functions[f].name)
       /\ running' = f
       /\ meaning' = m
  /\ UNCHANGED <<vars, frames, generated, problems, outcome, exit>>

MachineStep == M!Next /\ UNCHANGED <<vars, frames, generated, problems, outcome, exit, call>>

\* The function called has returned.
Returned == running # NoFunction /\ pc = 0

\* There is nothing left to do: the process was aborted, it has shown the
\* errors, or the program it wrote has run.
Ended ==
  \/ status \notin {"running", "done"}
  \/ outcome \notin {"running", "done"}
  \/ exit = "errors_shown"
  \/ exit = "out.s_written" /\ running = NoFunction
       /\ \A f \in DOMAIN functions : Meaning(f) = S!Undefined
  \/ Returned

Stop == Ended /\ UNCHANGED executionVars

ExecutionNext == CompilerStep \/ CallFunction \/ MachineStep \/ Stop

ExecutionSpec == ExecutionInit /\ [][ExecutionNext]_executionVars

\* The compiler and the program it makes are one thread each, which go on.
\* A step is possible until they have ended, as there is no deadlock: this
\* is WF_executionVars(ExecutionNext), without an ENABLED that generates code.
FairExecutionSpec == ExecutionSpec /\ ([]<>Ended \/ []<><<TRUE>>_executionVars)
------------------------------------------------------------------------------
(* Properties.                                                             *)

(* The program written computes what its source says: when the function    *)
(* called returns, x0 holds the integer it means (all of codegen.c).       *)
ComputesItsMeaning ==
  Returned /\ S!Has(meaning, "int") => registers.x0 = meaning.int

(* The pushes and pops of expressions match on every path: at each label   *)
(* in a function, sp is where the prologue left it; sp is always aligned;  *)
(* nothing overwrites the frame record; and the caller gets back its       *)
(* frame pointer and stack (codegen.c:179-187, 449-476).                   *)
StackIsBalanced ==
  /\ registers.sp % 16 = 0
  /\ pc # 0 /\ registers.fp # Caller =>
       /\ memory[registers.fp] = Caller /\ memory[registers.fp + 8] = Caller
       /\ registers.sp <= registers.fp
       /\ assembly[pc][1] = "label" =>
            registers.sp = registers.fp - frames[running].size
  /\ Returned => registers.sp = Stack /\ registers.fp = Caller

(* Every compilation comes to an end, and so does every call of a function *)
(* that means something: neither lowering, generating nor the code goes    *)
(* round in circles, or jumps to where there is no code (lower.c:701-762,  *)
(* codegen.c:401-427, main.c:50-82).                                       *)
EverythingEnds == <>Ended
==============================================================================
