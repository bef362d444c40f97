-------------------------------- MODULE Compiler --------------------------------
(***************************************************************************)
(* What main.c does with the AST of one file: Lower, then Codegen whether  *)
(* there were errors or not, then the decision to write out.s.             *)
(***************************************************************************)
EXTENDS Lower

CONSTANT SizeModulus

ASSUME SizeModulusAssumption ==
  SizeModulus \in Nat /\ SizeModulus > 8 /\ SizeModulus % 8 = 0

VARIABLES
  frames, assembly, generated, problems, outcome,  \* of Codegen
  exit  \* "compiling", "errors_shown" or "out.s_written"

CG == INSTANCE Codegen

lowering == <<ast, calls, result, temp, next, start, used, diagnostics, status>>
generating == <<frames, assembly, generated, problems, outcome>>
compilerVars == <<vars, generating, exit>>

CompilerInit ==
  /\ Init
  /\ CG!Init
  /\ exit = "compiling"

LowerStep == Next /\ UNCHANGED <<generating, exit>>

CodegenStep ==
  /\ status = "done"
  /\ CG!Next
  /\ UNCHANGED <<lowering, exit>>

HasErrors == Errors # {} \/ problems # <<>>

ShowErrors ==
  /\ exit = "compiling"
  /\ outcome = "done"
  /\ HasErrors
  /\ exit' = "errors_shown"
  /\ UNCHANGED <<vars, generating>>

WriteAssembly ==
  /\ exit = "compiling"
  /\ outcome = "done"
  /\ ~HasErrors
  /\ exit' = "out.s_written"
  /\ UNCHANGED <<vars, generating>>

CompilerNext == LowerStep \/ CodegenStep \/ ShowErrors \/ WriteAssembly

CompilerSpec == CompilerInit /\ [][CompilerNext]_compilerVars
------------------------------------------------------------------------------
(* Properties.                                                             *)

FramesAreDisjoint == CG!FramesAreDisjoint
EnoughSpaceForLocals == CG!EnoughSpaceForLocals
LabelsAreUnique == CG!LabelsAreUnique

(* README.md:30: minic is resilient to errors in source code.  After those *)
(* errors, no assertion fails and the diagnostics are shown.               *)
ResilientToErrors == outcome # "assertion_failed"
==============================================================================
