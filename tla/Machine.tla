-------------------------------- MODULE Machine --------------------------------
(***************************************************************************)
(* The AArch64 instructions codegen.c emits, as far as it uses them: the   *)
(* registers it names and a memory of 64-bit words that are written only   *)
(* as wholes.  Addresses are byte addresses.  A word nobody has written,   *)
(* and a register a call may have changed, hold Junk.  Numbers stay far    *)
(* below the width of a register.                                          *)
(***************************************************************************)
EXTENDS Integers, Sequences, TLC

CONSTANTS
  Junk,    \* an unknown word
  Caller,  \* the return address and frame pointer of the caller
  Stack    \* sp at the call of the program's first function

VARIABLES
  assembly,   \* the program, which it does not change
  pc,         \* the next instruction, or 0 before and after the call
  registers,  \* x0, x8, x9, fp, lr and sp
  memory      \* the words written, by address

vars == <<assembly, pc, registers, memory>>

Instruction == assembly[pc]
Mnemonic == Instruction[1]
Running == pc # 0
Is(mnemonics) == Running /\ Mnemonic \in mnemonics

x8 == registers.x8
x9 == registers.x9
sp == registers.sp
Word(address) == IF address \in DOMAIN memory THEN memory[address] ELSE Junk
Written(words) == words @@ memory

LabelAt(name) == CHOOSE i \in DOMAIN assembly : assembly[i] = <<"label", name>>
Goto(name) == pc' = LabelAt(name)
Step == pc' = pc + 1

Boolean(b) == IF b THEN 1 ELSE 0
\* sdiv rounds towards zero, and a division by zero gives zero.
Quotient(x, y) ==
  IF y = 0 THEN 0
  ELSE LET abs(n) == IF n < 0 THEN -n ELSE n
       IN  (IF (x < 0) = (y < 0) THEN 1 ELSE -1) * (abs(x) \div abs(y))
Apply(o, x, y) ==
  IF Junk \in {x, y} THEN Junk
  ELSE CASE o = "+" -> x + y
         [] o = "-" -> x - y
         [] o = "*" -> x * y
         [] o = "/" -> Quotient(x, y)
         [] o = "==" -> Boolean(x = y)
         [] o = "!=" -> Boolean(x # y)
         [] o = "<" -> Boolean(x < y)
         [] o = "<=" -> Boolean(x <= y)
         [] o = ">" -> Boolean(x > y)
         [] o = ">=" -> Boolean(x >= y)

Set(register, value) == registers' = [registers EXCEPT ![register] = value]
------------------------------------------------------------------------------
Init ==
  /\ pc = 0
  /\ registers = [x0 |-> Junk, x8 |-> Junk, x9 |-> Junk, fp |-> Caller, lr |-> Caller, sp |-> Stack]
  /\ memory = <<>>

\* The caller calls a function.
Start(function) ==
  /\ Goto(<<"_", function>>)
  /\ UNCHANGED <<assembly, registers, memory>>

Move ==
  /\ Is({"mov_x8", "mov_x9", "mov_x9_x8", "mov_x0_x8", "mov_fp_sp", "sub_x8_fp"})
  /\ CASE Mnemonic = "mov_x8" -> Set("x8", Instruction[2])
       [] Mnemonic = "mov_x9" -> Set("x9", Instruction[2])
       [] Mnemonic = "mov_x9_x8" -> Set("x9", x8)
       [] Mnemonic = "mov_x0_x8" -> Set("x0", x8)
       [] Mnemonic = "mov_fp_sp" -> Set("fp", sp)
       [] Mnemonic = "sub_x8_fp" -> Set("x8", registers.fp - Instruction[2])
  /\ Step
  /\ UNCHANGED <<assembly, memory>>

Arithmetic ==
  /\ Is({"x8_x8_x9", "x8_x9_x8", "add_sp", "sub_sp"})
  /\ CASE Mnemonic = "x8_x8_x9" -> Set("x8", Apply(Instruction[2], x8, x9))
       [] Mnemonic = "x8_x9_x8" -> Set("x8", Apply(Instruction[2], x9, x8))
       [] Mnemonic = "add_sp" -> Set("sp", sp + Instruction[2])
       [] Mnemonic = "sub_sp" -> Set("sp", sp - Instruction[2])
  /\ Step
  /\ UNCHANGED <<assembly, memory>>

Load ==
  /\ Is({"ldr_x8_[x8]", "ldr_[sp]_16", "ldp_fp_lr_[sp]"})
  /\ registers' =
       CASE Mnemonic = "ldr_x8_[x8]" -> [registers EXCEPT !.x8 = Word(x8)]
         [] Mnemonic = "ldr_[sp]_16" -> [registers EXCEPT ![Instruction[2]] = Word(sp), !.sp = sp + 16]
         [] Mnemonic = "ldp_fp_lr_[sp]" -> [registers EXCEPT !.fp = Word(sp), !.lr = Word(sp + 8)]
  /\ Step
  /\ UNCHANGED <<assembly, memory>>

Store ==
  /\ Is({"str_x8_[x9]", "str_x8_[sp_-16]", "stp_fp_lr_[sp]"})
  /\ memory' =
       CASE Mnemonic = "str_x8_[x9]" -> Written(x9 :> x8)
         [] Mnemonic = "str_x8_[sp_-16]" -> Written(sp - 16 :> x8)
         [] Mnemonic = "stp_fp_lr_[sp]" -> Written(sp :> registers.fp @@ sp + 8 :> registers.lr)
  /\ registers' =
       IF Mnemonic = "str_x8_[sp_-16]" THEN [registers EXCEPT !.sp = sp - 16] ELSE registers
  /\ Step
  /\ UNCHANGED assembly

\* A call of memcpy from x8 to x9, after which only sp and fp are known.
Copy ==
  /\ Is({"memcpy_x9_x8"})
  /\ LET offsets == {o \in 0 .. Instruction[2] - 1 : o % 8 = 0}
     IN  memory' = Written([a \in {x9 + o : o \in offsets} |-> Word(x8 + (a - x9))])
  /\ registers' = [registers EXCEPT !.x0 = Junk, !.x8 = Junk, !.x9 = Junk, !.lr = Junk]
  /\ Step
  /\ UNCHANGED assembly

Branch ==
  /\ Is({"label", "b", "cbz"})
  /\ IF Mnemonic = "b" \/ (Mnemonic = "cbz" /\ x8 = 0) THEN Goto(Instruction[2]) ELSE Step
  /\ UNCHANGED <<assembly, registers, memory>>

Return ==
  /\ Is({"ret"})
  /\ registers.lr = Caller
  /\ pc' = 0
  /\ UNCHANGED <<assembly, registers, memory>>

Next == Move \/ Arithmetic \/ Load \/ Store \/ Copy \/ Branch \/ Return
==============================================================================
