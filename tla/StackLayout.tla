------------------------------ MODULE StackLayout ------------------------------
(***************************************************************************)
(* The stack frame of a function (codegen.c) by the sizes of its types     *)
(* (lower.c): where each slot is put, and how large the frame is.          *)
(*                                                                         *)
(* A definition marked "Mutant" is no part of the model: it is what the    *)
(* definition after it becomes with a plausible bug, and a run finds the   *)
(* bug when it is put in that definition's place.                          *)
(***************************************************************************)
EXTENDS Integers, Sequences

CONSTANT SizeModulus  \* 2^32: sizes and offsets are u32

VARIABLE types  \* the table of types of the HIR

\* hirTypeSize(), given the sizes of the types a type is made of.
SizeBy(size, t) ==
  CASE types[t].kind = "void" -> 0
    [] types[t].kind \in {"i64", "pointer"} -> 8
    [] types[t].kind = "array" -> (size[types[t].child] * types[t].count) % SizeModulus
Size == LET size[t \in DOMAIN types] == SizeBy(size, t) IN size

\* hirTypeAlign()
Align(t) == IF types[t].kind = "array" THEN Size[types[t].child] ELSE Size[t]

\* Where dividing by zero does not trap, AArch64 makes the quotient zero.
RoundUpTo(x, multiple) ==
  IF multiple = 0 THEN 0
  ELSE ((((x + multiple - 1) % SizeModulus) \div multiple) * multiple) % SizeModulus

\* What a function keeps in its frame: a local or an array literal.
Slot(what, index, type) == [what |-> what, index |-> index, type |-> type]

\* Mutant: the alignment of a type is taken for its size.
EndOfAlignment(before, type) == (RoundUpTo(before, Align(type)) + Align(type)) % SizeModulus
\* Where a value of a type ends, if the one before it ends there.
End(before, type) == (RoundUpTo(before, Align(type)) + Size[type]) % SizeModulus

Ends(slots) ==
  LET end[i \in 0 .. Len(slots)] == IF i = 0 THEN 0 ELSE End(end[i - 1], slots[i].type)
  IN  end

Placed(slot, end) ==
  [what |-> slot.what, index |-> slot.index, type |-> slot.type,
   offset |-> end, size |-> Size[slot.type]]

\* The frame of some slots, and whether making it divides by zero.  A slot
\* is as far below the frame pointer as its end is from the start.
Frame(slots) ==
  [slots |-> [i \in DOMAIN slots |-> Placed(slots[i], Ends(slots)[i])],
   size |-> RoundUpTo(Ends(slots)[Len(slots)], 16),
   zero |-> \E i \in DOMAIN slots : Align(slots[i].type) = 0]
------------------------------------------------------------------------------
(* Properties.                                                             *)

(* A type comes after the one it is made of, so that there is an end to    *)
(* adding up its size (lower.c:72-90, 754-768).                           *)
TypesAreFounded ==
  /\ \E n \in Nat : DOMAIN types = 1 .. n
  /\ \A t \in DOMAIN types :
       /\ types[t].kind \in {"void", "i64", "pointer", "array"}
       /\ types[t].kind = "array" => types[t].child \in 1 .. t - 1 /\ types[t].count \in Nat

\* No sum that is made of offsets passes the modulus.
OffsetsFit(frame) ==
  LET slots == frame.slots
      before(i) == IF i = 1 THEN 0 ELSE slots[i - 1].offset
  IN  /\ \A i \in DOMAIN slots :
           before(i) + Align(slots[i].type) + slots[i].size <= SizeModulus
      /\ before(Len(slots) + 1) + 16 <= SizeModulus

(* Every slot of a frame is aligned, lies between the frame pointer and    *)
(* the stack pointer, and shares no byte with another (codegen.c:18-34,    *)
(* 83-93, 138-147).                                                        *)
SlotsAreApart(frame) ==
  LET slots == frame.slots
      Above(s) == s.offset - s.size
  IN  /\ frame.size % 16 = 0
      /\ \A i \in DOMAIN slots :
           slots[i].offset % 8 = 0 /\ Above(slots[i]) >= 0 /\ slots[i].offset <= frame.size
      /\ \A i, j \in DOMAIN slots :
           i < j => slots[i].offset <= Above(slots[j]) \/ slots[j].offset <= Above(slots[i])
================================================================================
