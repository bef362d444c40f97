-------------------------------- MODULE MCArena --------------------------------
(***************************************************************************)
(* Instances of Arena.                                                     *)
(***************************************************************************)
EXTENDS Arena

Type(size, align) == [size |-> size, align |-> align]

\* Characters, and a size that is no power of two.
MCChar == Type(1, 1)
MCTypes == {MCChar, Type(3, 1)}

\* Identifiers, and the functions of parse(): 8 bytes at alignment 4.
FunctionTypes == {MCChar, Type(8, 4)}
==============================================================================
