----------------------------- MODULE MCInterner -----------------------------
(***************************************************************************)
(* Instances of Interner: every project of at most MaxTokens tokens in one *)
(* file or split over two, over four spellings of which three collide.     *)
(***************************************************************************)
EXTENDS Interner, TLC

CONSTANTS a, b, c, d, MaxTokens

MCTexts == {a, b, c, d}

Buffers(n) == UNION {[1 .. k -> MCTexts \cup {NotIdentifier}] : k \in 0 .. n}

MCProjects ==
  {<<x>> : x \in Buffers(MaxTokens)} \cup
  UNION {{<<x, y>> : x \in Buffers(k), y \in Buffers(MaxTokens - k)} : k \in 1 .. MaxTokens - 1}

\* a and b collide in every table; c follows them; d collides in small ones.
MCHash == (a :> 4) @@ (b :> 4) @@ (c :> 5) @@ (d :> 12)
==============================================================================
