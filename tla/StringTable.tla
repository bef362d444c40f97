----------------------------- MODULE StringTable -----------------------------
(***************************************************************************)
(* What intern.c promises, without the hash table: a table of spellings    *)
(* that only grows, in which every spelling has one identifier ID, and a   *)
(* link from every identifier token to the ID of its spelling.  Tokens may *)
(* be linked in any order; the C code's order is one of them.              *)
(***************************************************************************)
EXTENDS Integers, Sequences

CONSTANTS
  Texts,          \* the spellings identifiers can have
  NotIdentifier   \* stands for a token of any other kind

VARIABLES
  bufs,      \* the token buffers, one for each file
  ids,       \* tokenBuffer.identifier_ids, for every file and token
  contents   \* the spelling of every ID handed out, in order of IDs

vars == <<bufs, ids, contents>>

\* (identifierId){ .raw = -1 }: no ID
NoId == -1

\* All <<file, token>> pairs of the project, and those of identifiers.
Positions(project) ==
  UNION {{b} \X DOMAIN project[b] : b \in DOMAIN project}

IdentifierPositions(project) ==
  {p \in Positions(project) : project[p[1]][p[2]] # NotIdentifier}

Init ==
  /\ bufs \in Seq(Seq(Texts \cup {NotIdentifier}))
  /\ ids = [p \in Positions(bufs) |-> NoId]
  /\ contents = <<>>

\* The token's spelling is known: the token shares its ID.
LinkKnown(p) ==
  /\ \E i \in 1 .. Len(contents) :
       /\ contents[i] = bufs[p[1]][p[2]]
       /\ ids' = [ids EXCEPT ![p] = i - 1]
  /\ UNCHANGED <<bufs, contents>>

\* The token's spelling is new: it gets the next ID.
LinkNew(p) ==
  /\ \A i \in 1 .. Len(contents) : contents[i] # bufs[p[1]][p[2]]
  /\ contents' = Append(contents, bufs[p[1]][p[2]])
  /\ ids' = [ids EXCEPT ![p] = Len(contents)]
  /\ UNCHANGED bufs

Next ==
  \E p \in IdentifierPositions(bufs) :
    /\ ids[p] = NoId
    /\ LinkKnown(p) \/ LinkNew(p)

Spec == Init /\ [][Next]_vars
==============================================================================
