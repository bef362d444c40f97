------------------------------- MODULE Interner -------------------------------
(***************************************************************************)
(* intern.c: the identifier interner.  intern() counts the identifier      *)
(* tokens of all files, allocates an open-addressing hash table from that  *)
(* count, and runs processToken on every token: linear probing from the    *)
(* slot of the hash to the first slot that holds the spelling or is empty. *)
(*                                                                         *)
(* The four parallel slot arrays of the C code are one function from slots *)
(* to Empty or a record; contents and its length stand for                 *)
(* identifier_contents and the next ident_id.  A spelling is a value, so   *)
(* the length and memcmp tests are equality of spellings.                  *)
(*                                                                         *)
(* A definition marked "Mutant" is no part of the model: it is what the    *)
(* definition after it becomes with a plausible bug, and a run finds the   *)
(* bug when it is put in that definition's place.                          *)
(***************************************************************************)
EXTENDS Integers, Sequences, FiniteSets

CONSTANTS
  Texts,          \* the spellings identifiers can have
  NotIdentifier,  \* stands for a token of any other kind
  Projects,       \* the projects: sequences of token buffers
  Hash,           \* fxhash of a spelling
  Empty           \* a slot whose slot_ptr is NULL

\* An occupied slot: slot_hashes, slot_ptrs and slot_ids at one index.
Slot == [hash : Nat, ptr : Texts, id : Nat]

ASSUME EmptyAssumption == Empty \notin Slot
ASSUME NotIdentifierAssumption == NotIdentifier \notin Texts
ASSUME ProjectsAssumption == Projects \subseteq Seq(Seq(Texts \cup {NotIdentifier}))
ASSUME HashAssumption == Hash \in [Texts -> Nat]

VARIABLES
  bufs,        \* the token buffers lex() returned, one for each file
  ids,         \* their identifier_ids
  contents,    \* interner.contents, up to the next ident_id
  phase,       \* where intern() is
  buf_index,   \* the loops of intern(), counted from 1
  token,
  slot_count,  \* ctx.slot_count
  slots,       \* ctx.slot_hashes, slot_ptrs and slot_ids
  slot_index   \* the probe of processToken

vars == <<bufs, ids, contents, phase, buf_index, token, slot_count, slots, slot_index>>

Table == INSTANCE StringTable

NoId == Table!NoId
Positions(project) == Table!Positions(project)
IdentifierPositions(project) == Table!IdentifierPositions(project)

AllSlots == 0 .. slot_count - 1
Occupied == {s \in AllSlots : slots[s] # Empty}

Current == <<buf_index, token>>
CurrentText == bufs[buf_index][token]
AtToken == buf_index <= Len(bufs) /\ token <= Len(bufs[buf_index])

\* hash % slot_count, the slot where the probe for a spelling starts
Home(text) == Hash[text] % slot_count

\* Mutant: no wrap-around.
NextSlotNoWrap(s) == s + 1

\* Mutant: every other slot is passed over.
NextSlotByTwo(s) == (s + 2) % slot_count

\* slot_index++ and the wrap-around at the end of the table
NextSlot(s) == IF s + 1 = slot_count THEN 0 ELSE s + 1

\* Mutant: half as many slots as identifiers.
SlotCountTooSmall(identifier_count) == (identifier_count + 1) \div 2

\* The table size intern() computes from the number of identifier tokens.
SlotCount(identifier_count) == (identifier_count * 4) \div 3

\* Mutant: equal hashes pass for equal spellings.
SlotMatchesHash(s, text) == slots[s].hash = Hash[text]

\* The tests between two no_match jumps.
SlotMatches(s, text) == slots[s].hash = Hash[text] /\ slots[s].ptr = text

------------------------------------------------------------------------------
Init ==
  /\ bufs \in Projects
  /\ ids = [p \in Positions(bufs) |-> NoId]
  /\ contents = <<>>
  /\ phase = "count"
  /\ buf_index = 1
  /\ token = 1
  /\ slot_count = 0
  /\ slots = <<>>
  /\ slot_index = 0

\* Count the identifiers, allocate the table and zero its pointers.
AllocateTable ==
  /\ phase = "count"
  /\ phase' = "scan"
  /\ slot_count' = SlotCount(Cardinality(IdentifierPositions(bufs)))
  /\ slots' = [s \in 0 .. slot_count' - 1 |-> Empty]
  /\ UNCHANGED <<bufs, ids, contents, buf_index, token, slot_index>>

\* Mutant: the token index is not reset.
NextBufferKeepsToken ==
  /\ phase = "scan"
  /\ buf_index <= Len(bufs)
  /\ token > Len(bufs[buf_index])
  /\ buf_index' = buf_index + 1
  /\ UNCHANGED <<bufs, ids, contents, phase, token, slot_count, slots, slot_index>>

NextBuffer ==
  /\ phase = "scan"
  /\ buf_index <= Len(bufs)
  /\ token > Len(bufs[buf_index])
  /\ buf_index' = buf_index + 1
  /\ token' = 1
  /\ UNCHANGED <<bufs, ids, contents, phase, slot_count, slots, slot_index>>

\* processToken returns early when the token is not an identifier.
SkipToken ==
  /\ phase = "scan"
  /\ AtToken
  /\ CurrentText = NotIdentifier
  /\ token' = token + 1
  /\ UNCHANGED <<bufs, ids, contents, phase, buf_index, slot_count, slots, slot_index>>

BeginProbe ==
  /\ phase = "scan"
  /\ AtToken
  /\ CurrentText # NotIdentifier
  /\ phase' = "probe"
  /\ slot_index' = Home(CurrentText)
  /\ UNCHANGED <<bufs, ids, contents, buf_index, token, slot_count, slots>>

\* no_match: another identifier's slot
NoMatch ==
  /\ phase = "probe"
  /\ slots[slot_index] # Empty
  /\ ~SlotMatches(slot_index, CurrentText)
  /\ slot_index' = NextSlot(slot_index)
  /\ UNCHANGED <<bufs, ids, contents, phase, buf_index, token, slot_count, slots>>

\* The slot holds the spelling: link the token to the slot's ID.
Link ==
  /\ phase = "probe"
  /\ slots[slot_index] # Empty
  /\ SlotMatches(slot_index, CurrentText)
  /\ ids' = [ids EXCEPT ![Current] = slots[slot_index].id]
  /\ phase' = "scan"
  /\ token' = token + 1
  /\ UNCHANGED <<bufs, contents, buf_index, slot_count, slots, slot_index>>

\* Mutant: ident_id is not incremented.
InsertKeepsId ==
  /\ phase = "probe"
  /\ slots[slot_index] = Empty
  /\ slots' = [slots EXCEPT ![slot_index] =
                 [hash |-> Hash[CurrentText], ptr |-> CurrentText, id |-> 0]]
  /\ ids' = [ids EXCEPT ![Current] = 0]
  /\ contents' = <<CurrentText>>
  /\ phase' = "scan"
  /\ token' = token + 1
  /\ UNCHANGED <<bufs, buf_index, slot_count, slot_index>>

\* An empty slot: the spelling is new.  Fill the slot, link the token and
\* copy the spelling to general memory under the next ID.
Insert ==
  /\ phase = "probe"
  /\ slots[slot_index] = Empty
  /\ slots' = [slots EXCEPT ![slot_index] =
                 [hash |-> Hash[CurrentText], ptr |-> CurrentText, id |-> Len(contents)]]
  /\ ids' = [ids EXCEPT ![Current] = Len(contents)]
  /\ contents' = Append(contents, CurrentText)
  /\ phase' = "scan"
  /\ token' = token + 1
  /\ UNCHANGED <<bufs, buf_index, slot_count, slot_index>>

\* Clear the table from temp memory and return.
Finish ==
  /\ phase = "scan"
  /\ buf_index > Len(bufs)
  /\ phase' = "done"
  /\ UNCHANGED <<bufs, ids, contents, buf_index, token, slot_count, slots, slot_index>>

Next ==
  \/ AllocateTable
  \/ NextBuffer
  \/ SkipToken
  \/ BeginProbe
  \/ NoMatch
  \/ Link
  \/ Insert
  \/ Finish

Spec == Init /\ [][Next]_vars

\* The compiler is one thread that keeps running.
FairSpec == Spec /\ WF_vars(Next)
------------------------------------------------------------------------------
\* The arc of slots a probe from h has left behind when it is at s.
InArc(h, s, x) == IF h <= s THEN h <= x /\ x < s ELSE h <= x \/ x < s

Processed(p) == p[1] < buf_index \/ (p[1] = buf_index /\ p[2] < token)

\* The type of every variable, and the loops within their bounds.
TypeOK ==
  /\ bufs \in Seq(Seq(Texts \cup {NotIdentifier}))
  /\ ids \in [Positions(bufs) -> Nat \cup {NoId}]
  /\ contents \in Seq(Texts)
  /\ phase \in {"count", "scan", "probe", "done"}
  /\ buf_index \in 1 .. Len(bufs) + 1
  /\ token \in Nat \ {0}
  /\ slot_count \in Nat
  /\ phase # "count" => slots \in [AllSlots -> Slot \cup {Empty}]
  /\ slot_index \in Nat
  /\ phase = "probe" => /\ AtToken
                        /\ CurrentText # NotIdentifier
                        /\ slot_index \in AllSlots

(* Two identifier tokens that have been linked, whatever their files, have *)
(* the same ID exactly when they are spelled the same: name resolution in  *)
(* lower.c compares nothing but these IDs (intern.c:43, 60).               *)
SameIdIffSameText ==
  \A p, q \in IdentifierPositions(bufs) :
    (ids[p] # NoId /\ ids[q] # NoId) =>
      (ids[p] = ids[q] <=> bufs[p[1]][p[2]] = bufs[q[1]][q[2]])

(* internerLookup of a linked token's ID is the token's own spelling, and  *)
(* exactly the identifier tokens the loops have passed are linked: so the  *)
(* assert at intern.c:16 never fails and no token is left without an ID.   *)
LookupIsInverse ==
  \A p \in Positions(bufs) :
    IF Processed(p) /\ bufs[p[1]][p[2]] # NotIdentifier
    THEN /\ ids[p] \in 0 .. Len(contents) - 1
         /\ contents[ids[p] + 1] = bufs[p[1]][p[2]]
    ELSE ids[p] = NoId

(* The probe loop of intern.c:27 has no bound of its own.  It ends because *)
(* the table is never full while a token is looked up.                     *)
ProbeCanStop == phase = "probe" => \E s \in AllSlots : slots[s] = Empty

(* Every slot between an identifier's home slot and its own is occupied:   *)
(* a later probe for the same spelling cannot stop short of it.            *)
ProbeChains ==
  phase # "count" =>
    \A s \in Occupied : \A x \in AllSlots :
      InArc(Home(slots[s].ptr), s, x) => slots[x] # Empty

(* intern() returns, whatever the tokens and however the hashes collide.   *)
Termination == <>(phase = "done")

(* Implements the abstract table.                                          *)
ImplementsTable == Table!Spec

(* intern.c:77 says the table is sized for a load factor of 0.75 once it   *)
(* has been populated.                                                     *)
LoadFactorIsThreeQuarters ==
  phase = "done" => 4 * Cardinality(Occupied) <= 3 * slot_count
==============================================================================
