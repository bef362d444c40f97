---------------------------- MODULE InternerProofs ----------------------------
(***************************************************************************)
(* Proofs about Interner, for every set of spellings, every hash function  *)
(* and every project: the inductive invariant IInv, the safety properties  *)
(* that follow from it, and that Interner implements StringTable.          *)
(***************************************************************************)
EXTENDS Interner, FiniteSetTheorems, TLAPS

\* The text of a token.
Text(p) == bufs[p[1]][p[2]]

\* The identifier tokens that have been given an ID.
Linked == {p \in IdentifierPositions(bufs) : ids[p] # NoId}

\* The table has the size intern() computes.
SizeInv ==
  phase # "count" => slot_count = SlotCount(Cardinality(IdentifierPositions(bufs)))

\* Slots and IDs correspond one to one; an occupied slot's ID is the ID of
\* its spelling, and no two slots hold the same spelling.
SlotInv ==
  phase # "count" =>
    /\ \A s \in Occupied : /\ slots[s].hash = Hash[slots[s].ptr]
                           /\ slots[s].id \in 0 .. Len(contents) - 1
                           /\ contents[slots[s].id + 1] = slots[s].ptr
    /\ \A i \in 1 .. Len(contents) : \E s \in Occupied : slots[s].id = i - 1
    /\ \A s, t \in Occupied : slots[s].ptr = slots[t].ptr => s = t

\* There are as many occupied slots as IDs, and no more than linked tokens.
CountInv ==
  phase # "count" => /\ Cardinality(Occupied) = Len(contents)
                     /\ Len(contents) <= Cardinality(Linked)

\* What the current probe has passed is occupied by other spellings.
ProbeInv ==
  phase = "probe" =>
    \A x \in AllSlots : InArc(Home(CurrentText), slot_index, x) =>
      slots[x] # Empty /\ slots[x].ptr # CurrentText

StartInv ==
  phase = "count" => contents = <<>> /\ buf_index = 1 /\ token = 1

IInv ==
  /\ TypeOK
  /\ StartInv
  /\ SizeInv
  /\ LookupIsInverse
  /\ SlotInv
  /\ ProbeChains
  /\ CountInv
  /\ ProbeInv

------------------------------------------------------------------------------
(* The shape of a project: sequences of token buffers.                     *)
LEMMA ProjectShape ==
  ASSUME bufs \in Seq(Seq(Texts \cup {NotIdentifier}))
  PROVE  /\ Len(bufs) \in Nat /\ DOMAIN bufs = 1 .. Len(bufs)
         /\ \A b \in DOMAIN bufs :
              /\ Len(bufs[b]) \in Nat /\ DOMAIN bufs[b] = 1 .. Len(bufs[b])
              /\ \A k \in DOMAIN bufs[b] : bufs[b][k] \in Texts \cup {NotIdentifier}
<1>1. Len(bufs) \in Nat /\ DOMAIN bufs = 1 .. Len(bufs)
  OBVIOUS
<1>2. ASSUME NEW b \in DOMAIN bufs
      PROVE  /\ Len(bufs[b]) \in Nat /\ DOMAIN bufs[b] = 1 .. Len(bufs[b])
             /\ \A k \in DOMAIN bufs[b] : bufs[b][k] \in Texts \cup {NotIdentifier}
  <2>1. bufs[b] \in Seq(Texts \cup {NotIdentifier})
    BY <1>1
  <2> HIDE DEF TypeOK
  <2> QED BY <2>1
<1> QED BY <1>1, <1>2

(* A position is a file and a token of that file.                          *)
LEMMA PositionFact ==
  ASSUME bufs \in Seq(Seq(Texts \cup {NotIdentifier}))
  PROVE  /\ \A p \in Positions(bufs) :
              /\ p = <<p[1], p[2]>>
              /\ p[1] \in 1 .. Len(bufs)
              /\ p[2] \in 1 .. Len(bufs[p[1]])
              /\ bufs[p[1]][p[2]] \in Texts \cup {NotIdentifier}
         /\ \A b \in 1 .. Len(bufs) : \A k \in 1 .. Len(bufs[b]) : <<b, k>> \in Positions(bufs)
<1>1. Positions(bufs) = UNION {{b} \X DOMAIN bufs[b] : b \in DOMAIN bufs}
  BY DEF Positions, Table!Positions
<1>2. ASSUME NEW p \in Positions(bufs)
      PROVE  /\ p = <<p[1], p[2]>>
             /\ p[1] \in 1 .. Len(bufs)
             /\ p[2] \in 1 .. Len(bufs[p[1]])
             /\ bufs[p[1]][p[2]] \in Texts \cup {NotIdentifier}
  <2>1. PICK b \in DOMAIN bufs : p \in {b} \X DOMAIN bufs[b]
    BY <1>1
  <2>2. p = <<p[1], p[2]>> /\ p[1] = b /\ p[2] \in DOMAIN bufs[b]
    BY <2>1
  <2> QED BY <2>1, <2>2, ProjectShape
<1>3. ASSUME NEW b \in 1 .. Len(bufs), NEW k \in 1 .. Len(bufs[b])
      PROVE  <<b, k>> \in Positions(bufs)
  <2>1. b \in DOMAIN bufs /\ k \in DOMAIN bufs[b]
    BY ProjectShape
  <2>2. <<b, k>> \in {b} \X DOMAIN bufs[b]
    BY <2>1
  <2> QED BY <1>1, <2>1, <2>2
<1> QED BY <1>2, <1>3

(* A project has finitely many identifier tokens.                          *)
LEMMA PositionsFinite ==
  ASSUME bufs \in Seq(Seq(Texts \cup {NotIdentifier}))
  PROVE  IsFiniteSet(IdentifierPositions(bufs)) /\ IsFiniteSet(Linked)
<1> DEFINE Row(b) == {b} \X DOMAIN bufs[b]
           Rows == {Row(b) : b \in DOMAIN bufs}
<1>1. \A b \in DOMAIN bufs : IsFiniteSet(Row(b))
  <2> TAKE b \in DOMAIN bufs
  <2>1. IsFiniteSet({b})
    BY FS_Singleton
  <2>2. IsFiniteSet(1 .. Len(bufs[b]))
    BY ProjectShape, FS_Interval
  <2>3. IsFiniteSet(DOMAIN bufs[b])
    BY <2>2, ProjectShape
  <2> QED BY <2>1, <2>3, FS_Product
<1>2. IsFiniteSet(DOMAIN bufs)
  <2>1. IsFiniteSet(1 .. Len(bufs))
    BY ProjectShape, FS_Interval
  <2> QED BY <2>1, ProjectShape
<1>3. IsFiniteSet(Rows)
  <2> DEFINE rowOf == [b \in DOMAIN bufs |-> Row(b)]
  <2>1. rowOf \in Surjection(DOMAIN bufs, Rows)
    BY DEF Surjection
  <2> HIDE DEF rowOf, Rows
  <2> QED BY <1>2, <2>1, FS_Surjection
<1>4. IsFiniteSet(UNION Rows)
  <2> HIDE DEF Row
  <2>1. \A r \in Rows : IsFiniteSet(r)
    BY <1>1
  <2> HIDE DEF Rows
  <2> QED BY <2>1, <1>3, FS_UNION
<1>5. IdentifierPositions(bufs) \subseteq UNION Rows
  BY DEF IdentifierPositions, Table!IdentifierPositions, Table!Positions
<1>6. Linked \subseteq UNION Rows
  BY <1>5 DEF Linked
<1> QED BY <1>4, <1>5, <1>6, FS_Subset

(* A home slot is a slot of any table that has one.                        *)
LEMMA HomeIsSlot ==
  ASSUME slot_count \in Nat \ {0}, NEW text \in Texts
  PROVE  Home(text) \in AllSlots
<1>1. Hash[text] \in Nat
  BY HashAssumption
<1> QED BY <1>1 DEF Home, AllSlots

(* Of two slots, a probe from h passes one before it reaches the other.    *)
LEMMA ArcTotal ==
  ASSUME NEW h \in Nat, NEW s \in Nat, NEW t \in Nat, s # t
  PROVE  InArc(h, s, t) \/ InArc(h, t, s)
  BY DEF InArc

(* One probe step adds only the slot it leaves to the arc.                 *)
LEMMA ArcStep ==
  ASSUME slot_count \in Nat, NEW h \in AllSlots, NEW s \in AllSlots, NEW x \in AllSlots,
         InArc(h, NextSlot(s), x)
  PROVE  InArc(h, s, x) \/ x = s
  BY DEF InArc, NextSlot, AllSlots

(* A probe starts with an empty arc.                                       *)
LEMMA ArcStart ==
  ASSUME NEW h \in Nat, NEW x \in Nat
  PROVE  ~InArc(h, h, x)
  BY DEF InArc

(* The table has at least as many slots as there are identifiers.          *)
LEMMA SlotCountFact ==
  ASSUME NEW n \in Nat
  PROVE  SlotCount(n) \in Nat /\ SlotCount(n) >= n
  BY DEF SlotCount

------------------------------------------------------------------------------
(* What holds while a token is looked up.                                  *)

(* The current token is one of the project's, and the loops have not       *)
(* passed it; passing it adds it alone to what they have passed.           *)
LEMMA CurrentFact ==
  ASSUME TypeOK, AtToken
  PROVE  /\ Current \in Positions(bufs)
         /\ Current[1] = buf_index /\ Current[2] = token
         /\ ~Processed(Current)
         /\ \A p \in Positions(bufs) :
              (p[1] < buf_index \/ (p[1] = buf_index /\ p[2] < token + 1))
                <=> (Processed(p) \/ p = Current)
<1>1. buf_index \in 1 .. Len(bufs) /\ token \in 1 .. Len(bufs[buf_index])
  <2>1. Len(bufs) \in Nat /\ buf_index \in 1 .. Len(bufs)
    BY ProjectShape DEF TypeOK, AtToken
  <2>2. Len(bufs[buf_index]) \in Nat
    BY <2>1, ProjectShape DEF TypeOK
  <2> QED BY <2>1, <2>2 DEF TypeOK, AtToken
<1>2. Current \in Positions(bufs)
  BY <1>1, PositionFact DEF TypeOK, Current
<1>3. \A p \in Positions(bufs) : p = <<p[1], p[2]>> /\ p[1] \in Nat /\ p[2] \in Nat
  <2> TAKE p \in Positions(bufs)
  <2>1. /\ p = <<p[1], p[2]>> /\ p[1] \in 1 .. Len(bufs)
        /\ p[2] \in 1 .. Len(bufs[p[1]])
    BY PositionFact DEF TypeOK
  <2>2. Len(bufs[p[1]]) \in Nat /\ Len(bufs) \in Nat
    BY <2>1, ProjectShape DEF TypeOK
  <2> QED BY <2>1, <2>2
<1> QED BY <1>1, <1>2, <1>3 DEF Current, Processed

(* The token being looked up is an identifier without an ID, so there are  *)
(* fewer linked tokens than identifier tokens.                             *)
LEMMA LookedUp ==
  ASSUME TypeOK, LookupIsInverse, phase = "probe"
  PROVE  /\ Current \in IdentifierPositions(bufs)
         /\ CurrentText = Text(Current) /\ CurrentText \in Texts
         /\ ids[Current] = NoId
         /\ Cardinality(Linked) \in Nat
         /\ Cardinality(IdentifierPositions(bufs)) \in Nat
         /\ Cardinality(Linked) < Cardinality(IdentifierPositions(bufs))
<1>1. AtToken /\ CurrentText # NotIdentifier
  BY DEF TypeOK
<1>2. Current \in Positions(bufs) /\ CurrentText = Text(Current) /\ ~Processed(Current)
  BY <1>1, CurrentFact DEF CurrentText, Text, Current
<1>3. CurrentText \in Texts
  BY <1>1, <1>2, PositionFact DEF TypeOK, Text
<1>4. ids[Current] = NoId
  BY <1>2 DEF LookupIsInverse
<1>5. Current \in IdentifierPositions(bufs)
  BY <1>1, <1>2 DEF IdentifierPositions, Table!IdentifierPositions, Positions, Text
<1>6. Linked \in SUBSET IdentifierPositions(bufs) /\ Linked # IdentifierPositions(bufs)
  BY <1>4, <1>5 DEF Linked
<1>7. IsFiniteSet(IdentifierPositions(bufs)) /\ IsFiniteSet(Linked)
  BY PositionsFinite DEF TypeOK
<1>8. /\ Cardinality(Linked) <= Cardinality(IdentifierPositions(bufs))
      /\ Cardinality(IdentifierPositions(bufs)) # Cardinality(Linked)
  BY <1>6, <1>7, FS_Subset
<1>9. Cardinality(Linked) \in Nat /\ Cardinality(IdentifierPositions(bufs)) \in Nat
  BY <1>7, FS_CardinalityType
<1>10. Cardinality(Linked) < Cardinality(IdentifierPositions(bufs))
  BY <1>8, <1>9
<1> QED BY <1>2, <1>3, <1>4, <1>5, <1>9, <1>10

(* The occupied slots are finitely many.                                   *)
LEMMA OccupiedFinite ==
  ASSUME slot_count \in Nat
  PROVE  /\ IsFiniteSet(AllSlots) /\ Cardinality(AllSlots) = slot_count
         /\ IsFiniteSet(Occupied)
<1>1. IsFiniteSet(AllSlots) /\ Cardinality(AllSlots) = slot_count
  BY FS_Interval DEF AllSlots
<1>2. Occupied \in SUBSET AllSlots
  BY DEF Occupied
<1> QED BY <1>1, <1>2, FS_Subset

(* The table is never full while a token is looked up.                     *)
LEMMA NotFull == IInv => ProbeCanStop
<1> SUFFICES ASSUME IInv, phase = "probe"
             PROVE  \E s \in AllSlots : slots[s] = Empty
  BY DEF ProbeCanStop
<1> DEFINE n == Cardinality(IdentifierPositions(bufs))
<1>1. n \in Nat /\ Cardinality(Linked) \in Nat /\ Cardinality(Linked) < n
  BY LookedUp DEF IInv
<1>2. slot_count \in Nat /\ slot_count >= n
  BY <1>1, SlotCountFact DEF IInv, SizeInv
<1>3. Cardinality(Occupied) <= Cardinality(Linked)
  BY DEF IInv, CountInv
<1>4. Cardinality(Occupied) # Cardinality(AllSlots)
  <2>1. Cardinality(Occupied) \in Nat
    BY <1>2, OccupiedFinite, FS_CardinalityType
  <2> QED BY <1>1, <1>2, <1>3, <2>1, OccupiedFinite
<1>5. Occupied # AllSlots
  BY <1>4
<1> QED BY <1>5 DEF Occupied

(* A probe that ends at an empty slot has shown its spelling to be new.    *)
LEMMA SpellingIsNew ==
  ASSUME IInv, phase = "probe", slots[slot_index] = Empty
  PROVE  /\ \A s \in Occupied : slots[s].ptr # CurrentText
         /\ \A i \in 1 .. Len(contents) : contents[i] # CurrentText
<1>1. slot_index \in AllSlots /\ slot_count \in Nat
  BY DEF IInv, TypeOK
<1>2. CurrentText \in Texts
  BY LookedUp DEF IInv
<1>3. \A s \in Occupied : slots[s].ptr # CurrentText
  <2> SUFFICES ASSUME NEW s \in Occupied, slots[s].ptr = CurrentText
               PROVE  FALSE
    OBVIOUS
  <2>1. s \in AllSlots /\ s # slot_index
    BY DEF Occupied
  <2>2. slot_count \in Nat \ {0} /\ s \in Nat /\ slot_index \in Nat
    BY <1>1, <2>1 DEF AllSlots
  <2>3. Home(CurrentText) \in Nat
    BY <1>2, <2>2, HomeIsSlot DEF AllSlots
  <2>4. ~InArc(Home(CurrentText), slot_index, s)
    BY <2>1 DEF IInv, ProbeInv
  <2>5. ~InArc(Home(CurrentText), s, slot_index)
    BY <1>1 DEF IInv, ProbeChains
  <2> QED BY <2>1, <2>2, <2>3, <2>4, <2>5, ArcTotal
<1>4. ASSUME NEW i \in 1 .. Len(contents)
      PROVE  contents[i] # CurrentText
  <2>1. PICK s \in Occupied : slots[s].id = i - 1
    BY DEF IInv, SlotInv
  <2>2. contents[i] = slots[s].ptr
    <3>1. contents[slots[s].id + 1] = slots[s].ptr
      BY DEF IInv, SlotInv
    <3>2. slots[s].id + 1 = i
      BY <2>1
    <3> QED BY <3>1, <3>2
  <2> QED BY <1>3, <2>2
<1> QED BY <1>3, <1>4

------------------------------------------------------------------------------
(* The invariant holds initially.                                          *)
LEMMA InitInv == Init => IInv
<1> SUFFICES ASSUME Init PROVE IInv
  OBVIOUS
<1>1. bufs \in Seq(Seq(Texts \cup {NotIdentifier}))
  BY ProjectsAssumption DEF Init
<1>2. Len(bufs) \in Nat
  BY <1>1
<1>3. TypeOK
  BY <1>1, <1>2 DEF Init, TypeOK
<1>4. LookupIsInverse
  <2>1. \A p \in Positions(bufs) : ~Processed(p) /\ ids[p] = NoId
    <3> TAKE p \in Positions(bufs)
    <3>1. p[1] \in 1 .. Len(bufs) /\ p[2] \in 1 .. Len(bufs[p[1]])
      BY <1>1, PositionFact
    <3>2. p[1] \in Nat \ {0} /\ p[2] \in Nat \ {0}
      BY <3>1, <1>1, ProjectShape
    <3> QED BY <3>2 DEF Init, Processed
  <2> QED BY <2>1 DEF LookupIsInverse
<1> QED
  BY <1>3, <1>4 DEF Init, IInv, StartInv, SizeInv, SlotInv, ProbeChains, CountInv, ProbeInv

(* A step that leaves the table, the IDs and the contents alone keeps what *)
(* IInv says of them; the loops may advance over tokens that need no ID.   *)
LEMMA Unchanging ==
  ASSUME IInv, phase # "count", phase' # "count",
         UNCHANGED <<bufs, ids, contents, slot_count, slots>>
  PROVE  SizeInv' /\ SlotInv' /\ ProbeChains' /\ CountInv' /\ StartInv'
<1>1. Occupied' = Occupied /\ AllSlots' = AllSlots /\ Linked' = Linked
  BY DEF Occupied, AllSlots, Linked, IdentifierPositions, Positions
<1>2. SizeInv'
  BY DEF IInv, SizeInv, IdentifierPositions, Positions
<1>3. SlotInv'
  BY <1>1 DEF IInv, SlotInv
<1>4. ProbeChains'
  BY <1>1 DEF IInv, ProbeChains, Home
<1>5. CountInv'
  BY <1>1 DEF IInv, CountInv
<1>6. StartInv'
  BY DEF StartInv
<1> QED BY <1>2, <1>3, <1>4, <1>5, <1>6

(* Linking the current token to the ID of its spelling.                    *)
LEMMA Linking ==
  ASSUME IInv, phase = "probe", phase' = "scan", NEW i \in Nat,
         bufs' = bufs, buf_index' = buf_index, token' = token + 1,
         ids' = [ids EXCEPT ![Current] = i],
         contents' \in Seq(Texts), i < Len(contents'), contents'[i + 1] = CurrentText,
         Len(contents') >= Len(contents),
         \A k \in 1 .. Len(contents) : contents'[k] = contents[k]
  PROVE  /\ LookupIsInverse'
         /\ ids' \in [Positions(bufs) -> Nat \cup {NoId}]
         /\ Linked' = Linked \cup {Current} /\ Current \notin Linked
<1>1. /\ Current \in IdentifierPositions(bufs) /\ CurrentText = Text(Current)
      /\ ids[Current] = NoId
  BY LookedUp DEF IInv
<1>2. /\ Current \in Positions(bufs) /\ Text(Current) # NotIdentifier
      /\ IdentifierPositions(bufs) \subseteq Positions(bufs)
  BY <1>1 DEF IdentifierPositions, Table!IdentifierPositions, Positions, Text
<1>3. ids \in [Positions(bufs) -> Nat \cup {NoId}]
  BY DEF IInv, TypeOK
<1>4. \A p \in Positions(bufs) : ids'[p] = IF p = Current THEN i ELSE ids[p]
  BY <1>3
<1>5. i # NoId
  BY DEF NoId, Table!NoId
<1>6. LookupIsInverse'
  <2> SUFFICES ASSUME NEW p \in Positions(bufs)
               PROVE  IF Processed(p)' /\ Text(p) # NotIdentifier
                      THEN /\ ids'[p] \in 0 .. Len(contents') - 1
                           /\ contents'[ids'[p] + 1] = Text(p)
                      ELSE ids'[p] = NoId
    BY DEF LookupIsInverse, Text, Positions
  <2>1. Processed(p)' <=> Processed(p) \/ p = Current
    BY CurrentFact DEF IInv, TypeOK, Processed
  <2>2. CASE p = Current
    BY <1>1, <1>2, <1>4, <2>1, <2>2
  <2>3. CASE p # Current
    <3>1. IF Processed(p) /\ Text(p) # NotIdentifier
          THEN ids[p] \in 0 .. Len(contents) - 1 /\ contents[ids[p] + 1] = Text(p)
          ELSE ids[p] = NoId
      BY DEF IInv, LookupIsInverse, Text
    <3>2. ids'[p] = ids[p]
      BY <1>4, <2>3
    <3>3. Len(contents) \in Nat /\ Len(contents') \in Nat
      BY DEF IInv, TypeOK
    <3>4. ASSUME Processed(p) /\ Text(p) # NotIdentifier
          PROVE  /\ ids[p] \in 0 .. Len(contents') - 1
                 /\ contents'[ids[p] + 1] = Text(p)
      <4>1. ids[p] \in 0 .. Len(contents) - 1 /\ contents[ids[p] + 1] = Text(p)
        BY <3>1, <3>4
      <4>2. ids[p] + 1 \in 1 .. Len(contents)
        BY <4>1, <3>3
      <4> QED BY <4>1, <4>2, <3>3
    <3> QED BY <2>1, <2>3, <3>1, <3>2, <3>4
  <2> QED BY <2>2, <2>3
<1>7. Linked' = {p \in IdentifierPositions(bufs) : ids'[p] # NoId}
  BY DEF Linked, IdentifierPositions
<1>8. Linked' = Linked \cup {Current} /\ Current \notin Linked
  BY <1>1, <1>2, <1>4, <1>5, <1>7 DEF Linked
<1> QED BY <1>2, <1>3, <1>6, <1>8

------------------------------------------------------------------------------
(* Every step keeps the invariant.                                         *)
LEMMA StepInv == IInv /\ [Next]_vars => IInv'
<1> SUFFICES ASSUME IInv, [Next]_vars PROVE IInv'
  OBVIOUS
<1>1. CASE AllocateTable
  <2> USE <1>1
  <2> DEFINE n == Cardinality(IdentifierPositions(bufs))
  <2>1. n \in Nat
    BY PositionsFinite, FS_CardinalityType DEF IInv, TypeOK
  <2>2. slot_count' \in Nat /\ slot_count' = SlotCount(n)
    BY <2>1, SlotCountFact DEF AllocateTable
  <2>3. TypeOK'
    BY <2>2 DEF IInv, TypeOK, AllocateTable, AllSlots, AtToken
  <2>4. LookupIsInverse'
    BY DEF IInv, LookupIsInverse, AllocateTable, Processed
  <2>5. Occupied' = {} /\ contents' = <<>>
    BY DEF AllocateTable, Occupied, AllSlots, IInv, StartInv
  <2>6. CountInv'
    <3>1. Linked' = Linked /\ Cardinality(Linked) \in Nat
      BY PositionsFinite, FS_CardinalityType
         DEF IInv, TypeOK, AllocateTable, Linked, IdentifierPositions
    <3> QED BY <2>5, <3>1, FS_EmptySet DEF CountInv
  <2>7. SizeInv' /\ StartInv' /\ ProbeInv'
    BY <2>2 DEF AllocateTable, SizeInv, StartInv, ProbeInv, IdentifierPositions
  <2>8. SlotInv' /\ ProbeChains'
    BY <2>5 DEF SlotInv, ProbeChains
  <2> QED BY <2>3, <2>4, <2>6, <2>7, <2>8 DEF IInv
<1>2. CASE NextBuffer
  <2> USE <1>2
  <2>1. TypeOK'
    BY ProjectShape DEF IInv, TypeOK, NextBuffer, AllSlots
  <2>2. \A p \in Positions(bufs) : Processed(p)' <=> Processed(p)
    <3> TAKE p \in Positions(bufs)
    <3>1. p[1] \in 1 .. Len(bufs) /\ p[2] \in 1 .. Len(bufs[p[1]])
      BY PositionFact DEF IInv, TypeOK
    <3>2. Len(bufs) \in Nat /\ Len(bufs[p[1]]) \in Nat
      BY <3>1, ProjectShape DEF IInv, TypeOK
    <3>3. /\ buf_index \in Nat /\ token \in Nat /\ token > Len(bufs[buf_index])
          /\ buf_index' = buf_index + 1 /\ token' = 1
      BY <3>2 DEF IInv, TypeOK, NextBuffer
    <3>4. p[1] \in Nat /\ p[2] \in Nat \ {0} /\ (p[1] = buf_index => p[2] < token)
      BY <3>1, <3>2, <3>3
    <3> QED BY <3>3, <3>4 DEF Processed
  <2>3. LookupIsInverse'
    BY <2>2 DEF IInv, LookupIsInverse, NextBuffer
  <2>4. ProbeInv'
    BY DEF ProbeInv, NextBuffer
  <2> QED BY <2>1, <2>3, <2>4, Unchanging DEF IInv, NextBuffer
<1>3. CASE SkipToken
  <2> USE <1>3
  <2>1. TypeOK'
    BY DEF IInv, TypeOK, SkipToken, AllSlots
  <2>2. \A p \in Positions(bufs) : Processed(p)' <=> Processed(p) \/ p = Current
    BY CurrentFact DEF IInv, SkipToken, Processed
  <2>3. Text(Current) = NotIdentifier
    BY DEF SkipToken, CurrentText, Current, Text
  <2>4. LookupIsInverse'
    BY <2>2, <2>3 DEF IInv, LookupIsInverse, SkipToken, Text
  <2>5. ProbeInv'
    BY DEF ProbeInv, SkipToken
  <2> QED BY <2>1, <2>4, <2>5, Unchanging DEF IInv, SkipToken
<1>4. CASE BeginProbe
  <2> USE <1>4
  <2>1. Current \in Positions(bufs) /\ CurrentText \in Texts
    <3>1. Current \in Positions(bufs) /\ CurrentText = bufs[Current[1]][Current[2]]
      BY CurrentFact DEF IInv, BeginProbe, CurrentText
    <3> QED BY <3>1, PositionFact DEF IInv, TypeOK, BeginProbe
  <2>2. slot_count \in Nat \ {0}
    <3>1. Current \in IdentifierPositions(bufs)
      BY <2>1, CurrentFact
         DEF IInv, BeginProbe, CurrentText, Positions, IdentifierPositions,
             Table!IdentifierPositions
    <3>2. Cardinality(IdentifierPositions(bufs)) \in Nat \ {0}
      BY <3>1, PositionsFinite, FS_CardinalityType, FS_EmptySet DEF IInv, TypeOK
    <3>3. slot_count \in Nat /\ slot_count >= Cardinality(IdentifierPositions(bufs))
      BY <3>2, SlotCountFact DEF IInv, SizeInv, BeginProbe
    <3> QED BY <3>2, <3>3
  <2>3. Home(CurrentText) \in AllSlots
    BY <2>1, <2>2, HomeIsSlot
  <2>4. TypeOK'
    BY <2>3 DEF IInv, TypeOK, BeginProbe, AllSlots, AtToken, CurrentText
  <2>5. LookupIsInverse'
    BY DEF IInv, LookupIsInverse, BeginProbe, Processed
  <2>6. ProbeInv'
    <3>1. /\ slot_index' = Home(CurrentText) /\ Home(CurrentText') = Home(CurrentText)
          /\ AllSlots' = AllSlots
      BY DEF BeginProbe, CurrentText, AllSlots, Home
    <3>2. Home(CurrentText) \in Nat /\ AllSlots \subseteq Nat
      BY <2>3 DEF AllSlots
    <3>3. Home(CurrentText)' = Home(CurrentText)
      BY DEF BeginProbe, CurrentText, Home
    <3> QED BY <3>1, <3>2, <3>3, ArcStart DEF ProbeInv, InArc
  <2> QED BY <2>4, <2>5, <2>6, Unchanging DEF IInv, BeginProbe
<1>5. CASE NoMatch
  <2> USE <1>5
  <2>1. slot_index \in AllSlots /\ slot_count \in Nat /\ AtToken /\ CurrentText # NotIdentifier
    BY DEF IInv, TypeOK, NoMatch
  <2>2. NextSlot(slot_index) \in AllSlots
    BY <2>1 DEF NextSlot, AllSlots
  <2>3. TypeOK'
    BY <2>1, <2>2 DEF IInv, TypeOK, NoMatch, AllSlots, AtToken, CurrentText
  <2>4. LookupIsInverse'
    BY DEF IInv, LookupIsInverse, NoMatch, Processed
  <2>5. CurrentText \in Texts /\ Home(CurrentText) \in AllSlots
    <3>1. CurrentText \in Texts
      BY LookedUp DEF IInv, NoMatch
    <3>2. slot_count \in Nat \ {0}
      BY <2>1 DEF AllSlots
    <3> QED BY <3>1, <3>2, HomeIsSlot
  <2>6. slots[slot_index] # Empty /\ slots[slot_index].ptr # CurrentText
    <3>1. slot_index \in Occupied
      BY <2>1 DEF NoMatch, Occupied
    <3>2. slots[slot_index].hash = Hash[slots[slot_index].ptr]
      BY <3>1 DEF IInv, SlotInv, NoMatch
    <3> QED BY <3>2 DEF NoMatch, SlotMatches
  <2>7. ProbeInv'
    <3>1. /\ slot_index' = NextSlot(slot_index) /\ Home(CurrentText)' = Home(CurrentText)
          /\ AllSlots' = AllSlots /\ slots' = slots /\ CurrentText' = CurrentText
      BY DEF NoMatch, CurrentText, AllSlots, Home
    <3>2. ASSUME NEW x \in AllSlots, InArc(Home(CurrentText), NextSlot(slot_index), x)
          PROVE  slots[x] # Empty /\ slots[x].ptr # CurrentText
      <4>1. InArc(Home(CurrentText), slot_index, x) \/ x = slot_index
        BY <2>1, <2>5, <3>2, ArcStep
      <4> QED BY <2>6, <4>1 DEF IInv, ProbeInv, NoMatch
    <3>3. \A x \in AllSlots : InArc(Home(CurrentText)', slot_index', x) =>
            slots'[x] # Empty /\ slots'[x].ptr # CurrentText'
      BY <3>1, <3>2
    <3> QED BY <3>1, <3>3 DEF ProbeInv, InArc
  <2> QED BY <2>3, <2>4, <2>7, Unchanging DEF IInv, NoMatch
<1>6. CASE Link
  <2> USE <1>6
  <2> DEFINE i == slots[slot_index].id
  <2>1. slot_index \in Occupied /\ phase = "probe" /\ phase' = "scan"
    BY DEF IInv, TypeOK, Link, Occupied
  <2>2. slots[slot_index].ptr = CurrentText
    BY DEF Link, SlotMatches
  <2>3. i \in 0 .. Len(contents) - 1 /\ contents[i + 1] = CurrentText
    BY <2>1, <2>2 DEF IInv, SlotInv
  <2>4. contents \in Seq(Texts) /\ Len(contents) \in Nat
    BY DEF IInv, TypeOK
  <2>5. i \in Nat /\ i < Len(contents)
    BY <2>3, <2>4
  <2>6. /\ bufs' = bufs /\ buf_index' = buf_index /\ token' = token + 1
        /\ ids' = [ids EXCEPT ![Current] = i] /\ contents' = contents
        /\ slots' = slots /\ slot_count' = slot_count /\ slot_index' = slot_index
    BY DEF Link
  <2>7. /\ LookupIsInverse' /\ ids' \in [Positions(bufs) -> Nat \cup {NoId}]
        /\ Linked' = Linked \cup {Current} /\ Current \notin Linked
    <3>1. /\ contents' \in Seq(Texts) /\ i < Len(contents') /\ contents'[i + 1] = CurrentText
          /\ Len(contents') >= Len(contents)
          /\ \A k \in 1 .. Len(contents) : contents'[k] = contents[k]
      BY <2>3, <2>4, <2>5, <2>6
    <3> HIDE DEF i
    <3> QED BY <2>1, <2>5, <2>6, <3>1, Linking
  <2>8. TypeOK'
    BY <2>1, <2>6, <2>7 DEF IInv, TypeOK, AllSlots
  <2>9. CountInv'
    <3>1. Cardinality(Linked') >= Cardinality(Linked) /\ Cardinality(Linked) \in Nat
      <4>1. IsFiniteSet(Linked)
        BY PositionsFinite DEF IInv, TypeOK
      <4>2. Cardinality(Linked \cup {Current}) = Cardinality(Linked) + 1
        BY <4>1, <2>7, FS_AddElement
      <4> QED BY <4>1, <4>2, <2>7, FS_CardinalityType
    <3>2. Cardinality(Linked') \in Nat
      <4>1. IsFiniteSet(Linked \cup {Current})
        BY PositionsFinite, FS_AddElement DEF IInv, TypeOK
      <4> QED BY <4>1, <2>7, FS_CardinalityType
    <3>3. Occupied' = Occupied
      BY <2>6 DEF Occupied, AllSlots
    <3>4. Cardinality(Occupied) = Len(contents) /\ Len(contents) <= Cardinality(Linked)
      BY <2>1 DEF IInv, CountInv
    <3> QED BY <2>4, <2>6, <3>1, <3>2, <3>3, <3>4 DEF CountInv
  <2>10. Occupied' = Occupied /\ AllSlots' = AllSlots
    BY <2>6 DEF Occupied, AllSlots
  <2>11. SlotInv' /\ ProbeChains'
    BY <2>1, <2>6, <2>10 DEF IInv, SlotInv, ProbeChains, Home
  <2>12. SizeInv' /\ StartInv' /\ ProbeInv'
    BY <2>1, <2>6 DEF IInv, SizeInv, StartInv, ProbeInv, IdentifierPositions
  <2> QED BY <2>7, <2>8, <2>9, <2>11, <2>12 DEF IInv
<1>7. CASE Insert
  <2> USE <1>7
  <2> DEFINE i == Len(contents)
             new == [hash |-> Hash[CurrentText], ptr |-> CurrentText, id |-> i]
  <2>1. /\ phase = "probe" /\ phase' = "scan" /\ slots[slot_index] = Empty
        /\ bufs' = bufs /\ buf_index' = buf_index /\ token' = token + 1
        /\ ids' = [ids EXCEPT ![Current] = i] /\ contents' = Append(contents, CurrentText)
        /\ slots' = [slots EXCEPT ![slot_index] = new]
        /\ slot_count' = slot_count /\ slot_index' = slot_index
    BY DEF Insert
  <2>2. /\ contents \in Seq(Texts) /\ i \in Nat /\ slot_count \in Nat
        /\ slots \in [AllSlots -> Slot \cup {Empty}] /\ slot_index \in AllSlots
    BY <2>1 DEF IInv, TypeOK
  <2>3. CurrentText \in Texts
    BY <2>1, LookedUp DEF IInv
  <2>4. /\ contents' \in Seq(Texts) /\ Len(contents') = i + 1
        /\ contents'[i + 1] = CurrentText
        /\ \A k \in 1 .. i : contents'[k] = contents[k]
    BY <2>1, <2>2, <2>3
  <2>5. new \in Slot /\ new # Empty
    BY <2>2, <2>3, HashAssumption, EmptyAssumption DEF Slot
  <2>6. \A s \in AllSlots : slots'[s] = IF s = slot_index THEN new ELSE slots[s]
    BY <2>1, <2>2
  <2>7. /\ LookupIsInverse' /\ ids' \in [Positions(bufs) -> Nat \cup {NoId}]
        /\ Linked' = Linked \cup {Current} /\ Current \notin Linked
    <3>1. i < Len(contents') /\ Len(contents') >= Len(contents)
      BY <2>2, <2>4
    <3> QED BY <2>1, <2>2, <2>4, <3>1, Linking
  <2>8. TypeOK'
    <3>1. slots' \in [AllSlots -> Slot \cup {Empty}]
      BY <2>1, <2>2, <2>5
    <3> QED BY <2>1, <2>2, <2>4, <2>7, <3>1 DEF IInv, TypeOK, AllSlots
  <2>9. /\ AllSlots' = AllSlots /\ Occupied' = Occupied \cup {slot_index}
        /\ slot_index \notin Occupied
    <3> HIDE DEF new
    <3>1. AllSlots' = AllSlots
      BY <2>1 DEF AllSlots
    <3> QED BY <2>1, <2>2, <2>5, <2>6, <3>1 DEF Occupied
  <2>10. CountInv'
    <3>1. IsFiniteSet(Linked) /\ IsFiniteSet(Occupied)
      BY <2>2, PositionsFinite, OccupiedFinite DEF IInv, TypeOK
    <3>2. /\ Cardinality(Linked') = Cardinality(Linked) + 1
          /\ Cardinality(Occupied') = Cardinality(Occupied) + 1
      BY <2>7, <2>9, <3>1, FS_AddElement
    <3>3. Cardinality(Linked) \in Nat /\ Cardinality(Occupied) \in Nat
      BY <3>1, FS_CardinalityType
    <3>4. Cardinality(Occupied) = i /\ i <= Cardinality(Linked)
      BY <2>1 DEF IInv, CountInv
    <3> QED BY <2>2, <2>4, <3>2, <3>3, <3>4 DEF CountInv
  <2>11. SlotInv'
    <3> HIDE DEF new
    <3>1. new.hash = Hash[new.ptr] /\ new.ptr = CurrentText /\ new.id = i
      BY DEF new
    <3>2. /\ \A s \in Occupied : /\ slots[s].hash = Hash[slots[s].ptr]
                                 /\ slots[s].id \in 0 .. i - 1
                                 /\ contents[slots[s].id + 1] = slots[s].ptr
          /\ \A k \in 1 .. i : \E s \in Occupied : slots[s].id = k - 1
          /\ \A s, t \in Occupied : slots[s].ptr = slots[t].ptr => s = t
      BY <2>1 DEF IInv, SlotInv
    <3>3. \A s \in Occupied : slots[s].ptr # CurrentText
      BY <2>1, SpellingIsNew
    <3>4. /\ slots'[slot_index] = new
          /\ \A s \in Occupied : slots'[s] = slots[s] /\ s # slot_index
      BY <2>2, <2>6, <2>9 DEF Occupied
    <3>5. ASSUME NEW s \in Occupied'
          PROVE  /\ slots'[s].hash = Hash[slots'[s].ptr]
                 /\ slots'[s].id \in 0 .. Len(contents') - 1
                 /\ contents'[slots'[s].id + 1] = slots'[s].ptr
      <4>1. CASE s = slot_index
        <5>1. i \in 0 .. Len(contents') - 1
          BY <2>2, <2>4
        <5> HIDE DEF i
        <5> QED BY <2>4, <3>1, <3>4, <4>1, <5>1
      <4>2. CASE s \in Occupied
        <5>1. slots[s].id \in 0 .. i - 1 /\ slots[s].id + 1 \in 1 .. i
          BY <2>2, <3>2, <4>2
        <5>2. /\ slots'[s] = slots[s] /\ slots[s].hash = Hash[slots[s].ptr]
              /\ contents[slots[s].id + 1] = slots[s].ptr
          BY <3>2, <3>4, <4>2
        <5>3. contents'[slots[s].id + 1] = slots[s].ptr
          BY <2>4, <5>1, <5>2
        <5>4. slots[s].id \in 0 .. Len(contents') - 1
          BY <2>2, <2>4, <5>1
        <5> QED BY <5>2, <5>3, <5>4
      <4> QED BY <2>9, <4>1, <4>2
    <3>6. ASSUME NEW k \in 1 .. Len(contents')
          PROVE  \E s \in Occupied' : slots'[s].id = k - 1
      <4>1. CASE k = i + 1
        BY <2>2, <2>9, <3>1, <3>4, <4>1
      <4>2. CASE k \in 1 .. i
        BY <2>9, <3>2, <3>4, <4>2
      <4> QED BY <2>2, <2>4, <4>1, <4>2
    <3>7. \A s, t \in Occupied' : slots'[s].ptr = slots'[t].ptr => s = t
      BY <2>9, <3>1, <3>2, <3>3, <3>4
    <3> QED BY <3>5, <3>6, <3>7 DEF SlotInv
  <2>12. ProbeChains'
    <3> SUFFICES ASSUME NEW s \in Occupied', NEW x \in AllSlots,
                        InArc(Hash[slots'[s].ptr] % slot_count, s, x)
                 PROVE  slots'[x] # Empty
      BY <2>1, <2>9 DEF ProbeChains, Home, InArc
    <3>1. CASE s = slot_index
      <4>1. InArc(Home(CurrentText), slot_index, x)
        BY <2>2, <2>6, <3>1 DEF Home
      <4> QED BY <2>1, <2>5, <2>6, <4>1 DEF IInv, ProbeInv
    <3>2. CASE s \in Occupied
      <4>1. slots'[s] = slots[s]
        BY <2>6, <2>9, <3>2 DEF Occupied
      <4>2. slots[x] # Empty
        BY <2>1, <3>2, <4>1 DEF IInv, ProbeChains, Home
      <4> QED BY <2>5, <2>6, <4>2
    <3> QED BY <2>9, <3>1, <3>2
  <2>13. SizeInv' /\ StartInv' /\ ProbeInv'
    BY <2>1 DEF IInv, SizeInv, StartInv, ProbeInv, IdentifierPositions
  <2> QED BY <2>7, <2>8, <2>10, <2>11, <2>12, <2>13 DEF IInv
<1>8. CASE Finish
  <2>1. TypeOK'
    BY <1>8 DEF IInv, TypeOK, Finish, AllSlots
  <2>2. LookupIsInverse' /\ ProbeInv'
    BY <1>8 DEF IInv, LookupIsInverse, ProbeInv, Finish, Processed
  <2> QED BY <1>8, <2>1, <2>2, Unchanging DEF IInv, Finish
<1>9. CASE UNCHANGED vars
  BY <1>9 DEF vars, IInv, TypeOK, StartInv, SizeInv, LookupIsInverse, SlotInv, ProbeChains,
     CountInv, ProbeInv, AllSlots, AtToken, CurrentText, Occupied, Linked, Processed, Home,
     IdentifierPositions, Positions, InArc
<1> QED
  BY <1>1, <1>2, <1>3, <1>4, <1>5, <1>6, <1>7, <1>8, <1>9 DEF Next

------------------------------------------------------------------------------
(* The inductive invariant holds in every state of intern().               *)
THEOREM InvariantHolds == Spec => []IInv
<1> QED BY InitInv, StepInv, PTL DEF Spec

(* No action leaves the types or the bounds of the arrays it indexes: the  *)
(* loops, the slots (intern.c:26-50) and the IDs.                          *)
THEOREM TypeCorrect == Spec => []TypeOK
<1>1. IInv => TypeOK
  BY DEF IInv
<1> QED BY InvariantHolds, <1>1, PTL

(* Every linked token's ID looks up to the token's own spelling, and no    *)
(* identifier the loops have passed is left without an ID (intern.c:90).   *)
THEOREM LookupCorrect == Spec => []LookupIsInverse
<1>1. IInv => LookupIsInverse
  BY DEF IInv
<1> QED BY InvariantHolds, <1>1, PTL

(* Linear probing never stops short of an identifier's slot, whatever the  *)
(* hash function and the collisions (intern.c:26-50).                      *)
THEOREM ProbingCorrect == Spec => []ProbeChains
<1>1. IInv => ProbeChains
  BY DEF IInv
<1> QED BY InvariantHolds, <1>1, PTL

(* The probe loop always has an empty slot ahead of it: the table size of  *)
(* intern.c:79 is enough for every project, collisions or not.             *)
THEOREM ProbeLoopHasAnEnd == Spec => []ProbeCanStop
<1> QED BY InvariantHolds, NotFull, PTL

(* Two IDs never have the same spelling: each has a slot, and a spelling   *)
(* has but one.                                                            *)
LEMMA DistinctSpellings ==
  ASSUME IInv, phase # "count",
         NEW i \in 1 .. Len(contents), NEW j \in 1 .. Len(contents), contents[i] = contents[j]
  PROVE  i = j
<1>1. PICK s \in Occupied : slots[s].id = i - 1
  BY DEF IInv, SlotInv
<1>2. PICK t \in Occupied : slots[t].id = j - 1
  BY DEF IInv, SlotInv
<1>3. Len(contents) \in Nat
  BY DEF IInv, TypeOK
<1>4. slots[s].ptr = contents[i] /\ slots[t].ptr = contents[j]
  <2>1. /\ contents[slots[s].id + 1] = slots[s].ptr
        /\ contents[slots[t].id + 1] = slots[t].ptr
    BY DEF IInv, SlotInv
  <2>2. slots[s].id + 1 = i /\ slots[t].id + 1 = j
    BY <1>1, <1>2, <1>3
  <2> QED BY <2>1, <2>2
<1>5. s = t
  BY <1>4 DEF IInv, SlotInv
<1> QED BY <1>1, <1>2, <1>3, <1>5

(* An ID names one spelling, so it is the same for two tokens exactly when *)
(* their spellings are: IDs can stand for names in the rest of the         *)
(* compiler (lower.c compares nothing else).                               *)
THEOREM IdsStandForNames == Spec => []SameIdIffSameText
<1>1. IInv => SameIdIffSameText
  <2> SUFFICES ASSUME IInv,
                      NEW p \in IdentifierPositions(bufs), NEW q \in IdentifierPositions(bufs),
                      ids[p] # NoId, ids[q] # NoId
               PROVE  ids[p] = ids[q] <=> Text(p) = Text(q)
    BY DEF SameIdIffSameText, Text
  <2>1. /\ p \in Positions(bufs) /\ q \in Positions(bufs)
        /\ Text(p) # NotIdentifier /\ Text(q) # NotIdentifier
    BY DEF IdentifierPositions, Table!IdentifierPositions, Positions, Text
  <2>2. /\ ids[p] \in 0 .. Len(contents) - 1 /\ contents[ids[p] + 1] = Text(p)
        /\ ids[q] \in 0 .. Len(contents) - 1 /\ contents[ids[q] + 1] = Text(q)
        /\ Processed(p)
    BY <2>1 DEF IInv, LookupIsInverse, Text
  <2>3. phase # "count"
    <3>1. Len(contents) \in Nat /\ Len(contents) > 0
      BY <2>2 DEF IInv, TypeOK
    <3> QED BY <3>1 DEF IInv, StartInv
  <2>4. ids[p] + 1 \in 1 .. Len(contents) /\ ids[q] + 1 \in 1 .. Len(contents)
    BY <2>2 DEF IInv, TypeOK
  <2>5. Text(p) = Text(q) => ids[p] + 1 = ids[q] + 1
    BY <2>2, <2>3, <2>4, DistinctSpellings
  <2>6. ids[p] \in Int /\ ids[q] \in Int
    BY <2>2
  <2> QED BY <2>2, <2>5, <2>6
<1> QED BY InvariantHolds, <1>1, PTL

------------------------------------------------------------------------------
(* The hash table implements the abstract table of spellings: linking a    *)
(* token to a slot's ID is LinkKnown, filling an empty slot is LinkNew,    *)
(* and every other step of intern() leaves the abstract table alone.       *)
THEOREM Refinement == Spec => ImplementsTable
<1>1. Init => Table!Init
  BY ProjectsAssumption DEF Init, Table!Init, NoId, Positions
<1>2. IInv /\ [Next]_vars => [Table!Next]_(Table!vars)
  <2> SUFFICES ASSUME IInv, [Next]_vars
               PROVE  Table!Next \/ UNCHANGED Table!vars
    OBVIOUS
  <2>1. CASE Link
    <3>1. slot_index \in Occupied /\ phase = "probe"
      BY <2>1 DEF IInv, TypeOK, Link, Occupied
    <3>2. /\ slots[slot_index].id \in 0 .. Len(contents) - 1
          /\ contents[slots[slot_index].id + 1] = CurrentText
      BY <2>1, <3>1 DEF IInv, SlotInv, Link, SlotMatches
    <3>3. /\ Current \in IdentifierPositions(bufs) /\ ids[Current] = NoId
          /\ CurrentText = Text(Current)
      BY <3>1, LookedUp DEF IInv
    <3> DEFINE i == slots[slot_index].id + 1
    <3>4. Len(contents) \in Nat
      BY DEF IInv, TypeOK
    <3>5. i \in 1 .. Len(contents) /\ i - 1 = slots[slot_index].id
      BY <3>2, <3>4
    <3>6. /\ contents[i] = bufs[Current[1]][Current[2]]
          /\ ids' = [ids EXCEPT ![Current] = i - 1]
          /\ UNCHANGED <<bufs, contents>>
      BY <2>1, <3>2, <3>3, <3>5 DEF Link, Text
    <3> HIDE DEF i
    <3>7. Table!LinkKnown(Current)
      BY <3>5, <3>6 DEF Table!LinkKnown
    <3> QED BY <3>3, <3>7 DEF Table!Next, IdentifierPositions, NoId
  <2>2. CASE Insert
    <3>1. phase = "probe" /\ slots[slot_index] = Empty
      BY <2>2 DEF Insert
    <3>2. /\ Current \in IdentifierPositions(bufs) /\ ids[Current] = NoId
          /\ CurrentText = Text(Current)
      BY <3>1, LookedUp DEF IInv
    <3>3. \A i \in 1 .. Len(contents) : contents[i] # CurrentText
      BY <3>1, SpellingIsNew
    <3>4. Table!LinkNew(Current)
      BY <2>2, <3>2, <3>3 DEF Insert, Table!LinkNew, Text
    <3> QED BY <3>2, <3>4 DEF Table!Next, IdentifierPositions, NoId
  <2>3. CASE ~Link /\ ~Insert
    BY <2>3 DEF Next, vars, Table!vars, AllocateTable, NextBuffer, SkipToken, BeginProbe,
       NoMatch, Finish
  <2> QED BY <2>1, <2>2, <2>3
<1> QED BY <1>1, <1>2, InvariantHolds, PTL DEF Spec, ImplementsTable, Table!Spec
==============================================================================
