------------------------------ MODULE ArenaProofs ------------------------------
(***************************************************************************)
(* Proofs about Arena, for every size and address of the arena, all types  *)
(* of elements and however many objects and marks there are: the types,    *)
(* the layout of the objects, and that the bytes implement the stack of    *)
(* objects that ObjectStack specifies.                                     *)
(***************************************************************************)
EXTENDS Arena, FiniteSetTheorems, TLAPS

HeldObjects ==
  [kind : {"array", "builder", "string"}, at : Nat, type : Types, count : Nat, open : BOOLEAN]

Bytes == (Values \cup {Terminator, Undefined}) \X Nat
Memories == [0 .. MaxSize - 1 -> Bytes]

Marks == [bytes_used : Nat, held : Nat]

LEMMA TypeFact ==
  ASSUME TypeOK
  PROVE  /\ held \in Seq(HeldObjects) /\ Len(held) \in Nat
         /\ marks \in Seq(Marks) /\ Len(marks) \in Nat
         /\ bytes_used \in Nat /\ nesting \in Nat /\ top \in Nat /\ MaxSize \in Nat
         /\ memory \in Memories
         /\ \A m \in 1 .. Len(marks) : marks[m].held \in Nat /\ marks[m].bytes_used \in Nat
         /\ \A i \in 1 .. Len(held) : held[i] \in HeldObjects
<1>1. held \in Seq(HeldObjects) /\ Len(held) \in Nat
  BY DEF TypeOK, HeldObjects
<1>2. marks \in Seq(Marks) /\ Len(marks) \in Nat
  BY DEF TypeOK, Marks
<1>3. \A m \in 1 .. Len(marks) : marks[m].held \in Nat /\ marks[m].bytes_used \in Nat
  <2>1. SUFFICES ASSUME NEW m \in 1 .. Len(marks)
                 PROVE  marks[m].held \in Nat /\ marks[m].bytes_used \in Nat
    OBVIOUS
  <2>2. marks[m] \in Marks
    BY <1>2
  <2> QED BY <2>2 DEF Marks
<1>4. /\ bytes_used \in Nat /\ nesting \in Nat /\ top \in Nat /\ MaxSize \in Nat
      /\ memory \in Memories
  BY SizesAssumption DEF TypeOK, Memories, Bytes
<1>5. \A i \in 1 .. Len(held) : held[i] \in HeldObjects
  BY <1>1
<1> QED BY <1>1, <1>2, <1>3, <1>4, <1>5

\* The objects follow each other in the arena.
Apart ==
  /\ bytes_used <= MaxSize
  /\ \A i \in 1 .. Len(held) : EndOfObject(held[i]) <= bytes_used
  /\ \A j \in 1 .. Len(held) : \A i \in 1 .. j - 1 : EndOfObject(held[i]) <= held[j].at

\* A mark separates the objects it keeps from those it clears, the marks are
\* in order, and a builder can go on where the mark is.
MarksInv == \A m \in 1 .. Len(marks) :
  /\ marks[m].held <= Len(held)
  /\ marks[m].bytes_used <= bytes_used
  /\ \A i \in 1 .. marks[m].held :
       /\ EndOfObject(held[i]) <= marks[m].bytes_used
       /\ i = marks[m].held /\ held[i].kind = "builder" /\ held[i].open =>
            EndOfObject(held[i]) = marks[m].bytes_used
  /\ \A i \in marks[m].held + 1 .. Len(held) : marks[m].bytes_used <= held[i].at
  /\ \A n \in 1 .. m - 1 :
       marks[n].held <= marks[m].held /\ marks[n].bytes_used <= marks[m].bytes_used

\* A builder that can grow is at the end of what is used, and what has been
\* printed to a string left a byte for the terminator.
GrowingInv ==
  /\ held # <<>> /\ Last.kind = "builder" /\ Last.open => EndOfObject(Last) = bytes_used
  /\ \A i \in 1 .. Len(held) :
       held[i].kind = "string" =>
         /\ held[i].type = Char
         /\ held[i].open /\ held[i].count > 0 => EndOfObject(held[i]) < MaxSize

Layout == Apart /\ MarksInv /\ GrowingInv /\ NestingCountsBuilders /\ ArraysAreAligned

IInv == TypeOK /\ Layout
------------------------------------------------------------------------------
(* Arithmetic.                                                             *)

LEMMA Quotient ==
  ASSUME NEW s \in Nat \ {0}, NEW q \in Nat, NEW r \in 0 .. s - 1
  PROVE  (s * q + r) \div s = q /\ (s * q + r) % s = r
OBVIOUS

LEMMA QuotientBelow ==
  ASSUME NEW s \in Nat \ {0}, NEW n \in Nat, NEW d \in 0 .. s * n - 1
  PROVE  d \div s \in 0 .. n - 1 /\ d % s \in 0 .. s - 1
OBVIOUS

LEMMA PaddedIsAligned ==
  ASSUME NEW s \in Nat \ {0}, NEW a \in Nat
  PROVE  (a + s - (a % s)) % s = 0 /\ a % s \in 0 .. s - 1
<1>1. (a + s - (a % s)) % s = 0
  OBVIOUS
<1>2. a % s \in 0 .. s - 1
  OBVIOUS
<1> QED BY <1>1, <1>2

LEMMA Products ==
  ASSUME NEW s \in Nat
  PROVE  /\ \A n \in Nat : s * n \in Nat
         /\ \A m, n \in Nat : s * (m + n) = s * m + s * n
         /\ \A m, n \in Nat : m <= n => s * m <= s * n
OBVIOUS

\* A set of indices when there is one more.
LEMMA AddedIndex ==
  ASSUME NEW n \in Nat, NEW A, NEW B, \A i \in A : i \in 1 .. n, \A i \in B : i \in 1 .. n + 1,
         \A i \in 1 .. n : i \in B <=> i \in A
  PROVE  B = IF n + 1 \in B THEN A \cup {n + 1} ELSE A
<1>1. CASE n + 1 \in B
  BY <1>1
<1>2. CASE n + 1 \notin B
  BY <1>2
<1> QED BY <1>1, <1>2

\* Ranges of bytes that do not overlap.
LEMMA OutsideFact ==
  ASSUME NEW from \in Nat, NEW to \in Nat, NEW limit \in Nat, to <= limit,
         NEW start \in Nat, NEW end \in Nat, to <= start \/ end <= from
  PROVE  \A b \in from .. to - 1 : b \in 0 .. limit - 1 /\ (b < start \/ b >= end)
OBVIOUS

LEMMA SizeFact ==
  ASSUME NEW t \in Types
  PROVE  t.size \in Nat \ {0} /\ t.align \in Nat \ {0}
BY TypesAssumption

LEMMA CharFact == Char \in Types /\ Char.size = 1
BY TypesAssumption

LEMMA HeldFact ==
  ASSUME NEW o \in HeldObjects
  PROVE  /\ o.at \in Nat /\ o.count \in Nat /\ o.type.size \in Nat \ {0}
         /\ o.type.size * o.count \in Nat
         /\ EndOfObject(o) \in Nat /\ o.at <= EndOfObject(o)
<1>1. o.at \in Nat /\ o.count \in Nat /\ o.type \in Types
  BY DEF HeldObjects
<1>2. o.type.size \in Nat \ {0}
  BY <1>1, SizeFact
<1>3. o.type.size * o.count \in Nat
  BY <1>1, <1>2, Products
<1> QED BY <1>1, <1>2, <1>3 DEF EndOfObject
------------------------------------------------------------------------------
(* The layout of the objects.                                              *)

OpenBuilders == {i \in DOMAIN held : held[i].kind = "builder" /\ held[i].open}

LEMMA OpenBuildersFinite ==
  ASSUME held \in Seq(HeldObjects)
  PROVE  IsFiniteSet(OpenBuilders) /\ OpenBuilders \subseteq 1 .. Len(held)
<1>1. OpenBuilders \subseteq 1 .. Len(held)
  BY DEF OpenBuilders
<1>2. IsFiniteSet(1 .. Len(held))
  BY FS_Interval
<1> QED BY <1>1, <1>2, FS_Subset

\* A new object above the others.
LEMMA AddFact ==
  ASSUME TypeOK, Layout, NEW o \in HeldObjects,
         held' = Append(held, o), UNCHANGED <<top, marks>>,
         bytes_used' \in Nat, bytes_used <= o.at, EndOfObject(o) <= bytes_used',
         bytes_used' <= MaxSize,
         nesting' = IF o.kind = "builder" THEN nesting + 1 ELSE nesting,
         o.kind = "builder" => o.open,
         o.kind = "builder" => EndOfObject(o) = bytes_used',
         o.kind = "string" => o.type = Char /\ o.count = 0,
         o.kind = "array" => (top + o.at) % o.type.size = 0
  PROVE  Layout' /\ held' \in Seq(HeldObjects)
<1>1. /\ held \in Seq(HeldObjects) /\ Len(held) \in Nat
      /\ bytes_used \in Nat /\ nesting \in Nat /\ MaxSize \in Nat
  BY TypeFact
<1>2. /\ held' \in Seq(HeldObjects) /\ Len(held') = Len(held) + 1
      /\ held'[Len(held) + 1] = o
      /\ \A i \in 1 .. Len(held) : held'[i] = held[i]
  BY <1>1
<1>3. \A i \in 1 .. Len(held) : held[i] \in HeldObjects /\ EndOfObject(held[i]) \in Nat
  BY <1>1, HeldFact
<1>4. o.at \in Nat /\ EndOfObject(o) \in Nat /\ o.at <= EndOfObject(o)
  BY HeldFact
<1>5. Apart'
  BY <1>1, <1>2, <1>3, <1>4 DEF Layout, Apart, EndOfObject
<1>6. MarksInv'
  <2>1. SUFFICES ASSUME NEW m \in 1 .. Len(marks)
                 PROVE  /\ marks[m].held <= Len(held')
                        /\ marks[m].bytes_used <= bytes_used'
                        /\ \A i \in 1 .. marks[m].held :
                             /\ EndOfObject(held'[i]) <= marks[m].bytes_used
                             /\ i = marks[m].held /\ held'[i].kind = "builder" /\ held'[i].open =>
                                  EndOfObject(held'[i]) = marks[m].bytes_used
                        /\ \A i \in marks[m].held + 1 .. Len(held') :
                             marks[m].bytes_used <= held'[i].at
                        /\ \A n \in 1 .. m - 1 :
                             marks[n].held <= marks[m].held
                               /\ marks[n].bytes_used <= marks[m].bytes_used
    BY DEF MarksInv, EndOfObject
  <2>2. marks[m].held \in Nat /\ marks[m].bytes_used \in Nat
    BY TypeFact
  <2>3. /\ marks[m].held <= Len(held) /\ marks[m].bytes_used <= bytes_used
        /\ \A i \in 1 .. marks[m].held :
             /\ EndOfObject(held[i]) <= marks[m].bytes_used
             /\ i = marks[m].held /\ held[i].kind = "builder" /\ held[i].open =>
                  EndOfObject(held[i]) = marks[m].bytes_used
        /\ \A i \in marks[m].held + 1 .. Len(held) : marks[m].bytes_used <= held[i].at
        /\ \A n \in 1 .. m - 1 :
             marks[n].held <= marks[m].held /\ marks[n].bytes_used <= marks[m].bytes_used
    BY DEF Layout, MarksInv
  <2>4. bytes_used <= bytes_used' /\ Len(held) <= Len(held')
    BY <1>1, <1>2, <1>4
  <2>5. \A i \in 1 .. marks[m].held : held'[i] = held[i]
    BY <1>1, <1>2, <2>2, <2>3
  <2>6. \A i \in marks[m].held + 1 .. Len(held') : marks[m].bytes_used <= held'[i].at
    <3>1. SUFFICES ASSUME NEW i \in marks[m].held + 1 .. Len(held')
                   PROVE  marks[m].bytes_used <= held'[i].at
      OBVIOUS
    <3>2. CASE i = Len(held) + 1
      BY <1>1, <1>2, <1>4, <2>2, <2>3, <3>2
    <3>3. CASE i # Len(held) + 1
      <4>1. i \in marks[m].held + 1 .. Len(held) /\ i \in 1 .. Len(held)
        BY <1>1, <1>2, <2>2, <3>3
      <4> QED BY <1>2, <2>3, <4>1
    <3> QED BY <3>2, <3>3
  <2>7. marks[m].held <= Len(held') /\ marks[m].bytes_used <= bytes_used'
    BY <1>1, <1>2, <2>2, <2>3, <2>4
  <2> QED BY <2>3, <2>5, <2>6, <2>7
<1>7. GrowingInv'
  <2>1. Last' = o
    BY <1>2 DEF Last
  <2> QED BY <1>1, <1>2, <1>4, <2>1 DEF Layout, GrowingInv, EndOfObject
<1>8. NestingCountsBuilders'
  <2>1. IsFiniteSet(OpenBuilders) /\ Len(held) + 1 \notin OpenBuilders
    BY <1>1, OpenBuildersFinite
  <2>2. OpenBuilders' = IF o.kind = "builder" THEN OpenBuilders \cup {Len(held) + 1}
                        ELSE OpenBuilders
    <3>1. \A i \in 1 .. Len(held) + 1 :
            i \in OpenBuilders' <=> held'[i].kind = "builder" /\ held'[i].open
      BY <1>1, <1>2 DEF OpenBuilders
    <3>2. \A i \in OpenBuilders : i \in 1 .. Len(held)
      BY <1>1 DEF OpenBuilders
    <3>3. \A i \in OpenBuilders' : i \in 1 .. Len(held) + 1
      BY <1>1, <1>2 DEF OpenBuilders
    <3>4. \A i \in 1 .. Len(held) : i \in OpenBuilders' <=> i \in OpenBuilders
      <4>1. SUFFICES ASSUME NEW i \in 1 .. Len(held)
                     PROVE  i \in OpenBuilders' <=> i \in OpenBuilders
        OBVIOUS
      <4>2. i \in 1 .. Len(held) + 1 /\ held'[i] = held[i]
        BY <1>1, <1>2
      <4>3. i \in OpenBuilders <=> held[i].kind = "builder" /\ held[i].open
        BY <1>1 DEF OpenBuilders
      <4> QED BY <3>1, <4>2, <4>3
    <3>5. OpenBuilders' = IF Len(held) + 1 \in OpenBuilders'
                          THEN OpenBuilders \cup {Len(held) + 1} ELSE OpenBuilders
      BY <1>1, <3>2, <3>3, <3>4, AddedIndex
    <3>6. Len(held) + 1 \in OpenBuilders' <=> o.kind = "builder"
      BY <1>1, <1>2, <3>1
    <3> QED BY <3>5, <3>6
  <2>3. Cardinality(OpenBuilders \cup {Len(held) + 1}) = Cardinality(OpenBuilders) + 1
    BY <2>1, FS_AddElement
  <2>4. nesting = Cardinality(OpenBuilders)
    BY DEF Layout, NestingCountsBuilders, OpenBuilders
  <2> QED BY <2>2, <2>3, <2>4 DEF NestingCountsBuilders, OpenBuilders
<1>9. ArraysAreAligned'
  BY <1>1, <1>2 DEF Layout, ArraysAreAligned
<1> QED BY <1>2, <1>5, <1>6, <1>7, <1>8, <1>9 DEF Layout

\* The youngest object changes.
LastBecomes(o) ==
  /\ held' \in Seq(HeldObjects) /\ Len(held') = Len(held)
  /\ held'[Len(held)] = o
  /\ \A i \in 1 .. Len(held) - 1 : held'[i] = held[i]

\* The youngest object grows, or is closed, or both.
LEMMA GrowFact ==
  ASSUME TypeOK, Layout, NEW kind, Growing(kind), NEW o \in HeldObjects,
         o.kind = kind, o.at = Last.at, o.type = Last.type,
         LastBecomes(o), UNCHANGED <<top, marks>>,
         EndOfObject(Last) = bytes_used, EndOfObject(o) = bytes_used',
         bytes_used <= bytes_used', bytes_used' <= MaxSize,
         o.kind = "string" /\ o.open => bytes_used' < MaxSize,
         nesting' = IF kind = "builder" /\ ~o.open THEN nesting - 1 ELSE nesting
  PROVE  Layout' /\ held' \in Seq(HeldObjects) /\ nesting' \in Nat
<1>1. /\ held \in Seq(HeldObjects) /\ Len(held) \in Nat
      /\ bytes_used \in Nat /\ nesting \in Nat /\ MaxSize \in Nat
  BY TypeFact
<1>2. /\ held # <<>> /\ Last.kind = kind /\ Last.open
      /\ \A m \in DOMAIN marks : marks[m].held < Len(held)
  BY DEF Growing
<1>3. Len(held) \in 1 .. Len(held) /\ Last = held[Len(held)] /\ Last \in HeldObjects
  BY <1>1, <1>2 DEF Last
<1>4. /\ held' \in Seq(HeldObjects) /\ Len(held') = Len(held)
      /\ held'[Len(held)] = o
      /\ \A i \in 1 .. Len(held) - 1 : held'[i] = held[i]
  BY DEF LastBecomes
<1>5. /\ \A i \in 1 .. Len(held) : held[i] \in HeldObjects /\ EndOfObject(held[i]) \in Nat
      /\ bytes_used' \in Nat
  BY <1>1, HeldFact
<1>8. Apart'
  <2>1. ASSUME NEW i \in 1 .. Len(held') PROVE EndOfObject(held'[i]) <= bytes_used'
    <3>1. CASE i = Len(held)
      <4>1. bytes_used' <= bytes_used'
        BY <1>5
      <4> QED BY <3>1, <4>1, <1>4
    <3>2. CASE i # Len(held)
      <4>1. i \in 1 .. Len(held) - 1 /\ i \in 1 .. Len(held)
        BY <3>2, <1>1, <1>4
      <4>2. EndOfObject(held[i]) <= bytes_used /\ EndOfObject(held[i]) \in Nat
        BY <4>1, <1>5 DEF Layout, Apart
      <4>3. held'[i] = held[i]
        BY <4>1, <1>4
      <4> QED BY <4>2, <4>3, <1>1, <1>5
    <3> QED BY <3>1, <3>2
  <2>2. \A j \in 1 .. Len(held') : \A i \in 1 .. j - 1 : EndOfObject(held'[i]) <= held'[j].at
    BY <1>1, <1>3, <1>4 DEF Layout, Apart
  <2> QED BY <2>1, <2>2 DEF Apart, EndOfObject
<1>9. MarksInv'
  <2>1. SUFFICES ASSUME NEW m \in 1 .. Len(marks)
                 PROVE  /\ marks[m].held <= Len(held')
                        /\ marks[m].bytes_used <= bytes_used'
                        /\ \A i \in 1 .. marks[m].held :
                             /\ EndOfObject(held'[i]) <= marks[m].bytes_used
                             /\ i = marks[m].held /\ held'[i].kind = "builder" /\ held'[i].open =>
                                  EndOfObject(held'[i]) = marks[m].bytes_used
                        /\ \A i \in marks[m].held + 1 .. Len(held') :
                             marks[m].bytes_used <= held'[i].at
                        /\ \A k \in 1 .. m - 1 :
                             marks[k].held <= marks[m].held
                               /\ marks[k].bytes_used <= marks[m].bytes_used
    BY DEF MarksInv, EndOfObject
  <2>2. marks[m].held \in Nat /\ marks[m].bytes_used \in Nat
    BY TypeFact
  <2>3. marks[m].held < Len(held)
    <3>1. m \in DOMAIN marks
      BY TypeFact
    <3> QED BY <1>2, <3>1
  <2>4. /\ marks[m].bytes_used <= bytes_used
        /\ \A i \in 1 .. marks[m].held :
             /\ EndOfObject(held[i]) <= marks[m].bytes_used
             /\ i = marks[m].held /\ held[i].kind = "builder" /\ held[i].open =>
                  EndOfObject(held[i]) = marks[m].bytes_used
        /\ \A i \in marks[m].held + 1 .. Len(held) : marks[m].bytes_used <= held[i].at
        /\ \A k \in 1 .. m - 1 :
             marks[k].held <= marks[m].held /\ marks[k].bytes_used <= marks[m].bytes_used
    BY DEF Layout, MarksInv
  <2>5. \A i \in 1 .. marks[m].held : held'[i] = held[i]
    BY <1>1, <1>4, <2>2, <2>3
  <2>6. \A i \in marks[m].held + 1 .. Len(held') : held'[i].at = held[i].at
    BY <1>1, <1>3, <1>4, <2>2
  <2>7. marks[m].held <= Len(held') /\ marks[m].bytes_used <= bytes_used'
    BY <1>1, <1>4, <1>5, <2>2, <2>3, <2>4
  <2>8. \A i \in marks[m].held + 1 .. Len(held') : marks[m].bytes_used <= held'[i].at
    BY <1>4, <2>4, <2>6
  <2> QED BY <2>4, <2>5, <2>7, <2>8
<1>10. GrowingInv'
  <2>1. Last' = o
    BY <1>4 DEF Last
  <2>2. ASSUME NEW i \in 1 .. Len(held'), held'[i].kind = "string"
        PROVE  /\ held'[i].type = Char
               /\ held'[i].open /\ held'[i].count > 0 => EndOfObject(held'[i]) < MaxSize
    <3>1. CASE i = Len(held)
      BY <1>2, <1>3, <1>4, <2>2, <3>1 DEF Layout, GrowingInv
    <3>2. CASE i # Len(held)
      <4>1. i \in 1 .. Len(held) - 1 /\ i \in 1 .. Len(held)
        BY <1>1, <1>4, <3>2
      <4> QED BY <1>4, <2>2, <4>1 DEF Layout, GrowingInv
    <3> QED BY <3>1, <3>2
  <2> QED BY <2>1, <2>2 DEF GrowingInv, EndOfObject
<1>11. NestingCountsBuilders' /\ nesting' \in Nat
  <2>1. IsFiniteSet(OpenBuilders)
    BY <1>1, OpenBuildersFinite
  <2>2. nesting = Cardinality(OpenBuilders)
    BY DEF Layout, NestingCountsBuilders, OpenBuilders
  <2>3. \A i \in 1 .. Len(held) :
          i \in OpenBuilders <=> held[i].kind = "builder" /\ held[i].open
    BY <1>1 DEF OpenBuilders
  <2>4. \A i \in 1 .. Len(held) :
          i \in OpenBuilders' <=> held'[i].kind = "builder" /\ held'[i].open
    BY <1>1, <1>4 DEF OpenBuilders
  <2>5. \A i \in 1 .. Len(held) - 1 : i \in OpenBuilders' <=> i \in OpenBuilders
    BY <1>1, <1>4, <2>3, <2>4
  <2>6. /\ \A i \in OpenBuilders : i \in 1 .. Len(held)
        /\ \A i \in OpenBuilders' : i \in 1 .. Len(held)
    BY <1>1, <1>4 DEF OpenBuilders
  <2>7. CASE kind = "builder" /\ ~o.open
    <3>1. Len(held) \in OpenBuilders /\ Len(held) \notin OpenBuilders'
      BY <1>2, <1>3, <1>4, <2>3, <2>4, <2>7
    <3>2. OpenBuilders' = OpenBuilders \ {Len(held)}
      BY <1>1, <2>5, <2>6, <3>1
    <3>3. Cardinality(OpenBuilders') = Cardinality(OpenBuilders) - 1
      BY <2>1, <3>1, <3>2, FS_RemoveElement
    <3>4. OpenBuilders # {} /\ Cardinality(OpenBuilders) \in Nat
      BY <2>1, <3>1, FS_CardinalityType
    <3>5. nesting # 0
      BY <2>1, <2>2, <3>4, FS_EmptySet
    <3>6. nesting' = nesting - 1
      BY <2>7
    <3> QED BY <1>1, <2>2, <3>3, <3>5, <3>6 DEF NestingCountsBuilders, OpenBuilders
  <2>8. CASE ~(kind = "builder" /\ ~o.open)
    <3>1. Len(held) \in OpenBuilders <=> Len(held) \in OpenBuilders'
      BY <1>2, <1>3, <1>4, <2>3, <2>4, <2>8
    <3>2. \A i \in 1 .. Len(held) : i \in OpenBuilders' <=> i \in OpenBuilders
      BY <1>1, <2>5, <3>1
    <3>3. OpenBuilders' = OpenBuilders
      BY <2>6, <3>2
    <3>4. nesting' = nesting
      BY <2>8
    <3> QED BY <1>1, <2>2, <3>3, <3>4 DEF NestingCountsBuilders, OpenBuilders
  <2> QED BY <2>7, <2>8
<1>12. ArraysAreAligned'
  <2>1. \A i \in 1 .. Len(held) :
          /\ held'[i].kind = held[i].kind /\ held'[i].at = held[i].at
          /\ held'[i].type = held[i].type
    BY <1>1, <1>2, <1>3, <1>4
  <2> QED BY <1>1, <1>4, <2>1 DEF Layout, ArraysAreAligned
<1> QED BY <1>4, <1>8, <1>9, <1>10, <1>11, <1>12 DEF Layout
------------------------------------------------------------------------------
(* The bytes.                                                              *)

Elementary == Values \cup {Terminator, Undefined}

LEMMA StoredFact ==
  ASSUME memory \in Memories, MaxSize \in Nat, NEW at \in Nat, NEW size \in Nat \ {0},
         NEW values \in Seq(Elementary)
  PROVE  /\ Stored(at, size, values) \in Memories
         /\ \A o \in 0 .. MaxSize - 1 :
              o < at \/ o >= at + size * Len(values) => Stored(at, size, values)[o] = memory[o]
         /\ \A e \in 1 .. Len(values), k \in 0 .. size - 1 :
              at + (e - 1) * size + k \in 0 .. MaxSize - 1 =>
                Stored(at, size, values)[at + (e - 1) * size + k] = <<values[e], k>>
<1> DEFINE new == Stored(at, size, values)
           written == at .. at + size * Len(values) - 1
           byte(o) == <<values[(o - at) \div size + 1], (o - at) % size>>
<1>0. Len(values) \in Nat /\ size * Len(values) \in Nat
  BY Products
<1>1. DOMAIN memory = 0 .. MaxSize - 1
  BY DEF Memories
<1>2. new = [o \in 0 .. MaxSize - 1 |-> IF o \in written THEN byte(o) ELSE memory[o]]
  BY <1>1 DEF Stored
<1>3. \A o \in 0 .. MaxSize - 1 : new[o] = IF o \in written THEN byte(o) ELSE memory[o]
  BY <1>2
<1>4. ASSUME NEW o \in 0 .. MaxSize - 1, o \in written
      PROVE  byte(o) \in Bytes
  <2>1. o - at \in 0 .. size * Len(values) - 1
    BY <1>0, <1>4
  <2>2. (o - at) \div size \in 0 .. Len(values) - 1 /\ (o - at) % size \in 0 .. size - 1
    BY <1>0, <2>1, QuotientBelow
  <2>3. (o - at) \div size + 1 \in 1 .. Len(values) /\ (o - at) % size \in Nat
    BY <1>0, <2>2
  <2>4. values[(o - at) \div size + 1] \in Elementary
    BY <2>3
  <2> QED BY <2>3, <2>4 DEF Bytes, Elementary
<1>5. new \in Memories
  <2>1. \A o \in 0 .. MaxSize - 1 : memory[o] \in Bytes
    BY DEF Memories
  <2>2. \A o \in 0 .. MaxSize - 1 : (IF o \in written THEN byte(o) ELSE memory[o]) \in Bytes
    BY <1>4, <2>1
  <2> HIDE DEF new, byte, written
  <2> QED BY <1>2, <2>2 DEF Memories
<1>6. ASSUME NEW o \in 0 .. MaxSize - 1, o < at \/ o >= at + size * Len(values)
      PROVE  new[o] = memory[o]
  <2>1. o \notin written
    BY <1>0, <1>6
  <2> QED BY <1>3, <2>1
<1>7. ASSUME NEW e \in 1 .. Len(values), NEW k \in 0 .. size - 1,
             at + (e - 1) * size + k \in 0 .. MaxSize - 1
      PROVE  new[at + (e - 1) * size + k] = <<values[e], k>>
  <2> DEFINE o == at + (e - 1) * size + k
  <2>1. (e - 1) * size = size * (e - 1) /\ size * (e - 1) \in Nat
    OBVIOUS
  <2>2. size * (e - 1) + size * 1 = size * ((e - 1) + 1)
    BY Products
  <2>3. size * e <= size * Len(values)
    BY <1>0, Products
  <2>4. size * (e - 1) + k < size * Len(values)
    <3>1. size * (e - 1) + size = size * e
      BY <2>2
    <3>2. size * e \in Nat
      BY Products
    <3> QED BY <1>0, <2>1, <2>3, <3>1, <3>2
  <2>5. o - at = size * (e - 1) + k /\ o \in written
    BY <1>0, <2>1, <2>4
  <2>6. (o - at) \div size = e - 1 /\ (o - at) % size = k
    <3>1. e - 1 \in Nat
      OBVIOUS
    <3>2. (size * (e - 1) + k) \div size = e - 1 /\ (size * (e - 1) + k) % size = k
      BY <3>1, Quotient
    <3> HIDE DEF o
    <3> QED BY <2>5, <3>2
  <2>7. byte(o) = <<values[e], k>>
    BY <2>6
  <2>8. o \in 0 .. MaxSize - 1
    BY <1>7
  <2> HIDE DEF o, byte, new, written
  <2>9. new[o] = <<values[e], k>>
    BY <1>3, <2>5, <2>7, <2>8
  <2> QED BY <2>9 DEF o
<1> QED BY <1>5, <1>6, <1>7

LEMMA ErasedFact ==
  ASSUME memory \in Memories, NEW from \in Nat, NEW to \in Nat
  PROVE  /\ Erased(from, to) \in Memories
         /\ \A o \in 0 .. MaxSize - 1 : o < from => Erased(from, to)[o] = memory[o]
         /\ \A o \in 0 .. MaxSize - 1 : from <= o /\ o < to => Erased(from, to)[o] = Uninit
<1>1. DOMAIN memory = 0 .. MaxSize - 1 /\ \A o \in 0 .. MaxSize - 1 : memory[o] \in Bytes
  BY DEF Memories
<1>2. Erased(from, to) =
        [o \in 0 .. MaxSize - 1 |-> IF o \in from .. to - 1 THEN Uninit ELSE memory[o]]
  BY <1>1 DEF Erased
<1>3. Uninit \in Bytes
  BY DEF Uninit, Bytes
<1>4. Erased(from, to) \in Memories
  BY <1>1, <1>2, <1>3 DEF Memories
<1>5. ASSUME NEW o \in 0 .. MaxSize - 1
      PROVE  /\ o < from => Erased(from, to)[o] = memory[o]
             /\ from <= o /\ o < to => Erased(from, to)[o] = Uninit
  BY <1>2
<1> QED BY <1>4, <1>5
------------------------------------------------------------------------------
(* The objects that the bytes stand for.                                   *)

\* Where element e of an object is.
ElementAt(o, e) == o.at + (e - 1) * o.type.size

LEMMA ElementPlace ==
  ASSUME NEW o \in HeldObjects, NEW e \in 1 .. o.count
  PROVE  /\ ElementAt(o, e) \in Nat /\ o.at <= ElementAt(o, e)
         /\ ElementAt(o, e) + o.type.size <= EndOfObject(o)
         /\ \A d \in 1 .. e - 1 : ElementAt(o, d) + o.type.size <= ElementAt(o, e)
<1> DEFINE s == o.type.size
<1>1. s \in Nat \ {0} /\ o.at \in Nat /\ o.count \in Nat /\ EndOfObject(o) = o.at + s * o.count
  BY HeldFact DEF EndOfObject
<1>2. \A n \in Nat : n * s = s * n /\ s * n \in Nat /\ s * (n + 1) = s * n + s
  <2> HIDE DEF s
  <2> QED BY <1>1
<1>3. \A m, n \in Nat : m <= n => s * m <= s * n
  <2> HIDE DEF s
  <2> QED BY <1>1, Products
<1>4. \A d \in 1 .. o.count : /\ ElementAt(o, d) = o.at + s * (d - 1)
                              /\ ElementAt(o, d) + s = o.at + s * d
                              /\ s * (d - 1) \in Nat
  <2>1. SUFFICES ASSUME NEW d \in 1 .. o.count
                 PROVE  /\ ElementAt(o, d) = o.at + s * (d - 1)
                        /\ ElementAt(o, d) + s = o.at + s * d
                        /\ s * (d - 1) \in Nat
    OBVIOUS
  <2>2. d - 1 \in Nat /\ (d - 1) + 1 = d
    BY <1>1
  <2>3. (d - 1) * s = s * (d - 1) /\ s * (d - 1) \in Nat /\ s * d = s * (d - 1) + s
    BY <1>2, <2>2
  <2> HIDE DEF s
  <2>4. ElementAt(o, d) = o.at + (d - 1) * s
    BY DEF ElementAt, s
  <2> QED BY <1>1, <2>3, <2>4
<1>5. s * e <= s * o.count /\ \A d \in 1 .. e - 1 : s * d <= s * (e - 1)
  <2>1. \A d \in 1 .. e - 1 : d \in Nat /\ e - 1 \in Nat /\ d <= e - 1
    BY <1>1
  <2>2. e \in Nat /\ e <= o.count
    BY <1>1
  <2> QED BY <1>1, <1>3, <2>1, <2>2
<1>6. /\ s * e \in Nat /\ s * o.count \in Nat
      /\ \A d \in 1 .. e - 1 : d \in 1 .. o.count /\ s * d \in Nat
  <2>1. e \in Nat /\ o.count \in Nat /\ e <= o.count
    BY <1>1
  <2>2. \A d \in 1 .. e - 1 : d \in 1 .. o.count /\ d \in Nat
    BY <2>1
  <2> HIDE DEF s
  <2> QED BY <1>2, <2>1, <2>2
<1> HIDE DEF s
<1> QED BY <1>1, <1>4, <1>5, <1>6 DEF s

ReadIn(bytes, at, size) ==
  LET v == bytes[at][1]
  IN  IF \A k \in 0 .. size - 1 : bytes[at + k] = <<v, k>> THEN v ELSE Undefined

ElementsIn(bytes, o) == [e \in 1 .. o.count |-> ReadIn(bytes, ElementAt(o, e), o.type.size)]

Written == Values \cup {Terminator}

\* A step of Arena is a step of ObjectStack, or none.
RefinedStep == Objects!Step(Abstraction, Abstraction') \/ Abstraction' = Abstraction

LEMMA ElementsFact ==
  ASSUME NEW bytes \in Memories, NEW o \in HeldObjects, MaxSize \in Nat,
         EndOfObject(o) <= MaxSize
  PROVE  /\ ElementsIn(bytes, o) \in Seq(Elementary) /\ Len(ElementsIn(bytes, o)) = o.count
         /\ DOMAIN ElementsIn(bytes, o) = 1 .. o.count
         /\ \A e \in 1 .. o.count :
              ElementsIn(bytes, o)[e] = ReadIn(bytes, ElementAt(o, e), o.type.size)
<1>1. o.count \in Nat /\ o.type.size \in Nat \ {0} /\ EndOfObject(o) \in Nat
  BY HeldFact
<1>2. \A e \in 1 .. o.count : ReadIn(bytes, ElementAt(o, e), o.type.size) \in Elementary
  <2>1. SUFFICES ASSUME NEW e \in 1 .. o.count
                 PROVE  ReadIn(bytes, ElementAt(o, e), o.type.size) \in Elementary
    OBVIOUS
  <2>2. ElementAt(o, e) \in Nat /\ ElementAt(o, e) + o.type.size <= EndOfObject(o)
    BY ElementPlace
  <2>3. ElementAt(o, e) \in 0 .. MaxSize - 1
    BY <1>1, <2>2
  <2>4. bytes[ElementAt(o, e)][1] \in Elementary
    BY <2>3 DEF Memories, Bytes, Elementary
  <2> QED BY <2>4 DEF ReadIn, Elementary
<1>3. ElementsIn(bytes, o) = [e \in 1 .. o.count |-> ReadIn(bytes, ElementAt(o, e), o.type.size)]
  BY DEF ElementsIn
<1>4. ElementsIn(bytes, o) \in [1 .. o.count -> Elementary]
  BY <1>2, <1>3
<1> QED BY <1>1, <1>3, <1>4

ObjectsIn(bytes, objects) == [i \in DOMAIN objects |-> ElementsIn(bytes, objects[i])]

LEMMA ObjectsInFact ==
  ASSUME NEW bytes \in Memories, NEW objects \in Seq(HeldObjects), MaxSize \in Nat,
         \A i \in 1 .. Len(objects) : EndOfObject(objects[i]) <= MaxSize
  PROVE  LET mapped == ObjectsIn(bytes, objects)
         IN  /\ mapped \in Seq(Seq(Elementary)) /\ Len(mapped) = Len(objects)
             /\ DOMAIN mapped = 1 .. Len(objects)
             /\ \A i \in 1 .. Len(objects) :
                  /\ mapped[i] = ElementsIn(bytes, objects[i])
                  /\ mapped[i] \in Seq(Elementary)
                  /\ Len(mapped[i]) = objects[i].count
                  /\ DOMAIN mapped[i] = 1 .. objects[i].count
                  /\ \A e \in 1 .. objects[i].count :
                       mapped[i][e] =
                         ReadIn(bytes, ElementAt(objects[i], e), objects[i].type.size)
<1> DEFINE mapped == ObjectsIn(bytes, objects)
<1>1. mapped = [i \in 1 .. Len(objects) |-> ElementsIn(bytes, objects[i])]
  BY DEF ObjectsIn
<1>2. \A i \in 1 .. Len(objects) : objects[i] \in HeldObjects
  OBVIOUS
<1>3. \A i \in 1 .. Len(objects) : ElementsIn(bytes, objects[i]) \in Seq(Elementary)
  BY <1>2, ElementsFact
<1>4. mapped \in [1 .. Len(objects) -> Seq(Elementary)]
  BY <1>1, <1>3
<1>5. \A i \in 1 .. Len(objects) : mapped[i] = ElementsIn(bytes, objects[i])
  BY <1>1
<1> HIDE DEF mapped
<1>6. mapped \in Seq(Seq(Elementary)) /\ Len(mapped) = Len(objects)
      /\ DOMAIN mapped = 1 .. Len(objects)
  BY <1>4
<1> QED BY <1>2, <1>5, <1>6, ElementsFact DEF mapped

LEMMA AbstractionIs ==
  Abstraction = ObjectsIn(memory, held) /\ Abstraction' = ObjectsIn(memory', held')
BY DEF Abstraction, Elements, Read, ObjectsIn, ElementsIn, ReadIn, ElementAt

LEMMA AbstractionFact ==
  ASSUME IInv, IInv'
  PROVE  /\ Abstraction \in Seq(Seq(Elementary)) /\ Len(Abstraction) = Len(held)
         /\ DOMAIN Abstraction = 1 .. Len(held)
         /\ \A i \in 1 .. Len(held) :
              /\ Abstraction[i] \in Seq(Elementary)
              /\ Len(Abstraction[i]) = held[i].count
              /\ DOMAIN Abstraction[i] = 1 .. held[i].count
              /\ \A e \in 1 .. held[i].count :
                   Abstraction[i][e] = ReadIn(memory, ElementAt(held[i], e), held[i].type.size)
         /\ Abstraction' \in Seq(Seq(Elementary)) /\ Len(Abstraction') = Len(held')
         /\ DOMAIN Abstraction' = 1 .. Len(held')
         /\ \A i \in 1 .. Len(held') :
              /\ Abstraction'[i] \in Seq(Elementary)
              /\ Len(Abstraction'[i]) = held'[i].count
              /\ DOMAIN Abstraction'[i] = 1 .. held'[i].count
              /\ \A e \in 1 .. held'[i].count :
                   Abstraction'[i][e] =
                     ReadIn(memory', ElementAt(held'[i], e), held'[i].type.size)
<1>1. /\ memory \in Memories /\ held \in Seq(HeldObjects) /\ MaxSize \in Nat
      /\ memory' \in Memories /\ held' \in Seq(HeldObjects)
      /\ bytes_used \in Nat /\ bytes_used' \in Nat
  BY SizesAssumption DEF IInv, TypeOK, HeldObjects, Memories, Bytes
<1>2. /\ \A i \in 1 .. Len(held) : EndOfObject(held[i]) <= bytes_used
      /\ \A i \in 1 .. Len(held') : EndOfObject(held'[i]) <= bytes_used'
      /\ bytes_used <= MaxSize /\ bytes_used' <= MaxSize
  BY DEF IInv, Layout, Apart, EndOfObject
<1>3. /\ \A i \in 1 .. Len(held) : EndOfObject(held[i]) <= MaxSize
      /\ \A i \in 1 .. Len(held') : EndOfObject(held'[i]) <= MaxSize
  <2>1. \A i \in 1 .. Len(held) : held[i] \in HeldObjects /\ EndOfObject(held[i]) \in Nat
    BY <1>1, HeldFact
  <2>2. \A i \in 1 .. Len(held') : held'[i] \in HeldObjects /\ EndOfObject(held'[i]) \in Nat
    BY <1>1, HeldFact
  <2> QED BY <1>1, <1>2, <2>1, <2>2
<1> QED BY <1>1, <1>3, AbstractionIs, ObjectsInFact

\* Elements that are read from the same bytes are the same.
LEMMA SameRead ==
  ASSUME NEW old, NEW new, NEW at \in Nat, NEW size \in Nat \ {0},
         \A b \in at .. at + size - 1 : new[b] = old[b]
  PROVE  ReadIn(new, at, size) = ReadIn(old, at, size)
<1>1. \A k \in 0 .. size - 1 : at + k \in at .. at + size - 1
  OBVIOUS
<1>2. \A k \in 0 .. size - 1 : new[at + k] = old[at + k]
  BY <1>1
<1>3. at \in at .. at + size - 1
  OBVIOUS
<1>4. new[at] = old[at]
  BY <1>3
<1> QED BY <1>2, <1>4 DEF ReadIn

LEMMA ReadStays ==
  ASSUME NEW place \in Nat, NEW size \in Nat \ {0},
         \A b \in place .. place + size - 1 : memory'[b] = memory[b]
  PROVE  ReadIn(memory', place, size) = ReadIn(memory, place, size)
<1>1. PICK old, new : old = memory /\ new = memory'
  OBVIOUS
<1>2. \A b \in place .. place + size - 1 : new[b] = old[b]
  BY <1>1
<1>3. ReadIn(new, place, size) = ReadIn(old, place, size)
  BY <1>2, SameRead
<1> QED BY <1>1, <1>3

LEMMA UninitRead ==
  ASSUME NEW bytes, NEW at \in Nat, NEW size \in Nat \ {0}, bytes[at] = Uninit
  PROVE  ReadIn(bytes, at, size) = Undefined
<1>1. bytes[at][1] = Undefined
  BY DEF Uninit
<1> QED BY <1>1 DEF ReadIn

\* An object none of whose bytes change keeps its elements.
LEMMA SameElements ==
  ASSUME NEW old, NEW new, NEW o \in HeldObjects,
         \A b \in o.at .. EndOfObject(o) - 1 : new[b] = old[b]
  PROVE  \A e \in 1 .. o.count :
           ReadIn(new, ElementAt(o, e), o.type.size) = ReadIn(old, ElementAt(o, e), o.type.size)
<1>1. SUFFICES ASSUME NEW e \in 1 .. o.count
               PROVE  ReadIn(new, ElementAt(o, e), o.type.size) =
                        ReadIn(old, ElementAt(o, e), o.type.size)
  OBVIOUS
<1>2. /\ ElementAt(o, e) \in Nat /\ o.at <= ElementAt(o, e)
      /\ ElementAt(o, e) + o.type.size <= EndOfObject(o)
      /\ o.type.size \in Nat \ {0} /\ o.at \in Nat /\ EndOfObject(o) \in Nat
  BY ElementPlace, HeldFact
<1>3. \A b \in ElementAt(o, e) .. ElementAt(o, e) + o.type.size - 1 :
        b \in o.at .. EndOfObject(o) - 1
  BY <1>2
<1>4. \A b \in ElementAt(o, e) .. ElementAt(o, e) + o.type.size - 1 : new[b] = old[b]
  BY <1>3
<1>5. \A at \in Nat, size \in Nat \ {0} :
        (\A b \in at .. at + size - 1 : new[b] = old[b]) =>
          ReadIn(new, at, size) = ReadIn(old, at, size)
  BY SameRead
<1> QED BY <1>2, <1>4, <1>5

LEMMA EqualSequences ==
  ASSUME NEW S, NEW s \in Seq(S), NEW t \in Seq(S), Len(s) = Len(t),
         \A e \in 1 .. Len(s) : s[e] = t[e]
  PROVE  s = t
OBVIOUS

LEMMA PrefixFact ==
  ASSUME NEW S, NEW s \in Seq(S), NEW t \in Seq(S), Len(s) <= Len(t),
         \A e \in 1 .. Len(s) : t[e] = s[e]
  PROVE  Objects!IsPrefix(s, t)
<1>1. SubSeq(t, 1, Len(s)) \in Seq(S) /\ Len(SubSeq(t, 1, Len(s))) = Len(s)
  OBVIOUS
<1>2. \A e \in 1 .. Len(s) : SubSeq(t, 1, Len(s))[e] = s[e]
  OBVIOUS
<1>3. SubSeq(t, 1, Len(s)) = s
  BY <1>1, <1>2, EqualSequences
<1> QED BY <1>3 DEF Objects!IsPrefix

\* The objects that are neither written nor cleared keep their elements.
LEMMA KeptFact ==
  ASSUME IInv, IInv', NEW i \in 1 .. Len(held), i \in 1 .. Len(held'),
         held'[i].at = held[i].at, held'[i].type = held[i].type, held'[i].count = held[i].count,
         \A b \in held[i].at .. EndOfObject(held[i]) - 1 : memory'[b] = memory[b]
  PROVE  Abstraction'[i] = Abstraction[i]
<1>1. held[i] \in HeldObjects
  BY TypeFact DEF IInv
<1>2. \A e \in 1 .. held[i].count : ElementAt(held'[i], e) = ElementAt(held[i], e)
  BY DEF ElementAt
<1>3. \A e \in 1 .. held[i].count :
        ReadIn(memory', ElementAt(held[i], e), held[i].type.size) =
          ReadIn(memory, ElementAt(held[i], e), held[i].type.size)
  BY <1>1, SameElements
<1>4. \A e \in 1 .. held[i].count : Abstraction'[i][e] = Abstraction[i][e]
  BY <1>2, <1>3, AbstractionFact
<1>5. /\ Abstraction[i] \in Seq(Elementary) /\ Len(Abstraction[i]) = held[i].count
      /\ Abstraction'[i] \in Seq(Elementary) /\ Len(Abstraction'[i]) = held[i].count
  BY AbstractionFact
<1> QED BY <1>4, <1>5, EqualSequences

\* What is stored is read back, and what is erased is not.
LEMMA StoredElements ==
  ASSUME memory \in Memories, MaxSize \in Nat, NEW at \in Nat, NEW size \in Nat \ {0},
         NEW values \in Seq(Elementary), at + size * Len(values) <= MaxSize
  PROVE  \A e \in 1 .. Len(values) :
           ReadIn(Stored(at, size, values), at + (e - 1) * size, size) = values[e]
<1>1. SUFFICES ASSUME NEW e \in 1 .. Len(values)
               PROVE  ReadIn(Stored(at, size, values), at + (e - 1) * size, size) = values[e]
  OBVIOUS
<1>2. (e - 1) * size = size * (e - 1) /\ size * (e - 1) \in Nat /\ size * Len(values) \in Nat
  <2>1. e - 1 \in Nat /\ Len(values) \in Nat
    OBVIOUS
  <2> QED BY <2>1, Products
<1>3. size * (e - 1) + size = size * e /\ size * e <= size * Len(values) /\ size * e \in Nat
  <2>1. e - 1 \in Nat /\ e \in Nat /\ Len(values) \in Nat /\ (e - 1) + 1 = e /\ e <= Len(values)
    OBVIOUS
  <2>2. size * ((e - 1) + 1) = size * (e - 1) + size * 1 /\ size * 1 = size
    BY <2>1, Products
  <2> QED BY <2>1, <2>2, Products
<1> DEFINE place == at + (e - 1) * size
<1>4. place \in Nat /\ place + size <= MaxSize
  BY <1>2, <1>3
<1>5. \A k \in 0 .. size - 1 : place + k \in 0 .. MaxSize - 1
  <2> HIDE DEF place
  <2> QED BY <1>4
<1>6. \A k \in 0 .. size - 1 : Stored(at, size, values)[place + k] = <<values[e], k>>
  BY <1>5, StoredFact
<1> HIDE DEF place
<1>7. ReadIn(Stored(at, size, values), place, size) = values[e]
  <2> DEFINE new == Stored(at, size, values)
  <2>1. 0 \in 0 .. size - 1 /\ place + 0 = place
    BY <1>4
  <2>2. \A k \in 0 .. size - 1 : new[place + k] = <<values[e], k>>
    BY <1>6
  <2> HIDE DEF new
  <2>3. new[place] = <<values[e], 0>>
    BY <2>1, <2>2
  <2>4. new[place][1] = values[e]
    BY <2>3
  <2> QED BY <2>2, <2>4 DEF ReadIn, new
<1> QED BY <1>7 DEF place

LEMMA NothingStored ==
  ASSUME memory \in Memories, NEW at \in Nat, NEW size \in Nat, NEW none, Len(none) = 0
  PROVE  Stored(at, size, none) = memory
<1>1. size * Len(none) = 0
  OBVIOUS
<1>2. at .. at + size * Len(none) - 1 = {}
  BY <1>1
<1>3. Stored(at, size, none) = [o \in DOMAIN memory |-> memory[o]]
  BY <1>2 DEF Stored
<1> QED BY <1>3 DEF Memories

LEMMA StutterRefined == UNCHANGED <<memory, held>> => RefinedStep
BY DEF RefinedStep, Abstraction, Elements, Read

\* A new object above the others, whose bytes do not change.
LEMMA AddRefined ==
  ASSUME IInv, IInv', NEW o \in HeldObjects, held' = Append(held, o),
         NEW contents \in Seq(Written) \cup Seq({Undefined}), Len(contents) = o.count,
         \A b \in 0 .. MaxSize - 1 : b < bytes_used => memory'[b] = memory[b],
         \A e \in 1 .. o.count : ReadIn(memory', ElementAt(o, e), o.type.size) = contents[e]
  PROVE  RefinedStep
<1>1. /\ held \in Seq(HeldObjects) /\ Len(held) \in Nat /\ bytes_used \in Nat
      /\ MaxSize \in Nat /\ bytes_used <= MaxSize
  BY TypeFact DEF IInv, Layout, Apart
<1>2. /\ Len(held') = Len(held) + 1 /\ held'[Len(held) + 1] = o
      /\ \A i \in 1 .. Len(held) : held'[i] = held[i]
  BY <1>1
<1>3. \A i \in 1 .. Len(held) : Abstraction'[i] = Abstraction[i]
  <2>1. SUFFICES ASSUME NEW i \in 1 .. Len(held)
                 PROVE  Abstraction'[i] = Abstraction[i]
    OBVIOUS
  <2>2. held[i] \in HeldObjects /\ EndOfObject(held[i]) <= bytes_used
    BY <1>1 DEF IInv, Layout, Apart
  <2>3. held[i].at \in Nat /\ EndOfObject(held[i]) \in Nat
    BY <2>2, HeldFact
  <2>4. \A b \in held[i].at .. EndOfObject(held[i]) - 1 : memory'[b] = memory[b]
    BY <1>1, <2>2, <2>3
  <2>5. i \in 1 .. Len(held')
    BY <1>1, <1>2
  <2> QED BY <1>2, <2>4, <2>5, KeptFact
<1>4. Abstraction'[Len(held) + 1] = contents
  <2>1. Len(held) + 1 \in 1 .. Len(held') /\ o.count \in Nat
    BY <1>1, <1>2, HeldFact
  <2>2. /\ Abstraction'[Len(held) + 1] \in Seq(Elementary)
        /\ Len(Abstraction'[Len(held) + 1]) = o.count
        /\ \A e \in 1 .. o.count : Abstraction'[Len(held) + 1][e] = contents[e]
    BY <1>2, <2>1, AbstractionFact
  <2>3. contents \in Seq(Elementary)
    BY DEF Written, Elementary
  <2> QED BY <2>2, <2>3, EqualSequences
<1>5. Objects!IsPrefix(Abstraction, Abstraction')
  <2>1. /\ Abstraction \in Seq(Seq(Elementary)) /\ Abstraction' \in Seq(Seq(Elementary))
        /\ Len(Abstraction) = Len(held) /\ Len(Abstraction') = Len(held) + 1
    BY <1>2, AbstractionFact
  <2>2. \A s, t \in Seq(Seq(Elementary)) :
          Len(s) <= Len(t) /\ (\A e \in 1 .. Len(s) : t[e] = s[e]) => Objects!IsPrefix(s, t)
    BY PrefixFact
  <2> QED BY <1>1, <1>3, <2>1, <2>2
<1>6. Len(Abstraction) = Len(held) /\ Len(Abstraction') = Len(held) + 1
  BY <1>2, AbstractionFact
<1>7. Objects!Create(Abstraction, Abstraction')
  BY <1>4, <1>5, <1>6 DEF Objects!Create, Written
<1> QED BY <1>7 DEF RefinedStep, Objects!Step
------------------------------------------------------------------------------
(* The steps.                                                              *)

LEMMA AbortFact ==
  ASSUME IInv, NEW reason \in {"assertion", "out_of_memory"}, Abort(reason)
  PROVE  IInv' /\ RefinedStep
<1>1. TypeOK'
  BY DEF IInv, TypeOK, Abort
<1>2. Layout'
  BY DEF IInv, Layout, Apart, MarksInv, GrowingInv, NestingCountsBuilders, ArraysAreAligned,
     EndOfObject, Last, Abort
<1>3. RefinedStep
  BY StutterRefined DEF Abort
<1> QED BY <1>1, <1>2, <1>3 DEF IInv

\* The types of what does not follow from the layout.
LEMMA TypeStep ==
  ASSUME TypeOK, UNCHANGED <<top, status>>, bytes_used' \in Nat, nesting' \in Nat,
         memory' \in Memories, held' \in Seq(HeldObjects), marks' \in Seq(Marks)
  PROVE  TypeOK'
BY DEF TypeOK, Memories, Bytes, HeldObjects, Marks

LEMMA AlignedFact ==
  ASSUME TypeOK, NEW type \in Types, NEW alignment \in Nat \ {0},
         alignment = type.size \/ type.size = 1
  PROVE  /\ Aligned(alignment) \in Nat /\ bytes_used <= Aligned(alignment)
         /\ (top + Aligned(alignment)) % type.size = 0
<1> DEFINE a == top + bytes_used
<1>1. a \in Nat /\ bytes_used \in Nat /\ top \in Nat
  BY TypeFact
<1>2. a % alignment \in 0 .. alignment - 1
  BY <1>1, PaddedIsAligned
<1>3. Aligned(alignment) = bytes_used + alignment - (a % alignment)
  BY DEF Aligned
<1>4. Aligned(alignment) \in Nat /\ bytes_used <= Aligned(alignment)
  <2> HIDE DEF a
  <2> QED BY <1>1, <1>2, <1>3
<1>5. CASE alignment = type.size
  <2>1. top + Aligned(alignment) = a + alignment - (a % alignment)
    BY <1>1, <1>2, <1>3
  <2>2. (a + alignment - (a % alignment)) % alignment = 0
    BY <1>1, PaddedIsAligned
  <2> QED BY <1>4, <1>5, <2>1, <2>2
<1>6. CASE type.size = 1
  <2>1. top + Aligned(alignment) \in Nat
    BY <1>1, <1>4
  <2>2. \A n \in Nat : n % 1 = 0
    OBVIOUS
  <2> QED BY <1>4, <1>6, <2>1, <2>2
<1> QED BY <1>5, <1>6

\* What is left of an allocation that is neither refused nor out of memory.
Allocated(type, at, contents) ==
  /\ bytes_used' = at + type.size * Len(contents)
  /\ bytes_used' <= MaxSize
  /\ held' = Append(held, Object("array", at, type, Len(contents)))
  /\ UNCHANGED <<top, nesting, marks, status>>
  /\ memory' = IF contents # <<>> /\ contents[1] = Undefined
               THEN Erased(bytes_used, bytes_used')
               ELSE Stored(at, type.size, contents)

LEMMA AllocatedFact ==
  ASSUME IInv, NEW type \in Types, NEW at \in Nat, NEW contents \in Seq(Elementary),
         bytes_used <= at, (top + at) % type.size = 0, Allocated(type, at, contents)
  PROVE  IInv' /\ Object("array", at, type, Len(contents)) \in HeldObjects
<1> DEFINE o == Object("array", at, type, Len(contents))
<1>1. /\ bytes_used \in Nat /\ nesting \in Nat /\ marks \in Seq(Marks) /\ MaxSize \in Nat
      /\ memory \in Memories
  BY TypeFact DEF IInv
<1>2. o \in HeldObjects
  BY DEF Object, HeldObjects
<1>3. EndOfObject(o) = bytes_used'
  BY DEF EndOfObject, Object, Allocated
<1>4. bytes_used' \in Nat
  BY <1>2, <1>3, HeldFact
<1>5. o.kind = "array" /\ o.at = at /\ o.type = type
  BY DEF Object
<1>6. /\ held' = Append(held, o) /\ bytes_used' <= MaxSize
      /\ UNCHANGED <<top, nesting, marks, status>>
  BY DEF Allocated
<1>7. Layout' /\ held' \in Seq(HeldObjects)
  <2> HIDE DEF o
  <2> QED BY <1>2, <1>3, <1>4, <1>5, <1>6, AddFact DEF IInv
<1>8. memory' \in Memories
  BY <1>1, <1>4, SizeFact, StoredFact, ErasedFact DEF Allocated
<1>9. TypeOK'
  BY <1>1, <1>4, <1>6, <1>7, <1>8, TypeStep DEF IInv
<1> QED BY <1>2, <1>7, <1>9 DEF IInv

\* Either all of what is allocated is written, or none of it.
LEMMA AllocatedRefined ==
  ASSUME IInv, IInv', NEW type \in Types, NEW at \in Nat, bytes_used <= at,
         NEW contents \in Seq(Written) \cup Seq({Undefined}), Allocated(type, at, contents)
  PROVE  RefinedStep
<1> DEFINE o == Object("array", at, type, Len(contents))
<1>1. /\ bytes_used \in Nat /\ MaxSize \in Nat /\ memory \in Memories /\ Len(contents) \in Nat
      /\ type.size \in Nat \ {0} /\ contents \in Seq(Elementary)
  BY TypeFact, SizeFact DEF IInv, Written, Elementary
<1>2. o \in HeldObjects /\ o.at = at /\ o.type = type /\ o.count = Len(contents)
  BY DEF Object, HeldObjects
<1>3. held' = Append(held, o) /\ bytes_used' <= MaxSize
  BY DEF Allocated
<1>4. EndOfObject(o) = bytes_used' /\ bytes_used' \in Nat
  <2>1. EndOfObject(o) = bytes_used'
    BY <1>2 DEF EndOfObject, Allocated
  <2> QED BY <1>2, <2>1, HeldFact
<1> HIDE DEF o
<1>5. CASE contents # <<>> /\ contents[1] = Undefined
  <2>1. memory' = Erased(bytes_used, bytes_used')
    BY <1>5 DEF Allocated
  <2>2. \A b \in 0 .. MaxSize - 1 : /\ b < bytes_used => memory'[b] = memory[b]
                                    /\ bytes_used <= b /\ b < bytes_used' => memory'[b] = Uninit
    BY <1>1, <1>4, <2>1, ErasedFact
  <2>3. contents \in Seq({Undefined})
    <3>1. CASE contents \in Seq(Written)
      <4>1. contents[1] \in Written
        BY <1>1, <1>5, <3>1
      <4> QED BY <1>5, <4>1, ValuesAssumption DEF Written
    <3> QED BY <3>1
  <2>4. ASSUME NEW e \in 1 .. o.count
        PROVE  ReadIn(memory', ElementAt(o, e), o.type.size) = contents[e]
    <3>1. contents[e] = Undefined
      BY <1>2, <2>3
    <3>2. /\ ElementAt(o, e) \in Nat /\ at <= ElementAt(o, e)
          /\ ElementAt(o, e) + type.size <= bytes_used'
      BY <1>2, <1>4, ElementPlace
    <3>3. /\ ElementAt(o, e) \in 0 .. MaxSize - 1
          /\ bytes_used <= ElementAt(o, e) /\ ElementAt(o, e) < bytes_used'
      BY <1>1, <1>3, <1>4, <3>2
    <3>4. memory'[ElementAt(o, e)] = Uninit
      BY <2>2, <3>3
    <3> QED BY <1>1, <1>2, <3>1, <3>2, <3>4, UninitRead
  <2> QED BY <1>2, <1>3, <2>2, <2>4, AddRefined
<1>6. CASE ~(contents # <<>> /\ contents[1] = Undefined)
  <2>1. memory' = Stored(at, type.size, contents)
    BY <1>6 DEF Allocated
  <2>2. \A b \in 0 .. MaxSize - 1 : b < bytes_used => memory'[b] = memory[b]
    BY <1>1, <2>1, StoredFact
  <2>3. \A e \in 1 .. Len(contents) :
          ReadIn(memory', at + (e - 1) * type.size, type.size) = contents[e]
    <3>1. at + type.size * Len(contents) <= MaxSize
      BY DEF Allocated
    <3>2. \A e \in 1 .. Len(contents) :
            ReadIn(Stored(at, type.size, contents), at + (e - 1) * type.size, type.size) =
              contents[e]
      BY <1>1, <3>1, StoredElements
    <3> QED BY <2>1, <3>2
  <2>4. \A e \in 1 .. o.count : ReadIn(memory', ElementAt(o, e), o.type.size) = contents[e]
    BY <1>2, <2>3 DEF ElementAt
  <2> QED BY <1>2, <1>3, <2>2, <2>4, AddRefined
<1> QED BY <1>5, <1>6

LEMMA ContentsFact ==
  ASSUME NEW values, values = Values \/ values = {Undefined}, NEW contents \in Contents(values)
  PROVE  /\ contents \in Seq(values) /\ contents \in Seq(Elementary)
         /\ contents \in Seq(Written) \cup Seq({Undefined})
         /\ Append(contents, Terminator) \in Seq(Elementary)
<1>1. values \subseteq Elementary
  BY DEF Elementary
<1>2. PICK n \in 0 .. MaxCount : contents \in [1 .. n -> values]
  BY DEF Contents
<1>3. MaxCount \in Nat
  BY SizesAssumption
<1>4. contents \in Seq(values)
  BY <1>2, <1>3
<1>5. contents \in Seq(Elementary)
  BY <1>1, <1>2, <1>3
<1>6. Terminator \in Elementary
  BY DEF Elementary
<1>7. contents \in Seq(Written) \cup Seq({Undefined})
  BY <1>4 DEF Written
<1> QED BY <1>4, <1>5, <1>6, <1>7

\* How an allocation ends.
LEMMA AllocateCases ==
  ASSUME IInv, NEW type \in Types, NEW alignment \in Nat \ {0},
         NEW contents, Allocate(type, alignment, contents)
  PROVE  \/ Abort("assertion") \/ Abort("out_of_memory")
         \/ Allocated(type, Aligned(alignment), contents)
BY DEF Allocate, Allocated, Consume, Fits

LEMMA AllocateStep ==
  ASSUME IInv, NEW type \in Types, NEW alignment \in Nat \ {0},
         alignment = type.size \/ type.size = 1,
         NEW contents \in Seq(Written) \cup Seq({Undefined}), Allocate(type, alignment, contents)
  PROVE  IInv' /\ RefinedStep
<1>1. CASE Abort("assertion") \/ Abort("out_of_memory")
  BY <1>1, AbortFact
<1>2. CASE Allocated(type, Aligned(alignment), contents)
  <2>1. Aligned(alignment) \in Nat /\ bytes_used <= Aligned(alignment)
        /\ (top + Aligned(alignment)) % type.size = 0
    BY AlignedFact DEF IInv
  <2>2. contents \in Seq(Elementary)
    BY DEF Written, Elementary
  <2>3. IInv'
    BY <1>2, <2>1, <2>2, AllocatedFact
  <2> QED BY <1>2, <2>1, <2>3, AllocatedRefined
<1> QED BY <1>1, <1>2, AllocateCases

LEMMA AllocationSteps ==
  ASSUME IInv, AllocateArray \/ CopyArray \/ CreateSubBump
  PROVE  IInv' /\ RefinedStep
<1>1. CASE AllocateArray
  <2>1. PICK t \in Types, contents \in Contents({Undefined}) : Allocate(t, t.size, contents)
    BY <1>1 DEF AllocateArray
  <2> QED BY <2>1, SizeFact, ContentsFact, AllocateStep
<1>2. CASE CopyArray
  <2>1. PICK t \in Types, contents \in Contents(Values) : Allocate(t, t.size, contents)
    BY <1>2 DEF CopyArray
  <2> QED BY <2>1, SizeFact, ContentsFact, AllocateStep
<1>3. CASE CreateSubBump
  <2>1. PICK contents \in Contents({Undefined}) : Allocate(Char, SubBumpAlignment, contents)
    BY <1>3 DEF CreateSubBump
  <2>2. SubBumpAlignment \in Nat \ {0}
    BY SizesAssumption
  <2> QED BY <2>1, <2>2, CharFact, ContentsFact, AllocateStep
<1> QED BY <1>1, <1>2, <1>3

LEMMA PrintfCases ==
  ASSUME IInv, Printf
  PROVE  \/ Abort("assertion") \/ Abort("out_of_memory")
         \/ \E contents \in Contents(Values) :
              /\ Append(contents, Terminator) \in Seq(Written)
              /\ Append(contents, Terminator) \in Seq(Elementary)
              /\ Allocated(Char, bytes_used, Append(contents, Terminator))
<1>1. PICK contents \in Contents(Values) :
        LET text == Append(contents, Terminator)
        IN  /\ CanHold
            /\ IF nesting # 0 THEN Abort("assertion")
               ELSE IF ~Fits(bytes_used + Len(text)) THEN Abort("out_of_memory")
               ELSE /\ Consume(bytes_used + Len(text))
                    /\ memory' = Stored(bytes_used, 1, text)
                    /\ held' = Append(held, Object("array", bytes_used, Char, Len(text)))
                    /\ UNCHANGED nesting
  BY DEF Printf
<1> DEFINE text == Append(contents, Terminator)
<1>2. contents \in Seq(Values) /\ text \in Seq(Elementary)
  BY ContentsFact
<1>3. text \in Seq(Values \cup {Terminator}) /\ text[1] \in Values \cup {Terminator}
      /\ Len(text) \in Nat
  BY <1>2
<1>4. text[1] # Undefined
  BY <1>3, ValuesAssumption
<1>5. Char.size = 1 /\ 1 * Len(text) = Len(text)
  BY <1>3, CharFact
<1> HIDE DEF text
<1>6. CASE /\ Consume(bytes_used + Len(text))
           /\ Fits(bytes_used + Len(text))
           /\ memory' = Stored(bytes_used, 1, text)
           /\ held' = Append(held, Object("array", bytes_used, Char, Len(text)))
           /\ UNCHANGED nesting
  <2>1. Allocated(Char, bytes_used, text)
    BY <1>4, <1>5, <1>6 DEF Allocated, Consume, Fits
  <2> QED BY <1>2, <1>3, <2>1 DEF text, Written
<1> QED BY <1>1, <1>6 DEF text

LEMMA PrintfStep ==
  ASSUME IInv, Printf
  PROVE  IInv' /\ RefinedStep
<1>1. bytes_used \in Nat /\ top \in Nat /\ (top + bytes_used) \in Nat
  BY TypeFact DEF IInv
<1>2. (top + bytes_used) % Char.size = 0
  <2>1. \A n \in Nat : n % 1 = 0
    OBVIOUS
  <2> QED BY <1>1, <2>1, CharFact
<1>3. ASSUME NEW text \in Seq(Written), text \in Seq(Elementary),
             Allocated(Char, bytes_used, text)
      PROVE  IInv' /\ RefinedStep
  <2>1. IInv'
    BY <1>1, <1>2, <1>3, CharFact, AllocatedFact
  <2> QED BY <1>1, <1>3, <2>1, CharFact, AllocatedRefined
<1>4. Abort("assertion") \/ Abort("out_of_memory") => IInv' /\ RefinedStep
  BY AbortFact
<1>5. ASSUME NEW contents \in Contents(Values),
             Append(contents, Terminator) \in Seq(Written),
             Append(contents, Terminator) \in Seq(Elementary),
             Allocated(Char, bytes_used, Append(contents, Terminator))
      PROVE  IInv' /\ RefinedStep
  BY <1>3, <1>5
<1> QED BY <1>4, <1>5, PrintfCases

\* A builder or a string begins.
LEMMA StartFact ==
  ASSUME IInv, NEW kind \in {"builder", "string"}, NEW type \in Types, Start(kind, type),
         kind = "string" => type = Char,
         nesting' = IF kind = "builder" THEN nesting + 1 ELSE nesting
  PROVE  IInv'
<1> DEFINE o == Object(kind, bytes_used, type, 0)
<1>1. /\ bytes_used \in Nat /\ nesting \in Nat /\ marks \in Seq(Marks) /\ MaxSize \in Nat
      /\ memory \in Memories
  BY TypeFact DEF IInv
<1>2. o \in HeldObjects /\ EndOfObject(o) = bytes_used
  <2>1. type.size * 0 = 0
    BY SizeFact
  <2> QED BY <1>1, <2>1 DEF Object, HeldObjects, EndOfObject
<1>3. o.kind = kind /\ o.at = bytes_used /\ o.type = type /\ o.open /\ o.count = 0
  BY DEF Object
<1>4. held' = Append(held, o) /\ UNCHANGED <<top, bytes_used, memory, marks, status>>
  BY DEF Start
<1>5. bytes_used <= MaxSize
  BY DEF IInv, Layout, Apart
<1>6. Layout' /\ held' \in Seq(HeldObjects)
  <2> HIDE DEF o
  <2> QED BY <1>1, <1>2, <1>3, <1>4, <1>5, AddFact DEF IInv
<1>7. TypeOK'
  BY <1>1, <1>4, <1>6, TypeStep DEF IInv
<1> QED BY <1>6, <1>7 DEF IInv

LEMMA StartRefined ==
  ASSUME IInv, IInv', NEW kind \in {"builder", "string"}, NEW type \in Types, Start(kind, type)
  PROVE  RefinedStep
<1> DEFINE o == Object(kind, bytes_used, type, 0)
<1>1. bytes_used \in Nat
  BY TypeFact DEF IInv
<1>2. o \in HeldObjects /\ o.count = 0
  BY <1>1 DEF Object, HeldObjects
<1>3. held' = Append(held, o) /\ memory' = memory
  BY DEF Start
<1>4. PICK none \in Seq(Written) \cup Seq({Undefined}) : Len(none) = 0
  <2>1. <<>> \in Seq(Written) /\ Len(<<>>) = 0
    OBVIOUS
  <2> QED BY <2>1
<1> HIDE DEF o
<1>5. \A b \in 0 .. MaxSize - 1 : b < bytes_used => memory'[b] = memory[b]
  BY <1>3
<1>6. /\ Len(none) = o.count
      /\ \A e \in 1 .. o.count : ReadIn(memory', ElementAt(o, e), o.type.size) = none[e]
  BY <1>2, <1>4
<1> QED BY <1>2, <1>3, <1>4, <1>5, <1>6, AddRefined

LEMMA StartSteps ==
  ASSUME IInv, StartArrayBuilder \/ StringBuilderCreate
  PROVE  IInv' /\ RefinedStep
<1>1. CASE StartArrayBuilder
  <2>1. PICK t \in Types : Start("builder", t)
    BY <1>1 DEF StartArrayBuilder
  <2>2. IInv'
    BY <1>1, <2>1, StartFact DEF StartArrayBuilder
  <2> QED BY <2>1, <2>2, StartRefined
<1>2. CASE StringBuilderCreate
  <2>1. Start("string", Char) /\ UNCHANGED nesting
    BY <1>2 DEF StringBuilderCreate
  <2>2. IInv'
    BY <2>1, CharFact, StartFact
  <2> QED BY <2>1, <2>2, CharFact, StartRefined
<1> QED BY <1>1, <1>2

LEMMA LastFact ==
  ASSUME IInv, NEW kind, Growing(kind)
  PROVE  /\ held # <<>> /\ Len(held) \in 1 .. Len(held) /\ Last = held[Len(held)]
         /\ Last \in HeldObjects /\ Last.kind = kind /\ Last.open /\ status = "running"
         /\ kind = "builder" => EndOfObject(Last) = bytes_used
         /\ kind = "string" => Last.type = Char
         /\ kind = "string" /\ Last.count > 0 => EndOfObject(Last) < MaxSize
<1>1. held # <<>> /\ Last.kind = kind /\ Last.open /\ status = "running"
  BY DEF Growing
<1>2. held \in Seq(HeldObjects) /\ Len(held) \in Nat
  BY TypeFact DEF IInv
<1>3. Len(held) \in 1 .. Len(held) /\ Last = held[Len(held)]
  BY <1>1, <1>2 DEF Last
<1>4. Last \in HeldObjects
  BY <1>2, <1>3
<1> QED BY <1>1, <1>3, <1>4 DEF IInv, Layout, GrowingInv

LEMMA LastBecomesFact ==
  ASSUME held \in Seq(HeldObjects), held # <<>>, NEW o \in HeldObjects,
         held' = [held EXCEPT ![Len(held)] = o]
  PROVE  LastBecomes(o)
BY DEF LastBecomes

\* Grown by some elements, and perhaps closed.
LastGrown(n, open) == [Last EXCEPT !.count = @ + n, !.open = open]

LEMMA LastGrownFact ==
  ASSUME IInv, NEW kind, Growing(kind), NEW n \in Nat, NEW open \in BOOLEAN
  PROVE  LET o == LastGrown(n, open)
         IN  /\ o \in HeldObjects /\ o.kind = kind /\ o.at = Last.at /\ o.type = Last.type
             /\ o.count = Last.count + n /\ o.open = open
             /\ EndOfObject(o) = EndOfObject(Last) + Last.type.size * n
<1> DEFINE o == LastGrown(n, open)
<1>1. Last \in HeldObjects /\ Last.kind = kind
  BY LastFact
<1>2. Last.count \in Nat
  BY <1>1, HeldFact
<1>3. /\ o \in HeldObjects /\ o.kind = kind /\ o.at = Last.at /\ o.type = Last.type
      /\ o.count = Last.count + n /\ o.open = open
  <2>1. Last.count + n \in Nat
    BY <1>2
  <2>2. /\ o.kind = Last.kind /\ o.at = Last.at /\ o.type = Last.type
        /\ o.count = Last.count + n /\ o.open = open
    BY <1>1 DEF HeldObjects, LastGrown
  <2>3. o \in HeldObjects
    BY <1>1, <2>1 DEF HeldObjects, LastGrown
  <2> QED BY <1>1, <2>2, <2>3
<1>4. Last.type.size \in Nat /\ Last.at \in Nat /\ Last.type.size * Last.count \in Nat
  BY <1>1, HeldFact
<1>5. Last.type.size * (Last.count + n) = Last.type.size * Last.count + Last.type.size * n
  BY <1>2, <1>4, Products
<1>6. Last.type.size * n \in Nat
  BY <1>4, Products
<1>7. EndOfObject(o) = EndOfObject(Last) + Last.type.size * n
  <2> HIDE DEF o
  <2> QED BY <1>3, <1>4, <1>5, <1>6 DEF EndOfObject
<1> QED BY <1>3, <1>7

LEMMA ExceptFact ==
  ASSUME IInv, NEW kind, Growing(kind), NEW n \in Nat
  PROVE  /\ [held EXCEPT ![Len(held)].count = @ + n] =
              [held EXCEPT ![Len(held)] = LastGrown(n, TRUE)]
         /\ [held EXCEPT ![Len(held)].open = FALSE] =
              [held EXCEPT ![Len(held)] = LastGrown(0, FALSE)]
         /\ [held EXCEPT ![Len(held)].open = FALSE, ![Len(held)].count = @ + n] =
              [held EXCEPT ![Len(held)] = LastGrown(n, FALSE)]
<1>1. Len(held) \in 1 .. Len(held) /\ Last = held[Len(held)] /\ Last \in HeldObjects /\ Last.open
  BY LastFact
<1>2. held \in Seq(HeldObjects)
  BY TypeFact DEF IInv
<1>3. Last.count \in Nat /\ Last.count + 0 = Last.count
  BY <1>1, HeldFact
<1>4. LastGrown(n, TRUE) = [Last EXCEPT !.count = @ + n]
  BY <1>1 DEF LastGrown, HeldObjects
<1>5. LastGrown(0, FALSE) = [Last EXCEPT !.open = FALSE]
  BY <1>1, <1>3 DEF LastGrown, HeldObjects
<1>6. LastGrown(n, FALSE) = [[Last EXCEPT !.open = FALSE] EXCEPT !.count = @ + n]
  BY <1>1 DEF LastGrown, HeldObjects
<1>7. [held EXCEPT ![Len(held)].count = @ + n] =
        [held EXCEPT ![Len(held)] = LastGrown(n, TRUE)]
  BY <1>1, <1>2, <1>4
<1>8. [held EXCEPT ![Len(held)].open = FALSE] =
        [held EXCEPT ![Len(held)] = LastGrown(0, FALSE)]
  BY <1>1, <1>2, <1>5
<1>9. [held EXCEPT ![Len(held)].open = FALSE, ![Len(held)].count = @ + n] =
        [held EXCEPT ![Len(held)] = LastGrown(n, FALSE)]
  BY <1>1, <1>2, <1>6
<1> QED BY <1>7, <1>8, <1>9

\* Values are written at the end of the youngest object.
GrownBytes(values) ==
  /\ EndOfObject(Last) = bytes_used
  /\ bytes_used' = bytes_used + Last.type.size * Len(values)
  /\ memory' = Stored(bytes_used, Last.type.size, values)

LEMMA GrownBytesFact ==
  ASSUME IInv, IInv', held # <<>>, NEW values \in Seq(Written), GrownBytes(values)
  PROVE  /\ EndOfObject(Last) = bytes_used
         /\ \A b \in 0 .. MaxSize - 1 : b < bytes_used => memory'[b] = memory[b]
         /\ \A d \in 0 .. Len(values) - 1 :
              ReadIn(memory', bytes_used + d * Last.type.size, Last.type.size) \in Written
<1> DEFINE size == Last.type.size
<1>1. /\ held \in Seq(HeldObjects) /\ memory \in Memories /\ bytes_used \in Nat
      /\ MaxSize \in Nat /\ Len(values) \in Nat /\ values \in Seq(Elementary)
  BY TypeFact DEF IInv, Written, Elementary
<1>2. size \in Nat \ {0}
  <2>1. Last \in HeldObjects
    BY <1>1 DEF Last
  <2> QED BY <2>1, HeldFact
<1>3. memory' = Stored(bytes_used, size, values) /\ EndOfObject(Last) = bytes_used
  BY DEF GrownBytes
<1>4. bytes_used + size * Len(values) <= MaxSize
  BY DEF GrownBytes, IInv, Layout, Apart
<1> HIDE DEF size
<1>5. \A b \in 0 .. MaxSize - 1 : b < bytes_used => memory'[b] = memory[b]
  BY <1>1, <1>2, <1>3, StoredFact
<1>6. \A e \in 1 .. Len(values) :
        ReadIn(Stored(bytes_used, size, values), bytes_used + (e - 1) * size, size) = values[e]
  BY <1>1, <1>2, <1>4, StoredElements
<1>7. ASSUME NEW d \in 0 .. Len(values) - 1
      PROVE  ReadIn(memory', bytes_used + d * size, size) \in Written
  <2>1. d + 1 \in 1 .. Len(values) /\ (d + 1) - 1 = d /\ values[d + 1] \in Written
    BY <1>1
  <2>2. ReadIn(memory', bytes_used + ((d + 1) - 1) * size, size) = values[d + 1]
    BY <1>3, <1>6, <2>1
  <2> QED BY <2>1, <2>2
<1> QED BY <1>3, <1>5, <1>7 DEF size

LEMMA GrownRefined ==
  ASSUME IInv, IInv', held # <<>>, NEW values \in Seq(Written), GrownBytes(values),
         NEW o \in HeldObjects, o.at = Last.at, o.type = Last.type,
         o.count = Last.count + Len(values), LastBecomes(o)
  PROVE  RefinedStep
<1> DEFINE n == Len(held)
<1>1. /\ held \in Seq(HeldObjects) /\ bytes_used \in Nat
      /\ MaxSize \in Nat /\ Len(values) \in Nat /\ bytes_used <= MaxSize
  BY TypeFact DEF IInv, Layout, Apart
<1>2. /\ Last \in HeldObjects /\ n \in 1 .. n /\ Last = held[n]
      /\ Last.type.size \in Nat \ {0} /\ Last.count \in Nat /\ Last.at \in Nat
  <2>1. n \in 1 .. n /\ Last = held[n]
    BY <1>1 DEF Last
  <2>2. Last \in HeldObjects
    BY <1>1, <2>1
  <2> QED BY <2>1, <2>2, HeldFact
<1>4. Len(held') = n /\ held'[n] = o /\ \A i \in 1 .. n - 1 : held'[i] = held[i]
  BY DEF LastBecomes
<1>3. /\ EndOfObject(Last) = bytes_used
      /\ \A d \in 0 .. Len(values) - 1 :
           ReadIn(memory', bytes_used + d * Last.type.size, Last.type.size) \in Written
  BY GrownBytesFact
<1>6. \A b \in 0 .. MaxSize - 1 : b < bytes_used => memory'[b] = memory[b]
  BY GrownBytesFact
<1> HIDE DEF n
<1>7. /\ Len(Abstraction) = n /\ Len(Abstraction') = n
      /\ Abstraction[n] \in Seq(Elementary) /\ Len(Abstraction[n]) = Last.count
      /\ Abstraction'[n] \in Seq(Elementary) /\ Len(Abstraction'[n]) = o.count
  BY <1>2, <1>4, AbstractionFact DEF n
<1>8. \A i \in 1 .. n - 1 : Abstraction'[i] = Abstraction[i]
  <2>1. SUFFICES ASSUME NEW i \in 1 .. n - 1
                 PROVE  Abstraction'[i] = Abstraction[i]
    OBVIOUS
  <2>2. i \in 1 .. Len(held) /\ i \in 1 .. Len(held') /\ held'[i] = held[i]
    BY <1>2, <1>4 DEF n
  <2>3. held[i] \in HeldObjects /\ EndOfObject(held[i]) <= bytes_used
    BY <1>1, <2>2 DEF IInv, Layout, Apart
  <2>4. held[i].at \in Nat /\ EndOfObject(held[i]) \in Nat /\ bytes_used <= MaxSize
    BY <2>3, HeldFact DEF IInv, Layout, Apart
  <2>5. \A b \in held[i].at .. EndOfObject(held[i]) - 1 : memory'[b] = memory[b]
    BY <1>1, <1>6, <2>3, <2>4
  <2> QED BY <2>2, <2>5, KeptFact
<1>9. \A e \in 1 .. Last.count : Abstraction'[n][e] = Abstraction[n][e]
  <2>1. \A b \in Last.at .. EndOfObject(Last) - 1 : memory'[b] = memory[b]
    <3>1. bytes_used <= MaxSize
      BY DEF IInv, Layout, Apart
    <3> QED BY <1>1, <1>2, <1>3, <1>6, <3>1
  <2>2. \A e \in 1 .. Last.count :
          ReadIn(memory', ElementAt(Last, e), Last.type.size) =
            ReadIn(memory, ElementAt(Last, e), Last.type.size)
    <3>1. ASSUME NEW p \in HeldObjects,
                 \A b \in p.at .. EndOfObject(p) - 1 : memory'[b] = memory[b]
          PROVE  \A e \in 1 .. p.count : ReadIn(memory', ElementAt(p, e), p.type.size) =
                                           ReadIn(memory, ElementAt(p, e), p.type.size)
      BY <3>1, SameElements
    <3> QED BY <1>2, <2>1, <3>1
  <2>3. \A e \in 1 .. Last.count : e \in 1 .. o.count /\ ElementAt(o, e) = ElementAt(Last, e)
    BY <1>1, <1>2 DEF ElementAt
  <2> QED BY <1>2, <1>4, <2>2, <2>3, AbstractionFact DEF n
<1>10. \A e \in Last.count + 1 .. o.count : Abstraction'[n][e] \in Written
  <2>1. SUFFICES ASSUME NEW e \in Last.count + 1 .. o.count
                 PROVE  Abstraction'[n][e] \in Written
    OBVIOUS
  <2> DEFINE d == (e - Last.count) - 1
             size == Last.type.size
  <2>2. /\ d \in 0 .. Len(values) - 1 /\ d \in Nat /\ e - 1 = Last.count + d
        /\ e \in 1 .. o.count /\ size \in Nat
    <3>1. o.count = Last.count + Len(values)
      OBVIOUS
    <3>2. e \in Nat /\ Last.count + 1 <= e /\ e <= Last.count + Len(values)
      BY <1>1, <1>2, <3>1
    <3>3. d \in 0 .. Len(values) - 1 /\ e - 1 = Last.count + d
      <4>1. \A c, k, i \in Nat : c + 1 <= i /\ i <= c + k =>
              (i - c) - 1 \in 0 .. k - 1 /\ i - 1 = c + ((i - c) - 1)
        OBVIOUS
      <4>2. Last.count \in Nat /\ Len(values) \in Nat
        BY <1>1, <1>2
      <4> HIDE DEF size
      <4> QED BY <3>2, <4>1, <4>2
    <3>4. e \in 1 .. o.count
      BY <1>1, <1>2, <3>1, <3>2
    <3>5. d \in Nat
      BY <1>1, <3>3
    <3> QED BY <1>2, <3>3, <3>4, <3>5
  <2> HIDE DEF d, size
  <2>3. ElementAt(o, e) = bytes_used + d * size
    <3>1. size * (Last.count + d) = size * Last.count + size * d
      <4>1. Last.count \in Nat /\ d \in Nat /\ size \in Nat
        BY <1>2, <2>2
      <4> QED BY <4>1, Products
    <3>2. (Last.count + d) * size = size * (Last.count + d) /\ d * size = size * d
      BY <1>2, <2>2
    <3>3. size * Last.count \in Nat /\ size * d \in Nat
      BY <1>2, <2>2, Products
    <3>4. ElementAt(o, e) = Last.at + (Last.count + d) * size
      BY <2>2 DEF ElementAt, size
    <3>5. bytes_used = Last.at + size * Last.count
      BY <1>3 DEF EndOfObject, size
    <3> QED BY <1>2, <3>1, <3>2, <3>3, <3>4, <3>5
  <2>4. ReadIn(memory', bytes_used + d * size, size) \in Written
    BY <1>3, <2>2 DEF size
  <2>5. Abstraction'[n][e] = ReadIn(memory', ElementAt(o, e), size)
    BY <1>2, <1>4, <2>2, AbstractionFact DEF n, size
  <2> QED BY <2>3, <2>4, <2>5
<1>11. Objects!IsPrefix(Abstraction[n], Abstraction'[n])
  <2>1. \A s, t \in Seq(Elementary) :
          Len(s) <= Len(t) /\ (\A e \in 1 .. Len(s) : t[e] = s[e]) => Objects!IsPrefix(s, t)
    BY PrefixFact
  <2>2. Len(Abstraction[n]) <= Len(Abstraction'[n])
    BY <1>1, <1>2, <1>7
  <2> QED BY <1>7, <1>9, <2>1, <2>2
<1>12. Abstraction # <<>>
  BY <1>2, <1>7
<1>13. Objects!Extend(Abstraction, Abstraction')
  BY <1>7, <1>8, <1>10, <1>11, <1>12 DEF Objects!Extend, Written
<1> QED BY <1>13 DEF RefinedStep, Objects!Step

LEMMA GrownStep ==
  ASSUME IInv, NEW kind \in {"builder", "string"}, Growing(kind),
         NEW values \in Seq(Written), NEW open \in BOOLEAN,
         held' = [held EXCEPT ![Len(held)] = LastGrown(Len(values), open)],
         UNCHANGED <<top, marks, status>>, EndOfObject(Last) = bytes_used,
         bytes_used' = bytes_used + Last.type.size * Len(values), bytes_used' <= MaxSize,
         kind = "string" /\ open => bytes_used' < MaxSize,
         nesting' = IF kind = "builder" /\ ~open THEN nesting - 1 ELSE nesting,
         memory' \in Memories, GrownBytes(values)
  PROVE  IInv' /\ RefinedStep
<1> DEFINE o == LastGrown(Len(values), open)
<1>1. /\ bytes_used \in Nat /\ marks \in Seq(Marks) /\ held \in Seq(HeldObjects)
      /\ Len(values) \in Nat
  BY TypeFact DEF IInv
<1>2. held # <<>> /\ Last \in HeldObjects
  BY LastFact
<1>3. /\ o \in HeldObjects /\ o.kind = kind /\ o.at = Last.at /\ o.type = Last.type
      /\ o.open = open /\ EndOfObject(o) = EndOfObject(Last) + Last.type.size * Len(values)
  BY <1>1, LastGrownFact
<1>4. LastBecomes(o)
  <2> HIDE DEF o
  <2>1. held' = [held EXCEPT ![Len(held)] = o]
    BY DEF o
  <2> QED BY <1>1, <1>2, <1>3, <2>1, LastBecomesFact
<1>5. Last.type.size \in Nat /\ Last.type.size * Len(values) \in Nat
  BY <1>1, <1>2, HeldFact, Products
<1>6. EndOfObject(o) = bytes_used' /\ bytes_used' \in Nat /\ bytes_used <= bytes_used'
  <2>1. PICK p \in Nat : p = Last.type.size * Len(values)
    BY <1>5
  <2>2. EndOfObject(o) = bytes_used + p /\ bytes_used' = bytes_used + p
    BY <1>3, <2>1
  <2> HIDE DEF o
  <2> QED BY <1>1, <2>1, <2>2
<1>7. Layout' /\ held' \in Seq(HeldObjects) /\ nesting' \in Nat
  <2>1. nesting' = IF kind = "builder" /\ ~o.open THEN nesting - 1 ELSE nesting
    BY <1>3
  <2>2. o.kind = "string" /\ o.open => bytes_used' < MaxSize
    BY <1>3
  <2> HIDE DEF o
  <2> QED BY <1>3, <1>4, <1>6, <2>1, <2>2, GrowFact DEF IInv
<1>8. TypeOK'
  BY <1>1, <1>6, <1>7, TypeStep DEF IInv
<1>9. IInv'
  BY <1>7, <1>8 DEF IInv
<1>10. RefinedStep
  <2>1. o.count = Last.count + Len(values)
    BY <1>1, LastGrownFact
  <2> HIDE DEF o
  <2> QED BY <1>2, <1>3, <1>4, <1>9, <2>1, GrownRefined
<1> QED BY <1>9, <1>10

LEMMA PushStep ==
  ASSUME IInv, Push
  PROVE  IInv' /\ RefinedStep
<1>1. Growing("builder")
  BY DEF Push
<1>2. PICK v \in Values : IF Fits(bytes_used + Last.type.size) THEN Grow(<<v>>)
                          ELSE Abort("out_of_memory")
  BY DEF Push
<1>3. CASE Abort("out_of_memory")
  BY <1>3, AbortFact
<1>4. CASE Fits(bytes_used + Last.type.size) /\ Grow(<<v>>)
  <2>1. EndOfObject(Last) = bytes_used /\ Last \in HeldObjects /\ status = "running"
    BY <1>1, LastFact
  <2>2. Last.type.size \in Nat \ {0} /\ Last.type.size * 1 = Last.type.size
    BY <2>1, HeldFact
  <2>3. <<v>> \in Seq(Elementary) /\ <<v>> \in Seq(Written) /\ Len(<<v>>) = 1
    BY DEF Elementary, Written
  <2>4. /\ bytes_used' = bytes_used + Last.type.size * Len(<<v>>)
        /\ memory' = Stored(bytes_used, Last.type.size, <<v>>)
        /\ held' = [held EXCEPT ![Len(held)].count = @ + Len(<<v>>)]
        /\ UNCHANGED <<top, nesting, marks, status>>
    BY <1>4 DEF Grow, Consume
  <2>5. bytes_used' <= MaxSize
    BY <1>4, <2>2, <2>3, <2>4 DEF Fits
  <2>6. held' = [held EXCEPT ![Len(held)] = LastGrown(Len(<<v>>), TRUE)]
    BY <1>1, <2>3, <2>4, ExceptFact
  <2>7. memory' \in Memories
    BY <2>2, <2>3, <2>4, TypeFact, StoredFact DEF IInv
  <2>8. GrownBytes(<<v>>)
    BY <2>1, <2>4 DEF GrownBytes
  <2> QED BY <1>1, <2>1, <2>3, <2>4, <2>5, <2>6, <2>7, <2>8, GrownStep
<1> QED BY <1>2, <1>3, <1>4

LEMMA FinishArrayBuilderStep ==
  ASSUME IInv, FinishArrayBuilder
  PROVE  IInv' /\ RefinedStep
<1>1. Growing("builder")
  BY DEF FinishArrayBuilder
<1>2. EndOfObject(Last) = bytes_used /\ Last \in HeldObjects
  BY <1>1, LastFact
<1>3. PICK none \in Seq(Written) : Len(none) = 0
  <2>1. <<>> \in Seq(Written) /\ Len(<<>>) = 0
    OBVIOUS
  <2> QED BY <2>1
<1>4. Last.type.size * 0 = 0 /\ bytes_used \in Nat /\ bytes_used <= MaxSize
  BY <1>2, HeldFact, TypeFact DEF IInv, Layout, Apart
<1>5. /\ held' = [held EXCEPT ![Len(held)].open = FALSE]
      /\ nesting' = nesting - 1 /\ UNCHANGED <<top, bytes_used, memory, marks, status>>
  BY DEF FinishArrayBuilder, Close
<1>6. held' = [held EXCEPT ![Len(held)] = LastGrown(Len(none), FALSE)]
  BY <1>1, <1>3, <1>5, ExceptFact
<1>7. memory' \in Memories /\ bytes_used' = bytes_used + Last.type.size * Len(none)
  BY <1>3, <1>4, <1>5, TypeFact DEF IInv
<1>8. GrownBytes(none)
  <2>1. Last.type.size \in Nat
    BY <1>2, HeldFact
  <2>2. Stored(bytes_used, Last.type.size, none) = memory
    BY <1>3, <1>4, <2>1, NothingStored, TypeFact DEF IInv
  <2> QED BY <1>2, <1>5, <1>7, <2>2 DEF GrownBytes
<1> QED BY <1>1, <1>2, <1>3, <1>4, <1>5, <1>6, <1>7, <1>8, GrownStep

LEMMA StringBuilderPrintfStep ==
  ASSUME IInv, StringBuilderPrintf
  PROVE  IInv' /\ RefinedStep
<1>1. Growing("string")
  BY DEF StringBuilderPrintf
<1>2. PICK contents \in Contents(Values) :
        IF NothingSince(Last) /\ Len(contents) < MaxSize - bytes_used
        THEN Grow(contents) ELSE Abort("assertion")
  BY DEF StringBuilderPrintf
<1>3. CASE Abort("assertion")
  BY <1>3, AbortFact
<1>4. CASE NothingSince(Last) /\ Len(contents) < MaxSize - bytes_used /\ Grow(contents)
  <2>1. Last \in HeldObjects /\ Last.type = Char
    BY <1>1, LastFact
  <2>2. contents \in Seq(Elementary) /\ contents \in Seq(Written) /\ Len(contents) \in Nat
    BY ContentsFact DEF Written
  <2>3. /\ Last.type.size = 1 /\ Last.type.size * Len(contents) = Len(contents)
        /\ EndOfObject(Last) = bytes_used
    <3>1. Last.count \in Nat /\ Last.type.size = 1
      BY <2>1, CharFact, HeldFact
    <3>2. 1 * Last.count = Last.count /\ 1 * Len(contents) = Len(contents)
      BY <2>2, <3>1
    <3> QED BY <1>4, <3>1, <3>2 DEF EndOfObject, NothingSince
  <2>4. /\ bytes_used' = bytes_used + Last.type.size * Len(contents)
        /\ memory' = Stored(bytes_used, Last.type.size, contents)
        /\ held' = [held EXCEPT ![Len(held)].count = @ + Len(contents)]
        /\ UNCHANGED <<top, nesting, marks, status>>
    BY <1>4 DEF Grow, Consume
  <2>5. bytes_used' < MaxSize /\ bytes_used' <= MaxSize
    BY <1>4, <2>2, <2>3, <2>4, TypeFact DEF IInv
  <2>6. held' = [held EXCEPT ![Len(held)] = LastGrown(Len(contents), TRUE)]
    BY <1>1, <2>2, <2>4, ExceptFact
  <2>7. memory' \in Memories
    <3>1. Stored(bytes_used, 1, contents) \in Memories
      BY <2>2, TypeFact, StoredFact DEF IInv
    <3> QED BY <2>3, <2>4, <3>1
  <2>8. GrownBytes(contents)
    BY <2>3, <2>4 DEF GrownBytes
  <2> QED BY <1>1, <2>2, <2>3, <2>4, <2>5, <2>6, <2>7, <2>8, GrownStep
<1> QED BY <1>2, <1>3, <1>4

LEMMA StringBuilderFinishStep ==
  ASSUME IInv, StringBuilderFinish
  PROVE  IInv' /\ RefinedStep
<1>1. Growing("string")
  BY DEF StringBuilderFinish
<1>2. CASE Abort("assertion")
  BY <1>2, AbortFact
<1>3. CASE NothingSince(Last) /\ ~Abort("assertion")
  <2>1. Last \in HeldObjects /\ Last.type = Char
    BY <1>1, LastFact
  <2>2. /\ <<Terminator>> \in Seq(Elementary) /\ <<Terminator>> \in Seq(Written)
        /\ Len(<<Terminator>>) = 1
    BY DEF Elementary, Written
  <2>3. /\ Last.type.size = 1 /\ Last.type.size * Len(<<Terminator>>) = 1
        /\ EndOfObject(Last) = bytes_used
    <3>1. Last.count \in Nat /\ Last.type.size = 1
      BY <2>1, CharFact, HeldFact
    <3>2. 1 * Last.count = Last.count
      BY <3>1
    <3> QED BY <1>3, <2>2, <3>1, <3>2 DEF EndOfObject, NothingSince
  <2>4. /\ bytes_used' = bytes_used + 1
        /\ memory' = Stored(bytes_used, 1, <<Terminator>>)
        /\ held' = [held EXCEPT ![Len(held)].open = FALSE, ![Len(held)].count = @ + 1]
        /\ UNCHANGED <<top, nesting, marks, status>>
    BY <1>3 DEF StringBuilderFinish, Consume, Terminate
  <2>5. bytes_used' <= MaxSize
    <3>1. Last.count \in Nat
      BY <2>1, HeldFact
    <3>2. CASE Last.count > 0
      <4>1. bytes_used < MaxSize
        BY <1>1, <2>3, <3>2, LastFact
      <4> QED BY <2>4, <4>1, TypeFact DEF IInv
    <3>3. CASE Last.count = 0
      <4>1. bytes_used < MaxSize
        BY <1>3, <3>3 DEF StringBuilderFinish, ByteLeft
      <4> QED BY <2>4, <4>1, TypeFact DEF IInv
    <3> QED BY <3>1, <3>2, <3>3
  <2>6. held' = [held EXCEPT ![Len(held)] = LastGrown(Len(<<Terminator>>), FALSE)]
    BY <1>1, <2>2, <2>4, ExceptFact
  <2>7. memory' \in Memories
    <3>1. ASSUME NEW text \in Seq(Elementary)
          PROVE  Stored(bytes_used, 1, text) \in Memories
      BY TypeFact, StoredFact DEF IInv
    <3> QED BY <2>2, <2>4, <3>1
  <2>8. bytes_used' = bytes_used + Last.type.size * Len(<<Terminator>>)
    BY <2>3, <2>4
  <2>9. GrownBytes(<<Terminator>>)
    BY <2>3, <2>4, <2>8 DEF GrownBytes
  <2> QED BY <1>1, <2>2, <2>3, <2>4, <2>5, <2>6, <2>7, <2>8, <2>9, GrownStep
<1> QED BY <1>2, <1>3 DEF StringBuilderFinish

LEMMA CreateMarkStep ==
  ASSUME IInv, CreateMark
  PROVE  IInv' /\ RefinedStep
<1> DEFINE mark == [bytes_used |-> bytes_used, held |-> Len(held)]
<1>1. /\ held \in Seq(HeldObjects) /\ Len(held) \in Nat /\ marks \in Seq(Marks)
      /\ Len(marks) \in Nat /\ bytes_used \in Nat /\ nesting \in Nat /\ memory \in Memories
  BY TypeFact DEF IInv
<1>2. /\ marks' = Append(marks, mark)
      /\ UNCHANGED <<top, bytes_used, nesting, memory, held, status>>
  BY DEF CreateMark
<1>3. mark \in Marks /\ mark.held = Len(held) /\ mark.bytes_used = bytes_used
  BY <1>1 DEF Marks
<1>4. /\ marks' \in Seq(Marks) /\ Len(marks') = Len(marks) + 1
      /\ marks'[Len(marks) + 1] = mark
      /\ \A m \in 1 .. Len(marks) : marks'[m] = marks[m]
  BY <1>1, <1>2, <1>3
<1> HIDE DEF mark
<1>5. Apart' /\ GrowingInv' /\ NestingCountsBuilders' /\ ArraysAreAligned'
  BY <1>2 DEF IInv, Layout, Apart, GrowingInv, NestingCountsBuilders, ArraysAreAligned,
     EndOfObject, Last
<1>6. MarksInv'
  <2>1. SUFFICES ASSUME NEW m \in 1 .. Len(marks')
                 PROVE  /\ marks'[m].held <= Len(held)
                        /\ marks'[m].bytes_used <= bytes_used
                        /\ \A i \in 1 .. marks'[m].held :
                             /\ EndOfObject(held[i]) <= marks'[m].bytes_used
                             /\ i = marks'[m].held /\ held[i].kind = "builder" /\ held[i].open =>
                                  EndOfObject(held[i]) = marks'[m].bytes_used
                        /\ \A i \in marks'[m].held + 1 .. Len(held) :
                             marks'[m].bytes_used <= held[i].at
                        /\ \A k \in 1 .. m - 1 :
                             marks'[k].held <= marks'[m].held
                               /\ marks'[k].bytes_used <= marks'[m].bytes_used
    <3>1. held' = held /\ bytes_used' = bytes_used
      BY <1>2
    <3> QED BY <3>1, SMTT(30) DEF MarksInv, EndOfObject
  <2>2. CASE m \in 1 .. Len(marks)
    <3>1. marks'[m] = marks[m] /\ \A k \in 1 .. m - 1 : marks'[k] = marks[k]
      BY <1>1, <1>4, <2>2
    <3> QED BY <2>2, <3>1 DEF IInv, Layout, MarksInv
  <2>3. CASE m = Len(marks) + 1
    <3>1. marks'[m] = mark
      BY <1>4, <2>3
    <3>2. \A i \in 1 .. Len(held) : EndOfObject(held[i]) <= bytes_used
      BY DEF IInv, Layout, Apart
    <3>3. \A i \in 1 .. Len(held) : i = Len(held) /\ held[i].kind = "builder" /\ held[i].open =>
            EndOfObject(held[i]) = bytes_used
      BY <1>1 DEF IInv, Layout, GrowingInv, Last
    <3>4. \A i \in Len(held) + 1 .. Len(held) : FALSE
      BY <1>1
    <3>5. ASSUME NEW k \in 1 .. m - 1
          PROVE  marks'[k].held <= Len(held) /\ marks'[k].bytes_used <= bytes_used
      <4>1. k \in 1 .. Len(marks)
        BY <1>1, <2>3
      <4> QED BY <1>4, <4>1 DEF IInv, Layout, MarksInv
    <3> QED BY <1>1, <1>3, <3>1, <3>2, <3>3, <3>4, <3>5
  <2> QED BY <1>1, <1>4, <2>2, <2>3
<1>7. TypeOK'
  BY <1>1, <1>2, <1>4, TypeStep DEF IInv
<1>8. RefinedStep
  BY <1>2, StutterRefined
<1> QED BY <1>5, <1>6, <1>7, <1>8 DEF IInv, Layout

\* The objects that a mark keeps, and the marks before it.
Cleared(m) ==
  /\ m \in 1 .. Len(marks)
  /\ \A i \in marks[m].held + 1 .. Len(held) : ~held[i].open
  /\ memory' = Erased(marks[m].bytes_used, bytes_used)
  /\ bytes_used' = marks[m].bytes_used
  /\ held' = SubSeq(held, 1, marks[m].held)
  /\ marks' = SubSeq(marks, 1, m - 1)
  /\ UNCHANGED <<top, nesting, status>>

LEMMA ClearCases ==
  ASSUME IInv, ClearToMark
  PROVE  Abort("assertion") \/ \E m \in 1 .. Len(marks) : Cleared(m)
<1>1. DOMAIN marks = 1 .. Len(marks)
  BY TypeFact DEF IInv
<1> QED BY <1>1 DEF ClearToMark, Cleared

LEMMA ClearedFact ==
  ASSUME IInv, NEW m \in 1 .. Len(marks), Cleared(m)
  PROVE  /\ marks[m].held \in 0 .. Len(held) /\ held' \in Seq(HeldObjects)
         /\ Len(held') = marks[m].held
         /\ \A i \in 1 .. marks[m].held : held'[i] = held[i] /\ i \in 1 .. Len(held)
         /\ marks' \in Seq(Marks) /\ Len(marks') = m - 1
         /\ \A k \in 1 .. m - 1 : marks'[k] = marks[k] /\ k \in 1 .. Len(marks)
         /\ bytes_used' = marks[m].bytes_used /\ bytes_used' \in Nat /\ bytes_used' <= bytes_used
<1>1. /\ held \in Seq(HeldObjects) /\ Len(held) \in Nat /\ marks \in Seq(Marks)
      /\ Len(marks) \in Nat /\ marks[m].held \in Nat /\ marks[m].bytes_used \in Nat
  BY TypeFact DEF IInv
<1>2. marks[m].held <= Len(held) /\ marks[m].bytes_used <= bytes_used
  BY DEF IInv, Layout, MarksInv
<1>3. /\ held' = SubSeq(held, 1, marks[m].held) /\ marks' = SubSeq(marks, 1, m - 1)
      /\ bytes_used' = marks[m].bytes_used
  BY DEF Cleared
<1>4. /\ held' \in Seq(HeldObjects) /\ Len(held') = marks[m].held
      /\ \A i \in 1 .. marks[m].held : held'[i] = held[i] /\ i \in 1 .. Len(held)
  BY <1>1, <1>2, <1>3
<1>5. /\ marks' \in Seq(Marks) /\ Len(marks') = m - 1
      /\ \A k \in 1 .. m - 1 : marks'[k] = marks[k] /\ k \in 1 .. Len(marks)
  BY <1>1, <1>3
<1> QED BY <1>1, <1>2, <1>3, <1>4, <1>5

LEMMA ClearedRefined ==
  ASSUME IInv, IInv', NEW m \in 1 .. Len(marks), Cleared(m)
  PROVE  RefinedStep
<1>1. /\ bytes_used \in Nat /\ memory \in Memories /\ MaxSize \in Nat /\ held \in Seq(HeldObjects)
      /\ bytes_used <= MaxSize
  BY TypeFact DEF IInv, Layout, Apart
<1>2. /\ marks[m].held \in 0 .. Len(held) /\ Len(held') = marks[m].held
      /\ \A i \in 1 .. marks[m].held : held'[i] = held[i] /\ i \in 1 .. Len(held)
      /\ bytes_used' = marks[m].bytes_used /\ bytes_used' \in Nat /\ bytes_used' <= bytes_used
  BY ClearedFact
<1>3. \A b \in 0 .. MaxSize - 1 : b < bytes_used' => memory'[b] = memory[b]
  <2>1. memory' = Erased(bytes_used', bytes_used)
    BY <1>2 DEF Cleared
  <2> QED BY <1>1, <1>2, <2>1, ErasedFact
<1>4. \A i \in 1 .. Len(held') : Abstraction'[i] = Abstraction[i]
  <2>1. SUFFICES ASSUME NEW i \in 1 .. Len(held')
                 PROVE  Abstraction'[i] = Abstraction[i]
    OBVIOUS
  <2>2. /\ i \in 1 .. Len(held) /\ held'[i] = held[i] /\ i \in 1 .. marks[m].held
        /\ held[i] \in HeldObjects
    BY <1>1, <1>2
  <2>3. EndOfObject(held[i]) <= bytes_used'
    BY <1>2, <2>2 DEF IInv, Layout, MarksInv
  <2>4. held[i].at \in Nat /\ EndOfObject(held[i]) \in Nat
    BY <2>2, HeldFact
  <2>5. \A b \in held[i].at .. EndOfObject(held[i]) - 1 : memory'[b] = memory[b]
    BY <1>1, <1>2, <1>3, <2>3, <2>4
  <2> QED BY <2>2, <2>5, KeptFact
<1>5. Objects!IsPrefix(Abstraction', Abstraction)
  <2>1. /\ Abstraction \in Seq(Seq(Elementary)) /\ Abstraction' \in Seq(Seq(Elementary))
        /\ Len(Abstraction) = Len(held) /\ Len(Abstraction') = Len(held')
    BY AbstractionFact
  <2>2. \A s, t \in Seq(Seq(Elementary)) :
          Len(s) <= Len(t) /\ (\A e \in 1 .. Len(s) : t[e] = s[e]) => Objects!IsPrefix(s, t)
    BY PrefixFact
  <2> QED BY <1>1, <1>2, <1>4, <2>1, <2>2
<1>6. Objects!Release(Abstraction, Abstraction')
  BY <1>5 DEF Objects!Release
<1> QED BY <1>6 DEF RefinedStep, Objects!Step

LEMMA ClearedStep ==
  ASSUME IInv, NEW m \in 1 .. Len(marks), Cleared(m)
  PROVE  IInv' /\ RefinedStep
<1>1. /\ held \in Seq(HeldObjects) /\ Len(held) \in Nat /\ marks \in Seq(Marks)
      /\ Len(marks) \in Nat /\ bytes_used \in Nat /\ nesting \in Nat /\ memory \in Memories
  BY TypeFact DEF IInv
<1>2. /\ marks[m].held \in 0 .. Len(held) /\ held' \in Seq(HeldObjects)
      /\ Len(held') = marks[m].held
      /\ \A i \in 1 .. marks[m].held : held'[i] = held[i] /\ i \in 1 .. Len(held)
      /\ marks' \in Seq(Marks) /\ Len(marks') = m - 1
      /\ \A k \in 1 .. m - 1 : marks'[k] = marks[k] /\ k \in 1 .. Len(marks)
      /\ bytes_used' = marks[m].bytes_used /\ bytes_used' \in Nat /\ bytes_used' <= bytes_used
  BY ClearedFact
<1>3. /\ \A i \in 1 .. marks[m].held :
           /\ EndOfObject(held[i]) <= bytes_used'
           /\ i = marks[m].held /\ held[i].kind = "builder" /\ held[i].open =>
                EndOfObject(held[i]) = bytes_used'
      /\ \A k \in 1 .. m - 1 :
           marks[k].held <= marks[m].held /\ marks[k].bytes_used <= bytes_used'
  BY <1>2 DEF IInv, Layout, MarksInv
<1>4. Apart'
  <2>1. bytes_used' <= MaxSize
    BY <1>1, <1>2, TypeFact DEF IInv, Layout, Apart
  <2>2. \A j \in 1 .. Len(held') : \A i \in 1 .. j - 1 : EndOfObject(held'[i]) <= held'[j].at
    <3>1. SUFFICES ASSUME NEW j \in 1 .. Len(held'), NEW i \in 1 .. j - 1
                   PROVE  EndOfObject(held'[i]) <= held'[j].at
      OBVIOUS
    <3>2. /\ i \in 1 .. marks[m].held /\ held'[i] = held[i]
          /\ j \in 1 .. Len(held) /\ held'[j] = held[j]
      BY <1>2
    <3> QED BY <3>2 DEF IInv, Layout, Apart
  <2> QED BY <1>2, <1>3, <2>1, <2>2 DEF Apart, EndOfObject
<1>5. MarksInv'
  <2>1. SUFFICES ASSUME NEW k \in 1 .. Len(marks')
                 PROVE  /\ marks'[k].held <= Len(held')
                        /\ marks'[k].bytes_used <= bytes_used'
                        /\ \A i \in 1 .. marks'[k].held :
                             /\ EndOfObject(held'[i]) <= marks'[k].bytes_used
                             /\ i = marks'[k].held /\ held'[i].kind = "builder" /\ held'[i].open =>
                                  EndOfObject(held'[i]) = marks'[k].bytes_used
                        /\ \A i \in marks'[k].held + 1 .. Len(held') :
                             marks'[k].bytes_used <= held'[i].at
                        /\ \A n \in 1 .. k - 1 :
                             marks'[n].held <= marks'[k].held
                               /\ marks'[n].bytes_used <= marks'[k].bytes_used
    BY DEF MarksInv, EndOfObject
  <2>2. k \in 1 .. m - 1 /\ k \in 1 .. Len(marks) /\ marks'[k] = marks[k]
    BY <1>2
  <2>3. marks[k].held <= marks[m].held /\ marks[k].bytes_used <= bytes_used'
        /\ marks[k].held \in Nat
    BY <1>3, <2>2, TypeFact DEF IInv
  <2>4. /\ \A i \in 1 .. marks[k].held :
             /\ EndOfObject(held[i]) <= marks[k].bytes_used
             /\ i = marks[k].held /\ held[i].kind = "builder" /\ held[i].open =>
                  EndOfObject(held[i]) = marks[k].bytes_used
        /\ \A i \in marks[k].held + 1 .. Len(held) : marks[k].bytes_used <= held[i].at
        /\ \A n \in 1 .. k - 1 :
             marks[n].held <= marks[k].held /\ marks[n].bytes_used <= marks[k].bytes_used
    BY <2>2 DEF IInv, Layout, MarksInv
  <2>5. \A i \in 1 .. marks[k].held : held'[i] = held[i]
    <3>1. \A i \in 1 .. marks[k].held : i \in 1 .. marks[m].held
      BY <1>1, <1>2, <2>3
    <3> QED BY <1>2, <3>1
  <2>6. \A i \in marks[k].held + 1 .. Len(held') : i \in marks[k].held + 1 .. Len(held)
                                                   /\ held'[i] = held[i]
    BY <1>1, <1>2, <2>3
  <2>7. \A n \in 1 .. k - 1 : marks'[n] = marks[n]
    BY <1>2, <2>2
  <2> QED BY <1>2, <2>2, <2>3, <2>4, <2>5, <2>6, <2>7
<1>6. GrowingInv'
  <2>1. held' # <<>> /\ Last'.kind = "builder" /\ Last'.open => EndOfObject(Last') = bytes_used'
    <3>1. CASE marks[m].held = 0
      BY <1>2, <3>1
    <3>2. CASE marks[m].held # 0
      <4>1. marks[m].held \in 1 .. marks[m].held
        BY <1>2, <3>2
      <4>2. Last' = held[marks[m].held]
        BY <1>2, <4>1 DEF Last
      <4> QED BY <1>3, <4>1, <4>2
    <3> QED BY <3>1, <3>2
  <2>2. ASSUME NEW i \in 1 .. Len(held'), held'[i].kind = "string"
        PROVE  /\ held'[i].type = Char
               /\ held'[i].open /\ held'[i].count > 0 => EndOfObject(held'[i]) < MaxSize
    <3>1. held'[i] = held[i] /\ i \in 1 .. Len(held)
      BY <1>2
    <3> QED BY <2>2, <3>1 DEF IInv, Layout, GrowingInv
  <2> QED BY <2>1, <2>2 DEF GrowingInv, EndOfObject
<1>7. NestingCountsBuilders'
  <2>1. \A i \in 1 .. Len(held) :
          i \in OpenBuilders <=> held[i].kind = "builder" /\ held[i].open
    BY <1>1 DEF OpenBuilders
  <2>2. \A i \in 1 .. marks[m].held :
          i \in OpenBuilders' <=> held'[i].kind = "builder" /\ held'[i].open
    BY <1>2 DEF OpenBuilders
  <2>3. \A i \in OpenBuilders' : i \in 1 .. marks[m].held
    BY <1>2 DEF OpenBuilders
  <2>4. \A i \in OpenBuilders : i \in 1 .. marks[m].held
    <3>1. SUFFICES ASSUME NEW i \in OpenBuilders
                   PROVE  i \in 1 .. marks[m].held
      OBVIOUS
    <3>2. i \in 1 .. Len(held) /\ held[i].open
      BY <1>1 DEF OpenBuilders
    <3>3. i \notin marks[m].held + 1 .. Len(held)
      BY <3>2 DEF Cleared
    <3> QED BY <1>1, <1>2, <3>2, <3>3
  <2>5. \A i \in 1 .. marks[m].held : i \in OpenBuilders' <=> i \in OpenBuilders
    BY <1>2, <2>1, <2>2
  <2>6. OpenBuilders' = OpenBuilders
    BY <2>3, <2>4, <2>5
  <2>7. nesting = Cardinality(OpenBuilders)
    BY DEF IInv, Layout, NestingCountsBuilders, OpenBuilders
  <2> QED BY <2>6, <2>7 DEF NestingCountsBuilders, OpenBuilders, Cleared
<1>8. ArraysAreAligned'
  <2>1. DOMAIN held' = 1 .. marks[m].held /\ DOMAIN held = 1 .. Len(held) /\ top' = top
    BY <1>1, <1>2 DEF Cleared
  <2> QED BY <1>2, <2>1 DEF IInv, Layout, ArraysAreAligned
<1>9. memory' \in Memories
  <2>1. memory' = Erased(bytes_used', bytes_used)
    BY <1>2 DEF Cleared
  <2> QED BY <1>1, <1>2, <2>1, ErasedFact
<1>10. TypeOK'
  BY <1>1, <1>2, <1>9, TypeStep DEF IInv, Cleared
<1>11. IInv'
  BY <1>4, <1>5, <1>6, <1>7, <1>8, <1>10 DEF IInv, Layout
<1> QED BY <1>11, ClearedRefined

\* Nothing but one element of an object is written.
LEMMA ElementStored ==
  ASSUME memory \in Memories, MaxSize \in Nat, NEW at \in Nat, NEW size \in Nat \ {0},
         at + size <= MaxSize, NEW v \in Values
  PROVE  /\ ReadIn(Stored(at, size, <<v>>), at, size) = v
         /\ \A b \in 0 .. MaxSize - 1 :
              b < at \/ b >= at + size => Stored(at, size, <<v>>)[b] = memory[b]
<1>1. PICK one \in Seq(Elementary) : one = <<v>> /\ Len(one) = 1 /\ one[1] = v
  <2>1. <<v>> \in Seq(Elementary)
    BY DEF Elementary
  <2> QED BY <2>1
<1>2. size * Len(one) = size /\ (1 - 1) * size = 0 /\ 1 \in 1 .. Len(one) /\ at + 0 = at
  BY <1>1
<1>3. ReadIn(Stored(at, size, one), at + (1 - 1) * size, size) = one[1]
  BY <1>2, StoredElements
<1>4. ReadIn(Stored(at, size, one), at, size) = v
  BY <1>1, <1>2, <1>3
<1>5. \A b \in 0 .. MaxSize - 1 : b < at \/ b >= at + size => Stored(at, size, one)[b] = memory[b]
  BY <1>2, StoredFact
<1> QED BY <1>1, <1>4, <1>5

LEMMA ClientWritesRefined ==
  ASSUME IInv, IInv', NEW i \in 1 .. Len(held), NEW v \in Values, NEW e \in 1 .. held[i].count,
         NEW at \in Nat, at = ElementAt(held[i], e), NEW size, size = held[i].type.size,
         ReadIn(memory', at, size) = v,
         \A b \in 0 .. MaxSize - 1 : b < at \/ b >= at + size => memory'[b] = memory[b],
         held' = held
  PROVE  RefinedStep
<1> DEFINE o == held[i]
<1>1. /\ MaxSize \in Nat /\ held \in Seq(HeldObjects) /\ bytes_used \in Nat
      /\ bytes_used <= MaxSize /\ Len(held) \in Nat
  BY TypeFact DEF IInv, Layout, Apart
<1>2. o \in HeldObjects /\ size \in Nat \ {0} /\ o.at \in Nat /\ o.count \in Nat
  BY <1>1, HeldFact
<1>3. /\ o.at <= at /\ at + size <= EndOfObject(o) /\ EndOfObject(o) \in Nat
      /\ EndOfObject(o) <= bytes_used
  <2>1. EndOfObject(held[i]) <= bytes_used
    BY DEF IInv, Layout, Apart
  <2>2. held[i] \in HeldObjects
    BY <1>2
  <2> QED BY <2>1, <2>2, ElementPlace, HeldFact
<1>4. at + size \in Nat
  BY <1>2
<1>9. ASSUME NEW j \in 1 .. Len(held), j # i
      PROVE  Abstraction'[j] = Abstraction[j]
  <2>1. held[j] \in HeldObjects /\ EndOfObject(held[j]) <= bytes_used
    BY <1>1 DEF IInv, Layout, Apart
  <2>2. held[j].at \in Nat /\ EndOfObject(held[j]) \in Nat
    BY <2>1, HeldFact
  <2>3. EndOfObject(held[j]) <= o.at \/ EndOfObject(o) <= held[j].at
    <3>1. CASE j < i
      <4>1. j \in 1 .. i - 1
        BY <1>1, <3>1
      <4> QED BY <4>1 DEF IInv, Layout, Apart
    <3>2. CASE i < j
      <4>1. i \in 1 .. j - 1
        BY <1>1, <3>2
      <4> QED BY <4>1 DEF IInv, Layout, Apart
    <3> QED BY <1>1, <1>9, <3>1, <3>2
  <2>4. \A b \in held[j].at .. EndOfObject(held[j]) - 1 :
          b \in 0 .. MaxSize - 1 /\ (b < at \/ b >= at + size)
    <3>1. EndOfObject(held[j]) <= MaxSize
      BY <1>1, <2>1, <2>2
    <3>2. EndOfObject(held[j]) <= at \/ at + size <= held[j].at
      <4> HIDE DEF o
      <4>1. CASE EndOfObject(held[j]) <= o.at
        BY <1>2, <1>3, <2>2, <4>1
      <4>2. CASE EndOfObject(o) <= held[j].at
        BY <1>3, <1>4, <2>2, <4>2
      <4> QED BY <2>3, <4>1, <4>2
    <3> QED BY <1>1, <1>4, <2>2, <3>1, <3>2, OutsideFact
  <2>5. \A b \in held[j].at .. EndOfObject(held[j]) - 1 : memory'[b] = memory[b]
    BY <2>4
  <2> QED BY <2>5, KeptFact
<1>10. ASSUME NEW d \in 1 .. o.count, d # e
       PROVE  Abstraction'[i][d] = Abstraction[i][d]
  <2>1. /\ ElementAt(o, d) \in Nat /\ ElementAt(o, d) + size <= EndOfObject(o)
    BY <1>2, ElementPlace
  <2>2. ElementAt(o, d) + size <= at \/ at + size <= ElementAt(o, d)
    <3>1. CASE d < e
      <4>1. d \in 1 .. e - 1
        BY <1>2, <3>1
      <4> QED BY <1>2, <4>1, ElementPlace
    <3>2. CASE e < d
      <4>1. e \in 1 .. d - 1
        BY <1>2, <3>2
      <4> QED BY <1>2, <4>1, ElementPlace
    <3> QED BY <1>2, <1>10, <3>1, <3>2
  <2>3. \A b \in ElementAt(o, d) .. ElementAt(o, d) + size - 1 :
          b \in 0 .. MaxSize - 1 /\ (b < at \/ b >= at + size)
    <3> DEFINE p == ElementAt(o, d)
    <3>1. p \in Nat /\ p + size \in Nat /\ p + size <= EndOfObject(o)
      BY <1>2, <2>1
    <3>2. p + size <= at \/ at + size <= p
      BY <2>2
    <3> HIDE DEF p, o
    <3>3. p + size <= MaxSize
      BY <1>1, <1>3, <3>1
    <3>4. ASSUME NEW b \in p .. p + size - 1
          PROVE  b \in 0 .. MaxSize - 1 /\ (b < at \/ b >= at + size)
      <4>1. b \in Nat /\ p <= b /\ b < p + size
        <5>1. size \in Nat
          BY <1>2
        <5> QED BY <3>1, <5>1
      <4>2. b \in 0 .. MaxSize - 1
        BY <1>1, <3>1, <3>3, <4>1
      <4>3. b < at \/ b >= at + size
        BY <1>4, <3>1, <3>2, <4>1
      <4> QED BY <4>2, <4>3
    <3> QED BY <3>4 DEF p, o
  <2>4. \A b \in ElementAt(o, d) .. ElementAt(o, d) + size - 1 : memory'[b] = memory[b]
    BY <2>3
  <2>5. ASSUME NEW place \in Nat, \A b \in place .. place + size - 1 : memory'[b] = memory[b]
        PROVE  ReadIn(memory', place, size) = ReadIn(memory, place, size)
    <3>1. size \in Nat \ {0}
      BY <1>2
    <3> HIDE DEF o
    <3> QED BY <2>5, <3>1, ReadStays
  <2>6. ReadIn(memory', ElementAt(o, d), size) = ReadIn(memory, ElementAt(o, d), size)
    BY <2>1, <2>4, <2>5
  <2> QED BY <2>6, AbstractionFact
<1>11. Abstraction'[i][e] = v
  BY AbstractionFact
<1>12. Abstraction'[i] = [Abstraction[i] EXCEPT ![e] = v]
  <2>1. /\ Abstraction[i] \in Seq(Elementary) /\ Len(Abstraction[i]) = o.count
        /\ Abstraction'[i] \in Seq(Elementary) /\ Len(Abstraction'[i]) = o.count
    BY AbstractionFact
  <2> DEFINE new == [Abstraction[i] EXCEPT ![e] = v]
  <2>2. /\ new \in Seq(Elementary) /\ Len(new) = o.count /\ new[e] = v
        /\ \A d \in 1 .. o.count : d # e => new[d] = Abstraction[i][d]
    BY <1>2, <2>1 DEF Elementary
  <2> HIDE DEF new
  <2>3. \A d \in 1 .. o.count : Abstraction'[i][d] = new[d]
    BY <1>10, <1>11, <2>2
  <2>4. Abstraction'[i] = new
    BY <2>1, <2>2, <2>3, EqualSequences
  <2> QED BY <2>4 DEF new
<1>13. Objects!Write(Abstraction, Abstraction')
  <2>1. /\ DOMAIN Abstraction = 1 .. Len(held) /\ DOMAIN Abstraction[i] = 1 .. o.count
        /\ Len(Abstraction) = Len(held) /\ Len(Abstraction') = Len(held)
    BY AbstractionFact
  <2>2. \A j \in DOMAIN Abstraction \ {i} : Abstraction'[j] = Abstraction[j]
    BY <1>9, <2>1
  <2>3. \E f \in DOMAIN Abstraction[i], w \in Values \cup {Terminator} :
          Abstraction'[i] = [Abstraction[i] EXCEPT ![f] = w]
    BY <1>12, <2>1
  <2>4. i \in DOMAIN Abstraction
    BY <2>1
  <2> QED BY <2>1, <2>2, <2>3, <2>4 DEF Objects!Write
<1> QED BY <1>13 DEF RefinedStep, Objects!Step

LEMMA ClientWritesCases ==
  ASSUME IInv, ClientWrites
  PROVE  \E i \in 1 .. Len(held), v \in Values : \E e \in 1 .. held[i].count :
           memory' = Stored(ElementAt(held[i], e), held[i].type.size, <<v>>)
<1>1. DOMAIN held = 1 .. Len(held)
  BY TypeFact DEF IInv
<1> QED BY <1>1 DEF ClientWrites, ElementAt

LEMMA ClientWritesStep ==
  ASSUME IInv, ClientWrites
  PROVE  IInv' /\ RefinedStep
<1>1. PICK i \in 1 .. Len(held), v \in Values : \E e \in 1 .. held[i].count :
        memory' = Stored(ElementAt(held[i], e), held[i].type.size, <<v>>)
  BY ClientWritesCases
<1>2. PICK e \in 1 .. held[i].count :
        memory' = Stored(ElementAt(held[i], e), held[i].type.size, <<v>>)
  BY <1>1
<1>3. held[i] \in HeldObjects
  BY TypeFact DEF IInv
<1>4. ElementAt(held[i], e) \in Nat /\ held[i].type.size \in Nat \ {0}
  BY <1>3, ElementPlace, HeldFact
<1>5. <<v>> \in Seq(Elementary)
  BY DEF Elementary
<1>6. memory' \in Memories
  BY <1>2, <1>4, <1>5, StoredFact, TypeFact DEF IInv
<1>7. UNCHANGED <<top, bytes_used, nesting, held, marks, status>>
  BY DEF ClientWrites
<1>8. Layout'
  BY <1>7 DEF IInv, Layout, Apart, MarksInv, GrowingInv, NestingCountsBuilders, ArraysAreAligned,
     EndOfObject, Last
<1>9. TypeOK'
  BY <1>6, <1>7, TypeFact, TypeStep DEF IInv
<1>10. IInv'
  BY <1>8, <1>9 DEF IInv
<1>11. RefinedStep
  <2>1. PICK at \in Nat, size \in Nat \ {0} :
          at = ElementAt(held[i], e) /\ size = held[i].type.size
    BY <1>4
  <2>2. memory' = Stored(at, size, <<v>>)
    BY <1>2, <2>1
  <2>3. at + size <= MaxSize /\ MaxSize \in Nat /\ memory \in Memories
    <3>1. EndOfObject(held[i]) <= bytes_used /\ bytes_used <= MaxSize
      BY DEF IInv, Layout, Apart
    <3>2. bytes_used \in Nat /\ MaxSize \in Nat /\ memory \in Memories
      BY TypeFact DEF IInv
    <3>3. at + size <= EndOfObject(held[i]) /\ EndOfObject(held[i]) \in Nat
      BY <1>3, <2>1, ElementPlace, HeldFact
    <3> QED BY <2>1, <3>1, <3>2, <3>3
  <2>4. /\ ReadIn(Stored(at, size, <<v>>), at, size) = v
        /\ \A b \in 0 .. MaxSize - 1 :
             b < at \/ b >= at + size => Stored(at, size, <<v>>)[b] = memory[b]
    BY <2>3, ElementStored
  <2>5. /\ ReadIn(memory', at, size) = v
        /\ \A b \in 0 .. MaxSize - 1 : b < at \/ b >= at + size => memory'[b] = memory[b]
    BY <2>2, <2>4
  <2> QED BY <1>7, <1>10, <2>1, <2>5, ClientWritesRefined
<1> QED BY <1>10, <1>11

LEMMA InitInv == Init => IInv
<1> SUFFICES ASSUME Init PROVE IInv
  OBVIOUS
<1>1. /\ top \in Tops /\ bytes_used = 0 /\ nesting = 0 /\ held = <<>> /\ marks = <<>>
      /\ memory = [o \in 0 .. MaxSize - 1 |-> Uninit] /\ status = "running"
  BY DEF Init
<1>2. MaxSize \in Nat
  BY SizesAssumption
<1>3. memory \in Memories
  BY <1>1 DEF Memories, Bytes, Uninit
<1>4. TypeOK
  BY <1>1, <1>3 DEF TypeOK, Memories, Bytes
<1>5. Apart /\ MarksInv /\ GrowingInv /\ ArraysAreAligned
  BY <1>1, <1>2 DEF Apart, MarksInv, GrowingInv, ArraysAreAligned
<1>6. NestingCountsBuilders
  <2>1. {i \in DOMAIN held : held[i].kind = "builder" /\ held[i].open} = {}
    BY <1>1
  <2> QED BY <1>1, <2>1, FS_EmptySet DEF NestingCountsBuilders
<1> QED BY <1>4, <1>5, <1>6 DEF IInv, Layout

LEMMA NextInv == IInv /\ [Next]_vars => IInv' /\ RefinedStep
<1> SUFFICES ASSUME IInv, [Next]_vars PROVE IInv' /\ RefinedStep
  OBVIOUS
<1>1. CASE AllocateArray \/ CopyArray \/ CreateSubBump
  BY <1>1, AllocationSteps
<1>2. CASE Printf
  BY <1>2, PrintfStep
<1>3. CASE StartArrayBuilder \/ StringBuilderCreate
  BY <1>3, StartSteps
<1>4. CASE Push
  BY <1>4, PushStep
<1>5. CASE FinishArrayBuilder
  BY <1>5, FinishArrayBuilderStep
<1>6. CASE StringBuilderPrintf
  BY <1>6, StringBuilderPrintfStep
<1>7. CASE StringBuilderFinish
  BY <1>7, StringBuilderFinishStep
<1>8. CASE CreateMark
  BY <1>8, CreateMarkStep
<1>9. CASE ClearToMark
  BY <1>9, ClearCases, ClearedStep, AbortFact
<1>10. CASE ClientWrites
  BY <1>10, ClientWritesStep
<1>11. CASE UNCHANGED vars
  <2>1. IInv'
    BY <1>11 DEF vars, IInv, TypeOK, Layout, Apart, MarksInv, GrowingInv, NestingCountsBuilders,
       ArraysAreAligned, EndOfObject, Last
  <2>2. RefinedStep
    BY <1>11, StutterRefined DEF vars
  <2> QED BY <2>1, <2>2
<1> QED BY <1>1, <1>2, <1>3, <1>4, <1>5, <1>6, <1>7, <1>8, <1>9, <1>10, <1>11 DEF Next

LEMMA Invariance == Spec => []IInv
BY InitInv, NextInv, PTL DEF Spec
------------------------------------------------------------------------------
(* Theorems.                                                               *)

(* Every variable keeps its type: in particular, the nesting level never   *)
(* becomes negative (bump.c).                                              *)
THEOREM TypeCorrect == Spec => []TypeOK
<1>1. IInv => TypeOK
  BY DEF IInv
<1> QED BY Invariance, <1>1, PTL

(* The objects a client holds never overlap, and none ends past the arena, *)
(* not even by the terminator that is written without a check              *)
(* (string_builder.c:39).                                                  *)
THEOREM ObjectsStayApart == Spec => []ObjectsAreApart
<1>1. IInv => ObjectsAreApart
  <2> SUFFICES ASSUME IInv, NEW i \in DOMAIN held
               PROVE  /\ bytes_used <= MaxSize
                      /\ EndOfObject(held[i]) <=
                           IF i = Len(held) THEN bytes_used ELSE held[i + 1].at
    BY DEF ObjectsAreApart, IInv, Layout, Apart
  <2>1. i \in 1 .. Len(held) /\ Len(held) \in Nat
    BY TypeFact DEF IInv
  <2>2. i # Len(held) => i + 1 \in 1 .. Len(held) /\ i \in 1 .. (i + 1) - 1
    BY <2>1
  <2> QED BY <2>1, <2>2 DEF IInv, Layout, Apart
<1> QED BY Invariance, <1>1, PTL

(* The nesting level is the number of builders that are open, so that the  *)
(* assertions on it refuse what they should (bump.c:22-151).               *)
THEOREM NestingIsCounted == Spec => []NestingCountsBuilders
<1>1. IInv => NestingCountsBuilders
  BY DEF IInv, Layout
<1> QED BY Invariance, <1>1, PTL

(* Every array begins at a multiple of the size of its elements            *)
(* (bump.c:24, 79-82).                                                     *)
THEOREM ArraysStayAligned == Spec => []ArraysAreAligned
<1>1. IInv => ArraysAreAligned
  BY DEF IInv, Layout
<1> QED BY Invariance, <1>1, PTL

(* The bytes of the arena implement a stack of objects: nothing but a      *)
(* write to an object changes what is read from it, whatever is allocated, *)
(* built, printed and cleared (bump.c, string_builder.c).                  *)
THEOREM Refinement == Spec => ImplementsObjects
<1>1. Init => Objects!Init
  <2> SUFFICES ASSUME Init PROVE Objects!Init
    OBVIOUS
  <2>1. held = <<>>
    BY DEF Init
  <2> QED BY <2>1 DEF Objects!Init, Abstraction
<1>2. IInv /\ [Next]_vars => [Objects!Next]_Abstraction
  BY NextInv DEF RefinedStep, Objects!Next
<1> QED BY <1>1, <1>2, Invariance, PTL DEF Spec, ImplementsObjects, Objects!Spec
==============================================================================
