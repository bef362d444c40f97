--------------------------------- MODULE Arena ---------------------------------
(***************************************************************************)
(* bump.c, with the string builders of string_builder.c: one arena, and a  *)
(* client that uses it as the stages of minic do.  An action is a whole    *)
(* function of bump.c.  Offsets count bytes from `top`; a byte is a pair   *)
(* of the value stored and the number of the byte within its element, so   *)
(* that an element reads back as a value only if all its bytes are there.  *)
(*                                                                         *)
(* `held` is what the client has: the arrays, builders and strings it got  *)
(* since the marks it will clear to.  The client is bound only where the   *)
(* functions do not assert: it pushes to its youngest builder alone, and   *)
(* clears no builder that is still open.  That the parser and lowering do  *)
(* so is BuildersNested of Parser and Lower.  And it finishes an empty     *)
(* string only where a byte is left (ByteLeft).                            *)
(***************************************************************************)
EXTENDS Integers, Sequences, FiniteSets

CONSTANTS
  Tops,              \* the addresses the arena may have
  MaxSize,           \* max_size
  Types,             \* the types of elements: records of size and align
  Char,              \* the type of characters, among them
  SubBumpAlignment,  \* 16
  MaxCount,          \* bounds the elements given to one call,
  MaxHeld,           \* the objects the client holds
  MaxMarks,          \* and its marks
  Values,
  Terminator,        \* the value that ends a string
  Undefined

ASSUME SizesAssumption ==
  /\ Tops \subseteq Nat
  /\ {MaxSize, MaxCount, MaxHeld, MaxMarks} \subseteq Nat
  /\ SubBumpAlignment \in Nat \ {0}

\* As in C: the alignment of a type divides its size.
ASSUME TypesAssumption ==
  /\ Char = [size |-> 1, align |-> 1]
  /\ Char \in Types
  /\ \A t \in Types : /\ t \in [size : Nat \ {0}, align : Nat \ {0}]
                      /\ t.size % t.align = 0

ASSUME ValuesAssumption == Terminator \notin Values /\ Undefined \notin Values \cup {Terminator}

VARIABLES
  top,         \* b->top
  bytes_used,  \* b->bytes_used
  nesting,     \* b->array_builder_nesting_level
  memory,      \* the bytes from `top` on
  held,        \* the client's objects, the oldest first
  marks,       \* the client's marks, the oldest first
  status       \* "running", or why the process aborted

vars == <<top, bytes_used, nesting, memory, held, marks, status>>

Uninit == <<Undefined, 0>>

\* The memory with values stored from `at` on.
Stored(at, size, values) ==
  [o \in DOMAIN memory |->
     IF o \in at .. at + size * Len(values) - 1
     THEN <<values[(o - at) \div size + 1], (o - at) % size>>
     ELSE memory[o]]

Erased(from, to) == [o \in DOMAIN memory |-> IF o \in from .. to - 1 THEN Uninit ELSE memory[o]]

Abort(reason) ==
  /\ status' = reason
  /\ UNCHANGED <<top, bytes_used, nesting, memory, held, marks>>

Object(kind, at, type, count) ==
  [kind |-> kind, at |-> at, type |-> type, count |-> count, open |-> kind # "array"]

CanHold == status = "running" /\ Len(held) < MaxHeld

Fits(end) == end <= MaxSize

\* bumpConsumeSpace: `bytes_used` moves to `end`.
Consume(end) ==
  /\ bytes_used' = end
  /\ UNCHANGED <<top, marks, status>>
------------------------------------------------------------------------------
Init ==
  /\ top \in Tops
  /\ bytes_used = 0
  /\ nesting = 0
  /\ memory = [o \in 0 .. MaxSize - 1 |-> Uninit]
  /\ held = <<>>
  /\ marks = <<>>
  /\ status = "running"

\* Mutant: the padding is what is too much, not what is missing.
AlignedWrongly(alignment) == bytes_used + ((top + bytes_used) % alignment)

\* bumpAlignTo: an aligned address gets a full `alignment` of padding.
Aligned(alignment) == bytes_used + alignment - ((top + bytes_used) % alignment)

Allocate(type, alignment, contents) ==
  LET at == Aligned(alignment)
      end == at + type.size * Len(contents)
  IN  /\ CanHold
      /\ IF nesting # 0 THEN Abort("assertion")
         ELSE IF ~Fits(end) THEN Abort("out_of_memory")
         ELSE /\ Consume(end)
              /\ memory' = IF contents # <<>> /\ contents[1] = Undefined
                           THEN Erased(bytes_used, end)
                           ELSE Stored(at, type.size, contents)
              /\ held' = Append(held, Object("array", at, type, Len(contents)))
              /\ UNCHANGED nesting

Contents(values) == UNION {[1 .. n -> values] : n \in 0 .. MaxCount}

AllocateArray ==
  \E t \in Types, contents \in Contents({Undefined}) : Allocate(t, t.size, contents)
CopyArray ==
  \E t \in Types, contents \in Contents(Values) : Allocate(t, t.size, contents)
CreateSubBump ==
  \E contents \in Contents({Undefined}) : Allocate(Char, SubBumpAlignment, contents)

\* A string with its terminator, wherever the arena ends.
Printf ==
  \E contents \in Contents(Values) :
    LET text == Append(contents, Terminator)
    IN  /\ CanHold
        /\ IF nesting # 0 THEN Abort("assertion")
           ELSE IF ~Fits(bytes_used + Len(text)) THEN Abort("out_of_memory")
           ELSE /\ Consume(bytes_used + Len(text))
                /\ memory' = Stored(bytes_used, 1, text)
                /\ held' = Append(held, Object("array", bytes_used, Char, Len(text)))
                /\ UNCHANGED nesting
------------------------------------------------------------------------------
(* Builders of arrays and strings.                                         *)

Last == held[Len(held)]

\* The client's youngest object is open, and younger than its marks.
Growing(kind) ==
  /\ status = "running"
  /\ held # <<>>
  /\ Last.kind = kind /\ Last.open
  /\ \A i \in DOMAIN marks : marks[i].held < Len(held)

Grow(values) ==
  /\ Consume(bytes_used + Last.type.size * Len(values))
  /\ memory' = Stored(bytes_used, Last.type.size, values)
  /\ held' = [held EXCEPT ![Len(held)].count = @ + Len(values)]
  /\ UNCHANGED nesting

Close == held' = [held EXCEPT ![Len(held)].open = FALSE]

Start(kind, type) ==
  /\ CanHold
  /\ held' = Append(held, Object(kind, bytes_used, type, 0))
  /\ UNCHANGED <<top, bytes_used, memory, marks, status>>

StartArrayBuilder ==
  /\ \E t \in Types : Start("builder", t)
  /\ nesting' = nesting + 1

Push ==
  /\ Growing("builder")
  /\ \E v \in Values :
       IF Fits(bytes_used + Last.type.size) THEN Grow(<<v>>) ELSE Abort("out_of_memory")

\* Mutant: the nesting level stays.
FinishArrayBuilderStaysNested ==
  /\ Growing("builder")
  /\ Close
  /\ UNCHANGED <<top, bytes_used, nesting, memory, marks, status>>

FinishArrayBuilder ==
  /\ Growing("builder")
  /\ Close
  /\ nesting' = nesting - 1
  /\ UNCHANGED <<top, bytes_used, memory, marks, status>>

StringBuilderCreate == Start("string", Char) /\ UNCHANGED nesting

\* previous_bytes_used is the end of the string so far.
NothingSince(string) == string.at + string.count = bytes_used

\* Mutant: no byte is left for the terminator.
StringBuilderPrintfToTheEnd ==
  /\ Growing("string")
  /\ \E contents \in Contents(Values) :
       IF NothingSince(Last) /\ Len(contents) <= MaxSize - bytes_used
       THEN Grow(contents)
       ELSE Abort("assertion")

StringBuilderPrintf ==
  /\ Growing("string")
  /\ \E contents \in Contents(Values) :
       IF NothingSince(Last) /\ Len(contents) < MaxSize - bytes_used
       THEN Grow(contents)
       ELSE Abort("assertion")

\* The terminator is written without a check that it fits.  Behind a string of
\* some characters printf has left a byte.  An empty one is finished only where
\* there is one: the arenas of main.c:60-65, parse.c:1003-1018 and
\* lower.c:1065-1086, which may print nothing, are fresh or cleared.
ByteLeft(string) == string.count = 0 => bytes_used < MaxSize

Terminate ==
  /\ memory' = Stored(bytes_used, 1, <<Terminator>>)
  /\ held' = [held EXCEPT ![Len(held)].open = FALSE, ![Len(held)].count = @ + 1]

\* Mutant: the terminator is written, and not counted.
StringBuilderFinishUncounted ==
  /\ Growing("string") /\ NothingSince(Last) /\ ByteLeft(Last)
  /\ Terminate
  /\ UNCHANGED <<top, bytes_used, nesting, marks, status>>

\* Mutant: the end of a string counts as the end of a builder.
StringBuilderFinishUnnests ==
  /\ Growing("string") /\ NothingSince(Last) /\ ByteLeft(Last)
  /\ Consume(bytes_used + 1)
  /\ Terminate
  /\ nesting' = nesting - 1

StringBuilderFinish ==
  /\ Growing("string")
  /\ IF NothingSince(Last)
     THEN /\ ByteLeft(Last)
          /\ Consume(bytes_used + 1)
          /\ Terminate
          /\ UNCHANGED nesting
     ELSE Abort("assertion")
------------------------------------------------------------------------------
(* Marks, and the client's own writes.                                     *)

CreateMark ==
  /\ status = "running"
  /\ Len(marks) < MaxMarks
  /\ marks' = Append(marks, [bytes_used |-> bytes_used, held |-> Len(held)])
  /\ UNCHANGED <<top, bytes_used, nesting, memory, held, status>>

\* To one of the marks; the client forgets it and those after it.
ClearToMark ==
  /\ status = "running"
  /\ \E m \in DOMAIN marks :
       /\ \A i \in marks[m].held + 1 .. Len(held) : ~held[i].open
       /\ IF bytes_used < marks[m].bytes_used THEN Abort("assertion")
          ELSE /\ memory' = Erased(marks[m].bytes_used, bytes_used)
               /\ bytes_used' = marks[m].bytes_used
               /\ held' = SubSeq(held, 1, marks[m].held)
               /\ marks' = SubSeq(marks, 1, m - 1)
               /\ UNCHANGED <<top, nesting, status>>

\* The client stores an element of an array it has.
ClientWrites ==
  /\ status = "running"
  /\ \E i \in DOMAIN held, v \in Values :
       \E e \in 1 .. held[i].count :
         memory' = Stored(held[i].at + (e - 1) * held[i].type.size, held[i].type.size, <<v>>)
  /\ UNCHANGED <<top, bytes_used, nesting, held, marks, status>>

Next ==
  \/ AllocateArray \/ CopyArray \/ CreateSubBump \/ Printf
  \/ StartArrayBuilder \/ Push \/ FinishArrayBuilder
  \/ StringBuilderCreate \/ StringBuilderPrintf \/ StringBuilderFinish
  \/ CreateMark \/ ClearToMark \/ ClientWrites

Spec == Init /\ [][Next]_vars
------------------------------------------------------------------------------
(* Properties.                                                             *)

TypeOK ==
  /\ top \in Tops
  /\ bytes_used \in Nat
  /\ nesting \in Nat
  /\ memory \in [0 .. MaxSize - 1 -> (Values \cup {Terminator, Undefined}) \X Nat]
  /\ held \in Seq([kind : {"array", "builder", "string"}, at : Nat, type : Types,
                   count : Nat, open : BOOLEAN])
  /\ marks \in Seq([bytes_used : Nat, held : Nat])
  /\ status \in {"running", "assertion", "out_of_memory"}

EndOfObject(o) == o.at + o.type.size * o.count

(* Nothing a client holds overlaps with another object of its, or ends     *)
(* past the arena: not even the terminator that stringBuilderFinish writes *)
(* without a check (string_builder.c:39), behind whatever was printed,     *)
(* built in between and cleared since, also nothing; nor what is left when *)
(* a nested builder has been cleared (bump.c:64-73).                       *)
ObjectsAreApart ==
  /\ bytes_used <= MaxSize
  /\ \A i \in DOMAIN held :
       EndOfObject(held[i]) <= IF i = Len(held) THEN bytes_used ELSE held[i + 1].at

(* The assertions on nesting refuse an allocation exactly while a builder  *)
(* is open, however builders, marks and strings are nested (bump.c:22-151).*)
NestingCountsBuilders ==
  nesting = Cardinality({i \in DOMAIN held : held[i].kind = "builder" /\ held[i].open})

(* Allocating by size keeps an element of an array from straddling a       *)
(* multiple of its size, wherever the arena and what was cleared before    *)
(* end (bump.c:24, 79-82), and so it is aligned as its type demands.       *)
ArraysAreAligned ==
  \A i \in DOMAIN held : held[i].kind = "array" => (top + held[i].at) % held[i].type.size = 0

(* README.md:11, the philosophy: "minimize undefined behavior".  Elements  *)
(* of a builder are accessed through pointers of their type (lex.c:157,    *)
(* parse.c:290, 480, 655, lower.c:354, 580, 659) and so must be aligned.   *)
BuildersAreAligned ==
  \A i \in DOMAIN held :
    held[i].kind = "builder" /\ held[i].count > 0 =>
      (top + held[i].at) % held[i].type.align = 0

\* What an element reads as.
Read(at, size) ==
  LET v == memory[at][1]
  IN  IF \A k \in 0 .. size - 1 : memory[at + k] = <<v, k>> THEN v ELSE Undefined

Elements(object) ==
  [e \in 1 .. object.count |->
     Read(object.at + (e - 1) * object.type.size, object.type.size)]
Abstraction == [i \in DOMAIN held |-> Elements(held[i])]

Objects == INSTANCE ObjectStack WITH Values <- Values \cup {Terminator}, objects <- Abstraction

(* The bytes implement a stack of objects: nothing but a write to an object*)
(* changes what is read from it, whatever is allocated, built, printed and *)
(* cleared meanwhile; and clearing to a mark releases what came after it,  *)
(* and no more.                                                            *)
ImplementsObjects == Objects!Spec
==============================================================================
