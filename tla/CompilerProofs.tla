----------------------------- MODULE CompilerProofs -----------------------------
(***************************************************************************)
(* Proofs about Compiler, for every AST, whatever the limits and the       *)
(* modulus of a size: frames keep their slots apart, and labels are unique *)
(* and defined where branches go.  What lowering leaves is what            *)
(* LowerProofs shows of it.                                                *)
(***************************************************************************)
EXTENDS Compiler, LowerProofs

\* Arithmetic: rounding up, and multiples of 8.

LEMMA DivisionFact ==
  ASSUME NEW x \in Nat, NEW a \in Nat \ {0}
  PROVE  /\ x \div a \in Nat
         /\ (x \div a) * a \in Nat
         /\ (x \div a) * a <= x
         /\ x < (x \div a) * a + a
  OBVIOUS

Is8(x) == \E k \in Nat : x = 8 * k

LEMMA Is8Fact ==
  ASSUME NEW x, NEW y, Is8(x), Is8(y)
  PROVE  /\ x \in Nat /\ x % 8 = 0
         /\ Is8(x + y)
         /\ \A n \in Nat : Is8(x * n) /\ Is8(n * x)
         /\ x <= y => Is8(y - x)
<1>1. PICK k \in Nat, l \in Nat : x = 8 * k /\ y = 8 * l
  BY DEF Is8
<1>2. x \in Nat /\ x % 8 = 0
  BY <1>1
<1>3. Is8(x + y)
  <2>1. x + y = 8 * (k + l) /\ k + l \in Nat
    BY <1>1
  <2> QED BY <2>1 DEF Is8
<1>4. ASSUME NEW n \in Nat PROVE Is8(x * n) /\ Is8(n * x)
  <2>1. x * n = 8 * (k * n) /\ n * x = 8 * (k * n) /\ k * n \in Nat
    BY <1>1
  <2> QED BY <2>1 DEF Is8
<1>5. ASSUME x <= y PROVE Is8(y - x)
  <2>1. y - x = 8 * (l - k) /\ l - k \in Nat
    BY <1>1, <1>5
  <2> QED BY <2>1 DEF Is8
<1> QED BY <1>2, <1>3, <1>4, <1>5

LEMMA ModuloFact ==
  ASSUME NEW x, NEW m, Is8(x), Is8(m), m # 0
  PROVE  Is8(x % m) /\ x % m < m
<1>1. x \in Nat /\ m \in Nat \ {0}
  BY Is8Fact
<1>2. PICK q \in Nat : x % m = x - m * q /\ x % m \in 0 .. m - 1
  <2>1. x % m \in 0 .. m - 1 /\ x = m * (x \div m) + (x % m) /\ x \div m \in Nat
    BY <1>1
  <2> DEFINE q == x \div m
  <2>2. q \in Nat /\ m * q \in Nat /\ x = m * q + (x % m)
    BY <2>1, <1>1
  <2>3. x % m = x - m * q
    BY <2>1, <2>2, <1>1
  <2> QED BY <2>1, <2>2, <2>3
<1>3. Is8(m * q)
  BY Is8Fact
<1>4. m * q <= x
  <2>1. PICK p \in Nat, r \in Nat : p = m * q /\ r = x % m
    BY <1>2, <1>3, Is8Fact
  <2> QED BY <1>1, <1>2, <2>1
<1>5. Is8(x - m * q)
  BY <1>3, <1>4, Is8Fact
<1> QED BY <1>1, <1>2, <1>5

--------------------------------------------------------------------------------
(* The sizes.                                                              *)

\* What CG!Size is defined to be, for the first k types.
AreSizes(f, k) == f = [t \in 1 .. k |-> CG!SizeBy(f, t)]

LEMMA SizesExist ==
  ASSUME CG!TypesAreFounded, NEW n \in Nat, DOMAIN types = 1 .. n
  PROVE  \E f : AreSizes(f, n)
<1> DEFINE Missing == {k \in 0 .. n : ~\E f : AreSizes(f, k)}
<1>1. SUFFICES ASSUME Missing # {} PROVE FALSE
  <2>1. n \in 0 .. n
    OBVIOUS
  <2> QED BY <2>1, Zenon
<1>2. \A k \in 0 .. n : k \notin Missing <=> \E f : AreSizes(f, k)
  BY Zenon
<1>3. Missing \subseteq Nat /\ Missing \subseteq 0 .. n
  OBVIOUS
<1> HIDE DEF Missing
<1>4. PICK k \in Missing : \A m \in Missing : ~(<<m, k>> \in OpToRel(<, Nat))
  BY <1>1, <1>3, NatLessThanWellFounded, WFMin
<1>5. k \in 0 .. n
  BY <1>4, <1>3
<1>6. CASE k = 0
  <2>1. PICK f : f = [t \in 1 .. 0 |-> 0]
    OBVIOUS
  <2>2. AreSizes(f, 0)
    BY <2>1 DEF AreSizes
  <2>3. \E h : AreSizes(h, k)
    BY <1>6, <2>2
  <2> QED BY <1>2, <1>4, <1>5, <2>3, Zenon
<1>7. CASE k # 0
  <2>1. PICK j \in Nat : k = j + 1
    <3>1. k - 1 \in Nat /\ k = (k - 1) + 1
      BY <1>7, <1>5
    <3> QED BY <3>1
  <2>2. j \notin Missing /\ k <= n /\ j \in 0 .. n /\ k \in 0 .. n
    <3>1. <<j, k>> \in OpToRel(<, Nat)
      BY <2>1 DEF OpToRel
    <3>2. j \notin Missing
      BY <1>4, <3>1, Zenon
    <3> QED BY <1>5, <2>1, <3>2
  <2>3. PICK f : AreSizes(f, j)
    BY <1>2, <2>2, Zenon
  <2>4. PICK g : g = [t \in 1 .. k |-> IF t < k THEN f[t] ELSE CG!SizeBy(f, k)]
    OBVIOUS
  <2>5. ASSUME NEW t \in 1 .. k PROVE g[t] = CG!SizeBy(g, t)
    <3>1. g[t] = CG!SizeBy(f, t)
      <4>1. CASE t = k
        BY <2>4, <4>1
      <4>2. CASE t # k
        <5>1. t \in 1 .. j /\ t < k
          BY <2>1, <4>2
        <5>2. g[t] = f[t] /\ f[t] = CG!SizeBy(f, t)
          BY <2>3, <2>4, <5>1 DEF AreSizes
        <5> QED BY <5>2
      <4> QED BY <4>1, <4>2
    <3>2. types[t].kind = "array" => g[types[t].child] = f[types[t].child]
      <4>1. SUFFICES ASSUME types[t].kind = "array" PROVE g[types[t].child] = f[types[t].child]
        OBVIOUS
      <4>2. t \in DOMAIN types
        BY <2>1, <2>2
      <4>3. types[t].child \in 1 .. t - 1
        BY <4>1, <4>2 DEF CG!TypesAreFounded
      <4>4. types[t].child \in 1 .. k /\ types[t].child < k
        BY <2>1, <4>3
      <4> QED BY <2>4, <4>4
    <3>3. CG!SizeBy(g, t) = CG!SizeBy(f, t)
      BY <3>2 DEF CG!SizeBy
    <3> QED BY <3>1, <3>3
  <2>6. AreSizes(g, k)
    BY <2>4, <2>5 DEF AreSizes
  <2>7. \E h : AreSizes(h, k)
    BY <2>6
  <2> QED BY <1>2, <1>4, <1>5, <2>7, Zenon
<1> QED BY <1>6, <1>7

LEMMA SizeFact ==
  ASSUME CG!TypesAreFounded, NEW t \in DOMAIN types
  PROVE  CG!Size[t] = CG!SizeBy(CG!Size, t)
<1>1. PICK n \in Nat : DOMAIN types = 1 .. n
  BY DEF CG!TypesAreFounded
<1>2. PICK f : f = CG!Size
  OBVIOUS
<1>3. AreSizes(f, n)
  <2>1. f = CHOOSE g : g = [s \in DOMAIN types |-> CG!SizeBy(g, s)]
    BY <1>2 DEF CG!Size
  <2>2. f = CHOOSE g : AreSizes(g, n)
    BY <2>1, <1>1 DEF AreSizes
  <2> QED BY <2>2, <1>1, SizesExist
<1>4. f[t] = CG!SizeBy(f, t)
  BY <1>1, <1>3 DEF AreSizes
<1> QED BY <1>2, <1>4

\* Sizes are multiples of 8, and below the modulus.
LEMMA SizesAreWords ==
  ASSUME CG!TypesAreFounded, Is8(SizeModulus), SizeModulus > 8, NEW u \in DOMAIN types
  PROVE  Is8(CG!Size[u]) /\ CG!Size[u] < SizeModulus
<1> DEFINE Fine(t) == Is8(CG!Size[t]) /\ CG!Size[t] < SizeModulus
           Bad == {t \in DOMAIN types : ~Fine(t)}
<1>1. SUFFICES ASSUME Bad # {} PROVE FALSE
  OBVIOUS
<1>2. PICK n \in Nat : DOMAIN types = 1 .. n
  BY DEF CG!TypesAreFounded
<1>3. Bad \subseteq Nat /\ Bad \subseteq DOMAIN types
      /\ \A t \in DOMAIN types : t \notin Bad <=> Fine(t)
  BY <1>2
<1> HIDE DEF Bad, Fine
<1>4. PICK t \in Bad : \A m \in Bad : ~(<<m, t>> \in OpToRel(<, Nat))
  BY <1>1, <1>3, NatLessThanWellFounded, WFMin
<1>5. t \in DOMAIN types /\ t \in Nat /\ CG!Size[t] = CG!SizeBy(CG!Size, t)
  BY <1>3, <1>4, SizeFact
<1>6. Is8(0) /\ Is8(8) /\ SizeModulus # 0 /\ 0 < SizeModulus
  BY 0 = 8 * 0, 8 = 8 * 1, Is8Fact DEF Is8
<1>7. CASE types[t].kind # "array"
  <2>1. CG!Size[t] \in {0, 8}
    BY <1>5, <1>7 DEF CG!SizeBy, CG!TypesAreFounded
  <2> QED BY <1>3, <1>4, <1>5, <1>6, <2>1 DEF Fine
<1>8. CASE types[t].kind = "array"
  <2>1. PICK c : c = types[t].child
    OBVIOUS
  <2>2. c \in 1 .. t - 1 /\ types[t].count \in Nat
    BY <1>5, <1>8, <2>1 DEF CG!TypesAreFounded
  <2>3. c \in DOMAIN types /\ c \in Nat /\ c < t
    BY <1>2, <1>5, <2>2
  <2>4. Is8(CG!Size[c])
    <3>1. <<c, t>> \in OpToRel(<, Nat)
      BY <1>5, <2>3 DEF OpToRel
    <3> QED BY <1>3, <1>4, <2>3, <3>1 DEF Fine
  <2>5. CG!Size[t] = (CG!Size[c] * types[t].count) % SizeModulus
    BY <1>5, <1>8, <2>1 DEF CG!SizeBy
  <2>6. Is8(CG!Size[c] * types[t].count)
    BY <2>2, <2>4, Is8Fact
  <2>7. Fine(t)
    BY <1>6, <2>5, <2>6, ModuloFact DEF Fine
  <2> QED BY <1>3, <1>4, <2>7
<1> QED BY <1>7, <1>8

--------------------------------------------------------------------------------
(* The slots.                                                              *)

\* What CG!Ends is defined to be, for the first k slots.
AreEnds(f, slots, k) ==
  f = [i \in 0 .. k |-> IF i = 0 THEN 0 ELSE CG!End(f[i - 1], slots[i].type)]

LEMMA EndsExist ==
  ASSUME NEW slots, NEW n \in Nat
  PROVE  \E f : AreEnds(f, slots, n)
<1> DEFINE Missing == {k \in Nat : ~\E f : AreEnds(f, slots, k)}
<1>1. SUFFICES ASSUME Missing # {} PROVE FALSE
  BY Zenon
<1>2. \A k \in Nat : k \notin Missing <=> \E f : AreEnds(f, slots, k)
  BY Zenon
<1>3. Missing \subseteq Nat
  OBVIOUS
<1> HIDE DEF Missing
<1>4. PICK k \in Missing : \A m \in Missing : ~(<<m, k>> \in OpToRel(<, Nat))
  BY <1>1, <1>3, NatLessThanWellFounded, WFMin
<1>5. k \in Nat
  BY <1>3, <1>4
<1>6. CASE k = 0
  <2>1. PICK f : f = [i \in 0 .. 0 |-> 0]
    OBVIOUS
  <2>2. AreEnds(f, slots, 0)
    BY <2>1 DEF AreEnds
  <2>3. \E h : AreEnds(h, slots, k)
    BY <1>6, <2>2
  <2> QED BY <1>2, <1>4, <1>5, <2>3, Zenon
<1>7. CASE k # 0
  <2>1. PICK j \in Nat : k = j + 1
    <3>1. k - 1 \in Nat /\ k = (k - 1) + 1
      BY <1>5, <1>7
    <3> QED BY <3>1
  <2>2. j \notin Missing
    <3>1. <<j, k>> \in OpToRel(<, Nat)
      BY <2>1 DEF OpToRel
    <3> QED BY <1>4, <3>1, Zenon
  <2>3. PICK f : AreEnds(f, slots, j)
    BY <1>2, <2>2, Zenon
  <2>4. PICK g : g = [i \in 0 .. k |-> IF i < k THEN f[i] ELSE CG!End(f[j], slots[k].type)]
    OBVIOUS
  <2>5. ASSUME NEW i \in 0 .. k
        PROVE  g[i] = IF i = 0 THEN 0 ELSE CG!End(g[i - 1], slots[i].type)
    <3>1. CASE i = k
      <4>1. i - 1 = j /\ i # 0
        BY <2>1, <3>1
      <4>2. g[i] = CG!End(f[j], slots[k].type) /\ g[j] = f[j]
        BY <2>1, <2>4, <3>1
      <4> QED BY <3>1, <4>1, <4>2
    <3>2. CASE i # k
      <4>1. i \in 0 .. j /\ i < k
        BY <2>1, <3>2
      <4>2. g[i] = f[i]
        BY <2>4, <4>1
      <4>3. f[i] = IF i = 0 THEN 0 ELSE CG!End(f[i - 1], slots[i].type)
        BY <2>3, <4>1 DEF AreEnds
      <4>4. ASSUME i # 0 PROVE g[i - 1] = f[i - 1]
        <5>1. PICK m \in 0 .. j : m = i - 1 /\ m \in 0 .. k /\ m < k
          BY <2>1, <4>1, <4>4
        <5>2. g[m] = f[m]
          BY <2>4, <5>1
        <5> QED BY <5>1, <5>2
      <4> QED BY <4>2, <4>3, <4>4
    <3> QED BY <3>1, <3>2
  <2>6. AreEnds(g, slots, k)
    BY <2>4, <2>5 DEF AreEnds
  <2>7. \E h : AreEnds(h, slots, k)
    BY <2>6
  <2> QED BY <1>2, <1>4, <1>5, <2>7, Zenon
<1> QED BY <1>6, <1>7

LEMMA EndsFact ==
  ASSUME NEW slots, Len(slots) \in Nat
  PROVE  /\ CG!Ends(slots)[0] = 0
         /\ \A i \in 1 .. Len(slots) : CG!Ends(slots)[i] = CG!End(CG!Ends(slots)[i - 1], slots[i].type)
<1>1. PICK n \in Nat : n = Len(slots)
  OBVIOUS
<1>2. PICK f : f = CG!Ends(slots)
  OBVIOUS
<1>3. AreEnds(f, slots, n)
  <2>1. f = CHOOSE g : AreEnds(g, slots, n)
    BY <1>1, <1>2 DEF CG!Ends, AreEnds
  <2> QED BY <2>1, EndsExist
<1>4. ASSUME NEW i \in 0 .. n PROVE f[i] = IF i = 0 THEN 0 ELSE CG!End(f[i - 1], slots[i].type)
  BY <1>3 DEF AreEnds
<1>5. f[0] = 0
  BY <1>4
<1>6. ASSUME NEW i \in 1 .. n PROVE f[i] = CG!End(f[i - 1], slots[i].type)
  BY <1>4, i \in 0 .. n, i # 0
<1> QED BY <1>1, <1>2, <1>5, <1>6

\* Rounding up where nothing passes the modulus.
LEMMA RoundUpFact ==
  ASSUME Is8(SizeModulus), NEW x, NEW m, Is8(x), Is8(m), m # 0, x + m <= SizeModulus
  PROVE  /\ Is8(CG!RoundUpTo(x, m))
         /\ x <= CG!RoundUpTo(x, m) /\ CG!RoundUpTo(x, m) < x + m
         /\ CG!RoundUpTo(x, m) % m = 0
<1>1. x \in Nat /\ m \in Nat \ {0} /\ SizeModulus \in Nat
  BY Is8Fact
<1>2. PICK y \in Nat : y = x + m - 1
  BY <1>1
<1>3. y % SizeModulus = y
  BY <1>1, <1>2
<1>4. PICK q \in Nat : q = y \div m /\ q * m \in Nat /\ q * m <= y /\ y < q * m + m
  BY <1>1, DivisionFact
<1>5. PICK r \in Nat : r = q * m
  BY <1>4
<1>6. r % SizeModulus = r
  BY <1>1, <1>2, <1>4, <1>5
<1>7. CG!RoundUpTo(x, m) = r
  <2>1. CG!RoundUpTo(x, m) = (((y % SizeModulus) \div m) * m) % SizeModulus
    BY <1>1, <1>2 DEF CG!RoundUpTo
  <2> QED BY <2>1, <1>3, <1>4, <1>5, <1>6
<1>8. x <= r /\ r < x + m
  BY <1>1, <1>2, <1>4, <1>5
<1>9. Is8(r)
  BY <1>5, Is8Fact
<1>10. r % m = 0
  BY <1>1, <1>5
<1> QED BY <1>7, <1>8, <1>9, <1>10

LEMMA AlignFact ==
  ASSUME CG!TypesAreFounded, Is8(SizeModulus), SizeModulus > 8, NEW t \in DOMAIN types
  PROVE  Is8(CG!Align(t))
<1>1. CASE types[t].kind = "array"
  <2>1. PICK n \in Nat : DOMAIN types = 1 .. n
    BY DEF CG!TypesAreFounded
  <2>2. PICK c : c = types[t].child
    OBVIOUS
  <2>3. c \in 1 .. t - 1
    BY <1>1, <2>2 DEF CG!TypesAreFounded
  <2>4. c \in DOMAIN types
    BY <2>1, <2>3
  <2>5. Is8(CG!Size[c]) /\ CG!Align(t) = CG!Size[c]
    BY <1>1, <2>2, <2>4, SizesAreWords DEF CG!Align
  <2> QED BY <2>5
<1>2. CASE types[t].kind # "array"
  BY <1>2, SizesAreWords DEF CG!Align
<1> QED BY <1>1, <1>2

\* A slot ends after the one before it, and starts there or later.
LEMMA SlotStep ==
  ASSUME CG!TypesAreFounded, Is8(SizeModulus), SizeModulus > 8, NEW t \in DOMAIN types, NEW x, Is8(x),
         CG!Align(t) # 0, x + CG!Align(t) + CG!Size[t] <= SizeModulus
  PROVE  Is8(CG!End(x, t)) /\ x <= CG!End(x, t) - CG!Size[t] /\ CG!Size[t] \in Nat
<1>1. PICK m, s : m = CG!Align(t) /\ s = CG!Size[t]
  OBVIOUS
<1>2. Is8(m) /\ Is8(s)
  BY <1>1, AlignFact, SizesAreWords
<1>3. m \in Nat /\ s \in Nat /\ x \in Nat /\ SizeModulus \in Nat
  BY <1>2, Is8Fact
<1>4. PICK r : r = CG!RoundUpTo(x, m)
  OBVIOUS
<1>5. Is8(r) /\ x <= r /\ r < x + m
  <2>1. x + m <= SizeModulus /\ m # 0
    BY <1>1, <1>3
  <2> QED BY <2>1, <1>2, <1>4, RoundUpFact
<1>6. r \in Nat /\ Is8(r + s)
  BY <1>2, <1>5, Is8Fact
<1>7. (r + s) % SizeModulus = r + s
  BY <1>1, <1>3, <1>5, <1>6
<1>8. CG!End(x, t) = r + s
  BY <1>1, <1>4, <1>7 DEF CG!End
<1> QED BY <1>1, <1>3, <1>5, <1>6, <1>8

\* The ends are in order.
LEMMA EndsAscend ==
  ASSUME NEW e, NEW n \in Nat, \A i \in 0 .. n : e[i] \in Nat,
         \A i \in 1 .. n : e[i - 1] <= e[i],
         NEW i \in 0 .. n, NEW j \in 0 .. n, i <= j
  PROVE  e[i] <= e[j]
<1> DEFINE Below == {k \in i .. n : ~(e[i] <= e[k])}
<1>1. SUFFICES ASSUME Below # {} PROVE FALSE
  <2>1. j \in i .. n
    OBVIOUS
  <2> QED BY <2>1, Zenon
<1>2. Below \subseteq Nat /\ Below \subseteq i .. n
  OBVIOUS
<1>3. \A k \in i .. n : k \notin Below <=> e[i] <= e[k]
  BY Zenon
<1> HIDE DEF Below
<1>4. PICK k \in Below : \A m \in Below : ~(<<m, k>> \in OpToRel(<, Nat))
  BY <1>1, <1>2, NatLessThanWellFounded, WFMin
<1>5. k \in i .. n /\ ~(e[i] <= e[k])
  BY <1>2, <1>3, <1>4, Zenon
<1>6. k # i
  BY <1>5
<1>7. PICK m \in Nat : m = k - 1 /\ m \in i .. n /\ k \in 1 .. n /\ m < k
  <2>1. k - 1 \in Nat /\ k - 1 \in i .. n /\ k \in 1 .. n /\ k - 1 < k
    BY <1>5, <1>6
  <2> QED BY <2>1
<1>8. m \notin Below
  <2>1. <<m, k>> \in OpToRel(<, Nat)
    BY <1>5, <1>7 DEF OpToRel
  <2> QED BY <1>4, <2>1, Zenon
<1>9. e[i] <= e[m]
  BY <1>3, <1>7, <1>8, Zenon
<1>10. e[m] <= e[k]
  BY <1>7
<1>11. e[i] \in Nat /\ e[m] \in Nat /\ e[k] \in Nat
  BY <1>5, <1>7
<1> QED BY <1>5, <1>9, <1>10, <1>11

\* Whatever the types and the slots are, only an alignment of zero, or an
\* offset past 2^32, could make two slots share a byte.
LEMMA SlotsOfFrameAreApart ==
  ASSUME CG!TypesAreFounded, NEW slots, NEW n \in Nat,
         n = Len(slots), DOMAIN slots = 1 .. n, \A i \in 1 .. n : slots[i].type \in DOMAIN types,
         CG!OffsetsFit(CG!Frame(slots)), ~CG!Frame(slots).zero
  PROVE  CG!SlotsAreApart(CG!Frame(slots))
<1>1. Is8(SizeModulus)
  <2>1. SizeModulus = 8 * (SizeModulus \div 8) /\ SizeModulus \div 8 \in Nat
    BY SizeModulusAssumption
  <2> QED BY <2>1 DEF Is8
<1>2. n = Len(slots) /\ DOMAIN slots = 1 .. n /\ SizeModulus > 8
  BY SizeModulusAssumption
<1>3. PICK e : e = CG!Ends(slots)
  OBVIOUS
<1>4. PICK s : s = [i \in 0 .. n |-> CG!Size[slots[i].type]]
  OBVIOUS
<1>5. e[0] = 0 /\ \A i \in 1 .. n : e[i] = CG!End(e[i - 1], slots[i].type)
  BY <1>2, <1>3, EndsFact
<1>6. \A i \in 1 .. n : slots[i].type \in DOMAIN types /\ CG!Align(slots[i].type) # 0
  <2>1. CG!Frame(slots).zero = \E i \in DOMAIN slots : CG!Align(slots[i].type) = 0
    BY DEF CG!Frame
  <2> QED BY <1>2, <2>1
<1> DEFINE frame == CG!Frame(slots)
           placed == frame.slots
<1>13. DOMAIN placed = 1 .. n
       /\ \A i \in 1 .. n : placed[i].offset = e[i] /\ placed[i].size = s[i]
                            /\ placed[i].type = slots[i].type
  BY <1>2, <1>3, <1>4, \A i \in 1 .. n : i \in 0 .. n DEF CG!Frame, CG!Placed
<1>17. /\ \A i \in 1 .. n : e[i - 1] + CG!Align(slots[i].type) + s[i] <= SizeModulus
       /\ e[n] + 16 <= SizeModulus
  <2> DEFINE before(i) == IF i = 1 THEN 0 ELSE placed[i - 1].offset
  <2>1. \A i \in DOMAIN placed :
          before(i) + CG!Align(placed[i].type) + placed[i].size <= SizeModulus
    BY DEF CG!OffsetsFit
  <2>2. before(Len(placed) + 1) + 16 <= SizeModulus
    BY DEF CG!OffsetsFit
  <2>3. Len(placed) = n
    <3>1. placed = [i \in 1 .. n |-> placed[i]]
      BY <1>2 DEF CG!Frame
    <3> HIDE DEF placed
    <3> QED BY <3>1
  <2> HIDE DEF placed
  <2>4. ASSUME NEW i \in 1 .. n + 1 PROVE before(i) = e[i - 1]
    <3>1. CASE i = 1
      BY <3>1, <1>5
    <3>2. CASE i # 1
      <4>1. i - 1 \in 1 .. n
        BY <3>2
      <4> QED BY <3>2, <4>1, <1>13
    <3> QED BY <3>1, <3>2
  <2> HIDE DEF before
  <2>5. before(n + 1) = e[n]
    <3>1. n + 1 \in 1 .. n + 1 /\ (n + 1) - 1 = n
      OBVIOUS
    <3> QED BY <3>1, <2>4
  <2>6. ASSUME NEW i \in 1 .. n
        PROVE  e[i - 1] + CG!Align(slots[i].type) + s[i] <= SizeModulus
    <3>1. before(i) = e[i - 1]
      BY <2>4, i \in 1 .. n + 1
    <3> QED BY <1>13, <2>1, <3>1
  <2> QED BY <2>2, <2>3, <2>5, <2>6
<1> HIDE DEF frame, placed
<1>7. ASSUME NEW i \in 1 .. n, Is8(e[i - 1])
      PROVE  Is8(e[i]) /\ e[i - 1] <= e[i] - s[i] /\ s[i] \in Nat
  <2>1. s[i] = CG!Size[slots[i].type]
    BY <1>4
  <2>2. e[i - 1] + CG!Align(slots[i].type) + CG!Size[slots[i].type] <= SizeModulus
    BY <1>17, <2>1
  <2>3. PICK t, x : t = slots[i].type /\ x = e[i - 1]
    OBVIOUS
  <2>4. t \in DOMAIN types /\ CG!Align(t) # 0 /\ Is8(x)
        /\ x + CG!Align(t) + CG!Size[t] <= SizeModulus
    BY <1>6, <1>7, <2>2, <2>3
  <2>5. Is8(CG!End(x, t)) /\ x <= CG!End(x, t) - CG!Size[t] /\ CG!Size[t] \in Nat
    BY <1>1, <1>2, <2>4, SlotStep
  <2>6. e[i] = CG!End(x, t)
    BY <1>5, <2>3
  <2> QED BY <2>1, <2>3, <2>5, <2>6
<1>8. \A i \in 0 .. n : Is8(e[i])
  <2> DEFINE Odd == {i \in 0 .. n : ~Is8(e[i])}
  <2>1. SUFFICES ASSUME Odd # {} PROVE FALSE
    BY Zenon
  <2>2. Odd \subseteq Nat /\ Odd \subseteq 0 .. n
    OBVIOUS
  <2>3. \A i \in 0 .. n : i \notin Odd <=> Is8(e[i])
    BY Zenon
  <2> HIDE DEF Odd
  <2>4. PICK k \in Odd : \A m \in Odd : ~(<<m, k>> \in OpToRel(<, Nat))
    BY <2>1, <2>2, NatLessThanWellFounded, WFMin
  <2>5. k \in 0 .. n /\ ~Is8(e[k])
    BY <2>2, <2>3, <2>4, Zenon
  <2>6. k # 0
    <3>1. Is8(0)
      BY 0 = 8 * 0 DEF Is8
    <3> QED BY <3>1, <2>5, <1>5
  <2>7. PICK m \in 0 .. n : m = k - 1 /\ m < k /\ k \in 1 .. n
    <3>1. k - 1 \in 0 .. n /\ k - 1 < k /\ k \in 1 .. n
      BY <2>5, <2>6
    <3> QED BY <3>1
  <2>8. m \notin Odd
    <3>1. <<m, k>> \in OpToRel(<, Nat)
      BY <2>5, <2>7 DEF OpToRel
    <3> QED BY <2>4, <3>1, Zenon
  <2>9. Is8(e[k - 1])
    BY <2>3, <2>7, <2>8
  <2> QED BY <1>7, <2>5, <2>7, <2>9
<1>9. \A i \in 0 .. n : e[i] \in Nat /\ e[i] % 8 = 0
  BY <1>8, Is8Fact
<1>10. \A i \in 1 .. n : e[i - 1] <= e[i] - s[i] /\ s[i] \in Nat /\ i \in 0 .. n /\ i - 1 \in 0 .. n
  <2>1. ASSUME NEW i \in 1 .. n
        PROVE  e[i - 1] <= e[i] - s[i] /\ s[i] \in Nat /\ i \in 0 .. n /\ i - 1 \in 0 .. n
    <3>1. i \in 0 .. n /\ i - 1 \in 0 .. n
      OBVIOUS
    <3> QED BY <3>1, <1>7, <1>8
  <2> QED BY <2>1
<1>11. \A i \in 1 .. n : e[i - 1] <= e[i]
  <2>1. ASSUME NEW i \in 1 .. n PROVE e[i - 1] <= e[i]
    <3>1. e[i - 1] \in Nat /\ e[i] \in Nat /\ s[i] \in Nat /\ e[i - 1] <= e[i] - s[i]
      BY <1>9, <1>10
    <3> QED BY <3>1
  <2> QED BY <2>1
<1>12. ASSUME NEW i \in 0 .. n, NEW j \in 0 .. n, i <= j PROVE e[i] <= e[j]
  BY <1>9, <1>11, <1>12, EndsAscend
<1>14. frame.size % 16 = 0 /\ e[n] <= frame.size /\ frame.size \in Nat
  <2>1. frame.size = CG!RoundUpTo(e[n], 16)
    BY <1>2, <1>3 DEF CG!Frame, frame
  <2>2. Is8(e[n]) /\ Is8(16) /\ e[n] + 16 <= SizeModulus
    BY <1>8, <1>17, n \in 0 .. n, 16 = 8 * 2 DEF Is8
  <2>3. PICK x, r : x = e[n] /\ r = CG!RoundUpTo(x, 16)
    OBVIOUS
  <2>4. Is8(r) /\ x <= r /\ r % 16 = 0
    BY <2>2, <2>3, <1>1, RoundUpFact
  <2> QED BY <2>1, <2>3, <2>4, Is8Fact
<1>15. ASSUME NEW i \in 1 .. n
       PROVE  e[i] % 8 = 0 /\ e[i] - s[i] >= 0 /\ e[i] <= frame.size
  <2>1. e[i] <= e[n] /\ e[i] % 8 = 0
    BY <1>9, <1>12, i \in 0 .. n, n \in 0 .. n, i <= n
  <2>2. e[i - 1] \in Nat /\ e[i] \in Nat /\ s[i] \in Nat /\ e[i - 1] <= e[i] - s[i]
    BY <1>9, <1>10
  <2>3. PICK z \in Nat : z = frame.size /\ e[n] <= z
    BY <1>14
  <2>4. PICK a \in Nat, b \in Nat, c \in Nat : a = e[i] /\ b = e[n] /\ c = s[i]
    BY <1>9, <2>2, n \in 0 .. n
  <2>5. a <= b /\ b <= z /\ a - c >= 0
    <3>1. PICK d \in Nat : d = e[i - 1]
      BY <2>2
    <3> QED BY <2>1, <2>2, <2>3, <2>4, <3>1
  <2> QED BY <2>1, <2>3, <2>4, <2>5
<1>16. ASSUME NEW i \in 1 .. n, NEW j \in 1 .. n, i < j PROVE e[i] <= e[j] - s[j]
  <2>1. PICK k \in 0 .. n : k = j - 1 /\ i <= k
    <3>1. j - 1 \in 0 .. n /\ i <= j - 1
      BY <1>16
    <3> QED BY <3>1
  <2>2. e[i] <= e[k]
    BY <1>12, <2>1, i \in 0 .. n
  <2>3. e[k] <= e[j] - s[j]
    BY <1>10, <2>1
  <2>4. e[i] \in Nat /\ e[k] \in Nat /\ e[j] \in Nat /\ s[j] \in Nat
    BY <1>9, <1>10, i \in 0 .. n, j \in 0 .. n
  <2> QED BY <2>2, <2>3, <2>4
<1>18. CG!SlotsAreApart(frame)
  BY <1>13, <1>14, <1>15, <1>16 DEF CG!SlotsAreApart, placed
<1> QED BY <1>18 DEF frame

--------------------------------------------------------------------------------
(* The HIR that codegen reads.                                             *)

UnaryKinds == {"address_of", "dereference", "return"}
BinaryKinds == BinaryOperators \cup {"index", "assign", "while"}
ListKinds == {"array_literal", "block"}
LeafKinds == {"missing", "int_literal", "variable"}

\* The operands of a node are nodes before it.
Ordered(n) ==
  LET d == nodes[n].data
      kind == nodes[n].kind
  IN  /\ kind \in UnaryKinds => Len(d) = 1 /\ d[1] \in 1 .. n - 1
      /\ kind \in BinaryKinds => Len(d) = 2 /\ d[1] \in 1 .. n - 1 /\ d[2] \in 1 .. n - 1
      /\ kind = "if" => /\ Len(d) = 3 /\ d[1] \in 1 .. n - 1 /\ d[2] \in 1 .. n - 1
                        /\ d[3] # NoNode => d[3] \in 1 .. n - 1
      /\ kind \in ListKinds => /\ d[1] \in Int /\ d[2] \in Nat
                               /\ \A i \in 0 .. d[2] - 1 : d[1] + i \in 1 .. n - 1

NodeIsOrdered(n) ==
  /\ nodes[n].kind \in UnaryKinds \cup BinaryKinds \cup ListKinds \cup LeafKinds \cup {"if"}
  /\ nodes[n].type \in DOMAIN types
  /\ nodes[n].kind = "array_literal" => types[nodes[n].type].kind = "array"
  /\ nodes[n].data \in Seq(Int)
  /\ Ordered(n)

HirIsOrdered ==
  /\ CG!TypesAreFounded
  /\ \E k \in Nat : DOMAIN nodes = 1 .. k
  /\ \A n \in DOMAIN nodes : NodeIsOrdered(n)
  /\ \A l \in DOMAIN locals : locals[l].type \in DOMAIN types
  /\ IsSequence(functions)
  /\ \A f \in DOMAIN functions :
       /\ functions[f].body \in DOMAIN nodes
       /\ functions[f].locals_count \in Nat
       /\ \A i \in 1 .. functions[f].locals_count : functions[f].locals_start + i \in DOMAIN locals

\* The table of types is one that codegen can add sizes up of.
LEMMA TypesFounded ==
  ASSUME IInv
  PROVE  CG!TypesAreFounded
<1>2. TypesFit(types) /\ types \in Seq(TypeEntries)
  BY TablesFact
<1>3. PICK n \in Nat : n = Len(types) /\ DOMAIN types = 1 .. n
  BY <1>2
<1>4. ASSUME NEW t \in 1 .. n
      PROVE  /\ types[t].kind \in {"void", "i64", "pointer", "array"}
             /\ types[t].kind = "array" => types[t].child \in 1 .. t - 1 /\ types[t].count \in Nat
  <2>1. types[t] \in TypeEntries /\ EntryFits(types[t], 1 .. t - 1)
    BY <1>2, <1>3 DEF TypesFit
  <2> QED BY <2>1 DEF TypeEntries, TypeKinds, EntryFits
<1> QED BY <1>3, <1>4 DEF CG!TypesAreFounded

LEMMA NodesOrdered ==
  ASSUME IInv, NodesFormTrees, NEW n \in DOMAIN nodes
  PROVE  NodeIsOrdered(n)
<1>1. nodes \in Seq(NodesOf(Now)) /\ Now.types = types /\ Now.nodes = nodes /\ TablesFit(Now)
  BY TablesFact DEF IInv
<1>2. DOMAIN types = 1 .. Len(types) /\ DOMAIN nodes = 1 .. Len(nodes) /\ n \in Nat
  BY <1>1, TablesFact
<1>3. Sound(Now, nodes[n])
  BY <1>1, <1>2 DEF TablesFit
<1>4. PICK x : x = nodes[n]
  OBVIOUS
<1>5. x \in NodesOf(Now) /\ Refers(Now, x) /\ Typed(Now, x) /\ HasOperands(x)
  BY <1>3, <1>4 DEF Sound
<1>6. x.kind \in NodeKinds /\ x.type \in DOMAIN types /\ x.data \in Seq(Int)
  BY <1>1, <1>2, <1>5 DEF NodesOf
<1>7. Children(x) \subseteq 1 .. n - 1
  BY <1>4 DEF NodesFormTrees
<1>8. PICK d \in Seq(Int) : d = x.data
  BY <1>6
<1>9. PICK kind : kind = x.kind
  OBVIOUS
<1>10. ASSUME NEW i \in DOMAIN d, d[i] # NoNode, kind \notin ListKinds \cup LeafKinds
       PROVE  d[i] \in 1 .. n - 1
  <2>1. Children(x) = {d[j] : j \in DOMAIN d} \ {NoNode}
    BY <1>8, <1>9, <1>10 DEF Children, ListKinds, LeafKinds
  <2> QED BY <1>7, <1>10, <2>1
<1>11. ASSUME kind \in UnaryKinds
       PROVE  Len(d) = 1 /\ d[1] \in 1 .. n - 1
  <2>1. Len(d) = 1 /\ 1 \in DOMAIN d
    BY <1>5, <1>8, <1>9, <1>11 DEF HasOperands, UnaryKinds
  <2>2. d[1] # NoNode
    BY <1>5, <1>8, <1>9, <1>11 DEF HasOperands, UnaryKinds, Refers, NoNode
  <2>3. kind \notin ListKinds \cup LeafKinds
    BY <1>11 DEF ListKinds, LeafKinds, UnaryKinds
  <2> QED BY <1>10, <2>1, <2>2, <2>3
<1>12. ASSUME kind \in BinaryKinds
       PROVE  Len(d) = 2 /\ d[1] \in 1 .. n - 1 /\ d[2] \in 1 .. n - 1
  <2>1. Len(d) = 2 /\ 1 \in DOMAIN d /\ 2 \in DOMAIN d
    BY <1>5, <1>8, <1>9, <1>12 DEF HasOperands, BinaryKinds
  <2>2. d[1] # NoNode /\ d[2] # NoNode
    BY <1>5, <1>8, <1>9, <1>12 DEF HasOperands, BinaryKinds, Refers, NoNode
  <2>3. kind \notin ListKinds \cup LeafKinds
    BY <1>12 DEF ListKinds, LeafKinds, BinaryKinds, BinaryOperators
  <2> QED BY <1>10, <2>1, <2>2, <2>3
<1>13. ASSUME kind = "if"
       PROVE  /\ Len(d) = 3 /\ d[1] \in 1 .. n - 1 /\ d[2] \in 1 .. n - 1
              /\ d[3] # NoNode => d[3] \in 1 .. n - 1
  <2>1. Len(d) = 3 /\ 1 \in DOMAIN d /\ 2 \in DOMAIN d /\ 3 \in DOMAIN d
    BY <1>5, <1>8, <1>9, <1>13 DEF HasOperands
  <2>2. d[1] # NoNode /\ d[2] # NoNode
    BY <1>5, <1>8, <1>9, <1>13 DEF HasOperands
  <2>3. kind \notin ListKinds \cup LeafKinds
    BY <1>13 DEF ListKinds, LeafKinds
  <2> QED BY <1>10, <2>1, <2>2, <2>3
<1>14. ASSUME kind \in ListKinds
       PROVE  /\ d[1] \in Int /\ d[2] \in Nat
              /\ \A i \in 0 .. d[2] - 1 : d[1] + i \in 1 .. n - 1
  <2>1. Len(d) = 2 /\ d[2] \in Nat /\ d[1] \in Int
    BY <1>5, <1>8, <1>9, <1>14 DEF HasOperands, ListKinds
  <2>2. Children(x) = d[1] .. d[1] + d[2] - 1
    BY <1>8, <1>9, <1>14 DEF Children, ListKinds
  <2> QED BY <1>7, <2>1, <2>2
<1>15. kind \in UnaryKinds \cup BinaryKinds \cup ListKinds \cup LeafKinds \cup {"if"}
  BY <1>6, <1>9 DEF NodeKinds, UnaryKinds, BinaryKinds, ListKinds, LeafKinds
<1>16. kind = "array_literal" => types[x.type].kind = "array"
  BY <1>1, <1>5, <1>9 DEF Typed
<1>17. Ordered(n)
  BY <1>4, <1>8, <1>9, <1>11, <1>12, <1>13, <1>14 DEF Ordered
<1> QED BY <1>4, <1>6, <1>9, <1>15, <1>16, <1>17 DEF NodeIsOrdered

LEMMA HirFact ==
  ASSUME IInv, TreesInv
  PROVE  HirIsOrdered
<1>1. NodesFormTrees
  BY TreesForm
<1>2. CG!TypesAreFounded
  BY TypesFounded
<1>3. DOMAIN nodes = 1 .. Len(nodes) /\ Len(nodes) \in Nat
  BY TablesFact
<1>4. \A n \in DOMAIN nodes : NodeIsOrdered(n)
  BY <1>1, NodesOrdered
<1>5. DOMAIN locals = 1 .. Len(locals) /\ \A l \in DOMAIN locals : locals[l].type \in DOMAIN types
  <2>1. locals \in Seq(LocalsOf(Now)) /\ Now.types = types /\ types \in Seq(TypeEntries)
    BY TablesFact
  <2>2. DOMAIN locals = 1 .. Len(locals) /\ DOMAIN types = 1 .. Len(types)
    BY <2>1
  <2>3. ASSUME NEW l \in DOMAIN locals PROVE locals[l].type \in DOMAIN types
    <3>1. locals[l] \in LocalsOf(Now)
      BY <2>1, <2>2
    <3>2. locals[l].type \in 1 .. Len(types)
      BY <2>1, <3>1 DEF LocalsOf
    <3> QED BY <2>2, <3>2
  <2> QED BY <2>2, <2>3
<1>6. FunctionsFit /\ Len(locals) \in Nat
  BY TablesFact DEF IInv
<1>7. ASSUME NEW f \in DOMAIN functions
      PROVE  /\ functions[f].body \in DOMAIN nodes
             /\ functions[f].locals_count \in Nat
             /\ \A i \in 1 .. functions[f].locals_count : functions[f].locals_start + i \in DOMAIN locals
  <2>1. PICK s, c : s = functions[f].locals_start /\ c = functions[f].locals_count
    OBVIOUS
  <2>2. functions[f].body \in DOMAIN nodes /\ s \in Nat /\ c \in Nat /\ s + c \in 0 .. Len(locals)
    BY <1>6, <2>1 DEF FunctionsFit
  <2>3. \A i \in 1 .. c : s + i \in 1 .. Len(locals)
    BY <1>6, <2>2
  <2> QED BY <1>5, <2>1, <2>2, <2>3
<1>8. IsSequence(functions)
  BY <1>6 DEF FunctionsFit
<1> QED BY <1>2, <1>3, <1>4, <1>5, <1>7, <1>8 DEF HirIsOrdered

--------------------------------------------------------------------------------
(* The array literals of a function.                                       *)

LEMMA BelowFact ==
  ASSUME NEW n \in Nat, NodeIsOrdered(n)
  PROVE  /\ Len(CG!Below(n)) \in Nat /\ DOMAIN CG!Below(n) = 1 .. Len(CG!Below(n))
         /\ \A i \in 1 .. Len(CG!Below(n)) : CG!Below(n)[i] \in 1 .. n - 1
<1>1. PICK d, kind : d = nodes[n].data /\ kind = nodes[n].kind
  OBVIOUS
<1>2. PICK b : b = CG!Below(n)
  OBVIOUS
<1>3. /\ d \in Seq(Int)
      /\ kind \in UnaryKinds \cup BinaryKinds \cup ListKinds \cup LeafKinds \cup {"if"}
  BY <1>1 DEF NodeIsOrdered
<1>4. CASE kind \in LeafKinds
  <2>1. b = <<>>
    BY <1>1, <1>2, <1>4 DEF CG!Below, LeafKinds
  <2> QED BY <1>2, <2>1
<1>5. CASE kind \in UnaryKinds
  <2>1. b = d
    BY <1>1, <1>2, <1>5 DEF CG!Below, UnaryKinds
  <2>2. Len(d) = 1 /\ d[1] \in 1 .. n - 1
    BY <1>1, <1>5 DEF NodeIsOrdered, Ordered
  <2> QED BY <1>2, <1>3, <2>1, <2>2
<1>6. CASE kind \in BinaryKinds
  <2>1. b = IF kind = "index" THEN <<d[2], d[1]>> ELSE d
    BY <1>1, <1>2, <1>6 DEF CG!Below, BinaryKinds, BinaryOperators
  <2>2. Len(d) = 2 /\ d[1] \in 1 .. n - 1 /\ d[2] \in 1 .. n - 1
    BY <1>1, <1>6 DEF NodeIsOrdered, Ordered
  <2>3. b \in Seq(Int) /\ Len(b) = 2 /\ b[1] \in 1 .. n - 1 /\ b[2] \in 1 .. n - 1
    BY <1>3, <2>1, <2>2
  <2> QED BY <1>2, <2>3
<1>7. CASE kind = "if"
  <2>1. b = IF d[3] = NoNode THEN <<d[1], d[2]>> ELSE d
    BY <1>1, <1>2, <1>7 DEF CG!Below, CG!NoNode, NoNode
  <2>2. /\ Len(d) = 3 /\ d[1] \in 1 .. n - 1 /\ d[2] \in 1 .. n - 1
        /\ d[3] # NoNode => d[3] \in 1 .. n - 1
    BY <1>1, <1>7 DEF NodeIsOrdered, Ordered
  <2>3. CASE d[3] = NoNode
    BY <1>2, <2>1, <2>2, <2>3
  <2>4. CASE d[3] # NoNode
    <3>1. b = d /\ Len(b) = 3 /\ b \in Seq(Int)
      BY <1>3, <2>1, <2>2, <2>4
    <3>2. \A i \in 1 .. 3 : b[i] \in 1 .. n - 1
      <4>1. \A i \in 1 .. 3 : i = 1 \/ i = 2 \/ i = 3
        OBVIOUS
      <4> QED BY <2>2, <2>4, <3>1, <4>1
    <3> QED BY <1>2, <3>1, <3>2
  <2> QED BY <2>3, <2>4
<1>8. CASE kind \in ListKinds
  <2>1. b = [i \in 1 .. d[2] |-> d[1] + i - 1]
    BY <1>1, <1>2, <1>8 DEF CG!Below, CG!List, ListKinds
  <2>2. d[1] \in Int /\ d[2] \in Nat /\ \A i \in 0 .. d[2] - 1 : d[1] + i \in 1 .. n - 1
    BY <1>1, <1>8 DEF NodeIsOrdered, Ordered
  <2>3. DOMAIN b = 1 .. d[2] /\ Len(b) = d[2]
    BY <2>1, <2>2
  <2>4. ASSUME NEW i \in 1 .. d[2] PROVE b[i] \in 1 .. n - 1
    <3>1. PICK j \in 0 .. d[2] - 1 : j = i - 1 /\ b[i] = d[1] + j
      BY <2>1, <2>2
    <3> QED BY <2>2, <3>1
  <2> QED BY <1>2, <2>2, <2>3, <2>4
<1> QED BY <1>3, <1>4, <1>5, <1>6, <1>7, <1>8

\* What is concatenated of some sequences in CG!Concatenated.
AreConcatenated(u, parts, k) ==
  u = [i \in 0 .. k |-> IF i = 0 THEN <<>> ELSE u[i - 1] \o parts[i]]

LEMMA ConcatenatedExist ==
  ASSUME NEW parts, NEW n \in Nat
  PROVE  \E u : AreConcatenated(u, parts, n)
<1> DEFINE Missing == {k \in Nat : ~\E u : AreConcatenated(u, parts, k)}
<1>1. SUFFICES ASSUME Missing # {} PROVE FALSE
  BY Zenon
<1>2. \A k \in Nat : k \notin Missing <=> \E u : AreConcatenated(u, parts, k)
  BY Zenon
<1>3. Missing \subseteq Nat
  OBVIOUS
<1> HIDE DEF Missing
<1>4. PICK k \in Missing : \A m \in Missing : ~(<<m, k>> \in OpToRel(<, Nat))
  BY <1>1, <1>3, NatLessThanWellFounded, WFMin
<1>5. k \in Nat
  BY <1>3, <1>4
<1>6. CASE k = 0
  <2>1. PICK u : u = [i \in 0 .. 0 |-> <<>>]
    OBVIOUS
  <2>2. AreConcatenated(u, parts, 0)
    BY <2>1 DEF AreConcatenated
  <2>3. \E v : AreConcatenated(v, parts, k)
    BY <1>6, <2>2
  <2> QED BY <1>2, <1>4, <1>5, <2>3, Zenon
<1>7. CASE k # 0
  <2>1. PICK j \in Nat : k = j + 1
    <3>1. k - 1 \in Nat /\ k = (k - 1) + 1
      BY <1>5, <1>7
    <3> QED BY <3>1
  <2>2. j \notin Missing
    <3>1. <<j, k>> \in OpToRel(<, Nat)
      BY <2>1 DEF OpToRel
    <3> QED BY <1>4, <3>1, Zenon
  <2>3. PICK u : AreConcatenated(u, parts, j)
    BY <1>2, <2>2, Zenon
  <2>4. PICK v : v = [i \in 0 .. k |-> IF i < k THEN u[i] ELSE u[j] \o parts[k]]
    OBVIOUS
  <2>5. ASSUME NEW i \in 0 .. k
        PROVE  v[i] = IF i = 0 THEN <<>> ELSE v[i - 1] \o parts[i]
    <3>1. CASE i = k
      <4>1. i - 1 = j /\ i # 0
        BY <2>1, <3>1
      <4>2. v[i] = u[j] \o parts[k] /\ v[j] = u[j]
        BY <2>1, <2>4, <3>1
      <4> QED BY <3>1, <4>1, <4>2
    <3>2. CASE i # k
      <4>1. i \in 0 .. j /\ i < k
        BY <2>1, <3>2
      <4>2. v[i] = u[i]
        BY <2>4, <4>1
      <4>3. u[i] = IF i = 0 THEN <<>> ELSE u[i - 1] \o parts[i]
        BY <2>3, <4>1 DEF AreConcatenated
      <4>4. ASSUME i # 0 PROVE v[i - 1] = u[i - 1]
        <5>1. PICK m \in 0 .. j : m = i - 1 /\ m \in 0 .. k /\ m < k
          BY <2>1, <4>1, <4>4
        <5>2. v[m] = u[m]
          BY <2>4, <5>1
        <5> QED BY <5>1, <5>2
      <4> QED BY <4>2, <4>3, <4>4
    <3> QED BY <3>1, <3>2
  <2>6. AreConcatenated(v, parts, k)
    BY <2>4, <2>5 DEF AreConcatenated
  <2>7. \E x : AreConcatenated(x, parts, k)
    BY <2>6
  <2> QED BY <1>2, <1>4, <1>5, <2>7, Zenon
<1> QED BY <1>6, <1>7

LEMMA ConcatenatedFact ==
  ASSUME NEW S, NEW n \in Nat, NEW parts, \A i \in 1 .. n : parts[i] \in Seq(S)
  PROVE  CG!Concatenated(parts, n) \in Seq(S)
<1>1. PICK u : u = CHOOSE v : AreConcatenated(v, parts, n)
  OBVIOUS
<1>2. AreConcatenated(u, parts, n)
  BY <1>1, ConcatenatedExist
<1>3. CG!Concatenated(parts, n) = u[n]
  BY <1>1 DEF CG!Concatenated, AreConcatenated
<1>4. \A i \in 0 .. n : u[i] = IF i = 0 THEN <<>> ELSE u[i - 1] \o parts[i]
  BY <1>2 DEF AreConcatenated
<1> DEFINE Bad == {i \in 0 .. n : u[i] \notin Seq(S)}
<1>5. SUFFICES ASSUME Bad # {} PROVE FALSE
  BY <1>3, n \in 0 .. n
<1>6. Bad \subseteq Nat /\ Bad \subseteq 0 .. n /\ \A i \in 0 .. n : i \notin Bad <=> u[i] \in Seq(S)
  OBVIOUS
<1> HIDE DEF Bad
<1>7. PICK i \in Bad : \A m \in Bad : ~(<<m, i>> \in OpToRel(<, Nat))
  BY <1>5, <1>6, NatLessThanWellFounded, WFMin
<1>8. i \in 0 .. n /\ u[i] \notin Seq(S)
  BY <1>6, <1>7, Zenon
<1>9. i # 0
  <2>1. u[0] = <<>>
    BY <1>4
  <2>2. <<>> \in Seq(S)
    OBVIOUS
  <2> QED BY <1>8, <2>1, <2>2
<1>10. PICK m \in 0 .. n : m = i - 1 /\ m < i /\ i \in 1 .. n
  <2>1. i - 1 \in 0 .. n /\ i - 1 < i /\ i \in 1 .. n
    BY <1>8, <1>9
  <2> QED BY <2>1
<1>11. m \notin Bad
  <2>1. <<m, i>> \in OpToRel(<, Nat)
    BY <1>8, <1>10 DEF OpToRel
  <2> QED BY <1>7, <2>1, Zenon
<1>12. u[m] \in Seq(S) /\ parts[i] \in Seq(S)
  BY <1>6, <1>10, <1>11, Zenon
<1>13. u[i] = u[m] \o parts[i]
  BY <1>4, <1>8, <1>9, <1>10
<1> QED BY <1>8, <1>12, <1>13, ConcatProperties

\* What CG!Literals is defined to be, for the first k nodes.
AreLiterals(f, k) == f = [n \in 1 .. k |-> CG!LiteralsBy(f, n)]

LEMMA LiteralsOfSame ==
  ASSUME NEW n \in Nat, NodeIsOrdered(n), NEW f, NEW g, \A i \in 1 .. n - 1 : f[i] = g[i]
  PROVE  CG!LiteralsBy(f, n) = CG!LiteralsBy(g, n)
<1>1. PICK b : b = CG!Below(n)
  OBVIOUS
<1>2. DOMAIN b = 1 .. Len(b) /\ \A i \in 1 .. Len(b) : b[i] \in 1 .. n - 1
  BY <1>1, BelowFact
<1>3. [i \in DOMAIN b |-> f[b[i]]] = [i \in DOMAIN b |-> g[b[i]]]
  BY <1>2
<1> QED BY <1>1, <1>3 DEF CG!LiteralsBy

LEMMA LiteralsExist ==
  ASSUME NEW n \in Nat, \A i \in 1 .. n : NodeIsOrdered(i)
  PROVE  \E f : AreLiterals(f, n)
<1> DEFINE Missing == {k \in 0 .. n : ~\E f : AreLiterals(f, k)}
<1>1. SUFFICES ASSUME Missing # {} PROVE FALSE
  <2>1. n \in 0 .. n
    OBVIOUS
  <2> QED BY <2>1, Zenon
<1>2. \A k \in 0 .. n : k \notin Missing <=> \E f : AreLiterals(f, k)
  BY Zenon
<1>3. Missing \subseteq Nat /\ Missing \subseteq 0 .. n
  OBVIOUS
<1> HIDE DEF Missing
<1>4. PICK k \in Missing : \A m \in Missing : ~(<<m, k>> \in OpToRel(<, Nat))
  BY <1>1, <1>3, NatLessThanWellFounded, WFMin
<1>5. k \in 0 .. n
  BY <1>4, <1>3
<1>6. CASE k = 0
  <2>1. PICK f : f = [t \in 1 .. 0 |-> 0]
    OBVIOUS
  <2>2. AreLiterals(f, 0)
    BY <2>1 DEF AreLiterals
  <2>3. \E h : AreLiterals(h, k)
    BY <1>6, <2>2
  <2> QED BY <1>2, <1>4, <1>5, <2>3, Zenon
<1>7. CASE k # 0
  <2>1. PICK j \in Nat : k = j + 1
    <3>1. k - 1 \in Nat /\ k = (k - 1) + 1
      BY <1>7, <1>5
    <3> QED BY <3>1
  <2>2. j \notin Missing /\ k <= n /\ j \in 0 .. n /\ k \in 0 .. n
    <3>1. <<j, k>> \in OpToRel(<, Nat)
      BY <2>1 DEF OpToRel
    <3>2. j \notin Missing
      BY <1>4, <3>1, Zenon
    <3> QED BY <1>5, <2>1, <3>2
  <2>3. PICK f : AreLiterals(f, j)
    BY <1>2, <2>2, Zenon
  <2>4. PICK g : g = [i \in 1 .. k |-> IF i < k THEN f[i] ELSE CG!LiteralsBy(f, k)]
    OBVIOUS
  <2>5. ASSUME NEW i \in 1 .. k PROVE g[i] = CG!LiteralsBy(g, i)
    <3>1. g[i] = CG!LiteralsBy(f, i)
      <4>1. CASE i = k
        BY <2>4, <4>1
      <4>2. CASE i # k
        <5>1. i \in 1 .. j /\ i < k
          BY <2>1, <4>2
        <5>2. g[i] = f[i] /\ f[i] = CG!LiteralsBy(f, i)
          BY <2>3, <2>4, <5>1 DEF AreLiterals
        <5> QED BY <5>2
      <4> QED BY <4>1, <4>2
    <3>2. \A m \in 1 .. i - 1 : f[m] = g[m]
      <4>1. \A m \in 1 .. i - 1 : m \in 1 .. k /\ m < k
        BY <2>1
      <4> QED BY <2>4, <4>1
    <3>3. i \in Nat /\ NodeIsOrdered(i)
      BY <2>1, <2>2
    <3> QED BY <3>1, <3>2, <3>3, LiteralsOfSame
  <2>6. AreLiterals(g, k)
    BY <2>4, <2>5 DEF AreLiterals
  <2>7. \E h : AreLiterals(h, k)
    BY <2>6
  <2> QED BY <1>2, <1>4, <1>5, <2>7, Zenon
<1> QED BY <1>6, <1>7

LEMMA LiteralsAreNodes ==
  ASSUME HirIsOrdered, NEW root \in DOMAIN nodes
  PROVE  CG!Literals[root] \in Seq(DOMAIN nodes)
<1>1. PICK n \in Nat : DOMAIN nodes = 1 .. n
  BY DEF HirIsOrdered
<1>2. \A i \in 1 .. n : NodeIsOrdered(i)
  BY <1>1 DEF HirIsOrdered
<1>3. PICK f : f = CG!Literals
  OBVIOUS
<1>4. AreLiterals(f, n)
  <2>1. f = CHOOSE g : g = [i \in DOMAIN nodes |-> CG!LiteralsBy(g, i)]
    BY <1>3 DEF CG!Literals
  <2>2. f = CHOOSE g : AreLiterals(g, n)
    BY <2>1, <1>1 DEF AreLiterals
  <2> QED BY <2>2, <1>2, LiteralsExist
<1>5. \A i \in 1 .. n : f[i] = CG!LiteralsBy(f, i)
  BY <1>4 DEF AreLiterals
<1> DEFINE Bad == {i \in 1 .. n : f[i] \notin Seq(1 .. n)}
<1>6. SUFFICES ASSUME Bad # {} PROVE FALSE
  BY <1>1, <1>3
<1>7. Bad \subseteq Nat /\ Bad \subseteq 1 .. n
      /\ \A i \in 1 .. n : i \notin Bad <=> f[i] \in Seq(1 .. n)
  OBVIOUS
<1> HIDE DEF Bad
<1>8. PICK i \in Bad : \A m \in Bad : ~(<<m, i>> \in OpToRel(<, Nat))
  BY <1>6, <1>7, NatLessThanWellFounded, WFMin
<1>9. i \in 1 .. n /\ f[i] \notin Seq(1 .. n) /\ i \in Nat /\ NodeIsOrdered(i)
  BY <1>2, <1>7, <1>8
<1>10. PICK b, k : b = CG!Below(i) /\ k = Len(b)
  OBVIOUS
<1>11. k \in Nat /\ DOMAIN b = 1 .. k /\ \A x \in 1 .. k : b[x] \in 1 .. i - 1
  BY <1>9, <1>10, BelowFact
<1>12. ASSUME NEW m \in 1 .. i - 1 PROVE f[m] \in Seq(1 .. n)
  <2>1. <<m, i>> \in OpToRel(<, Nat) /\ m \in 1 .. n
    BY <1>9 DEF OpToRel
  <2>2. m \notin Bad
    BY <1>8, <2>1, Zenon
  <2> QED BY <1>7, <2>1, <2>2, Zenon
<1>13. PICK parts : parts = [x \in DOMAIN b |-> f[b[x]]]
  OBVIOUS
<1>14. \A x \in 1 .. k : parts[x] \in Seq(1 .. n)
  BY <1>11, <1>12, <1>13
<1>15. CG!Concatenated(parts, k) \in Seq(1 .. n)
  BY <1>11, <1>14, ConcatenatedFact
<1>16. PICK c : c = CG!Concatenated(parts, k)
  OBVIOUS
<1>17. CG!LiteralsBy(f, i) = IF nodes[i].kind = "array_literal" THEN Append(c, i) ELSE c
  BY <1>10, <1>13, <1>16 DEF CG!LiteralsBy
<1>18. c \in Seq(1 .. n) /\ Append(c, i) \in Seq(1 .. n)
  BY <1>9, <1>15, <1>16
<1> QED BY <1>5, <1>9, <1>17, <1>18

--------------------------------------------------------------------------------
(* Frames.                                                                 *)

LEMMA SlotsFact ==
  ASSUME HirIsOrdered, NEW f \in DOMAIN functions
  PROVE  LET slots == CG!Slots(functions[f])
         IN  \E n \in Nat : /\ n = Len(slots) /\ DOMAIN slots = 1 .. n
                            /\ \A i \in 1 .. n : slots[i].type \in DOMAIN types
<1>1. PICK g : g = functions[f]
  OBVIOUS
<1>2. PICK literals : literals = CG!Literals[g.body]
  OBVIOUS
<1>3. /\ g.body \in DOMAIN nodes /\ g.locals_count \in Nat
      /\ \A i \in 1 .. g.locals_count : g.locals_start + i \in DOMAIN locals
  BY <1>1 DEF HirIsOrdered
<1>4. literals \in Seq(DOMAIN nodes)
  BY <1>2, <1>3, LiteralsAreNodes
<1> DEFINE Local(i) == CG!Slot("local", i, locals[i].type)
           Literal(n) == CG!Slot("literal", n, nodes[n].type)
           s == [i \in 1 .. g.locals_count |-> Local(g.locals_start + i)]
           t == [i \in 1 .. Len(literals) |-> Literal(literals[i])]
           S == {x \in {s[i] : i \in DOMAIN s} \cup {t[i] : i \in DOMAIN t} : x.type \in DOMAIN types}
<1>5. CG!Slots(g) = s \o t
  BY <1>2 DEF CG!Slots
<1>6. \A i \in 1 .. g.locals_count : s[i].type \in DOMAIN types
  BY <1>3 DEF CG!Slot, HirIsOrdered
<1>7. \A i \in 1 .. Len(literals) : t[i].type \in DOMAIN types
  <2>1. \A n \in DOMAIN nodes : nodes[n].type \in DOMAIN types
    BY DEF HirIsOrdered, NodeIsOrdered
  <2>2. \A i \in 1 .. Len(literals) : literals[i] \in DOMAIN nodes
    BY <1>4
  <2> QED BY <2>1, <2>2 DEF CG!Slot
<1>8. s \in Seq(S)
  <2>1. DOMAIN s = 1 .. g.locals_count
    OBVIOUS
  <2>2. \A i \in 1 .. g.locals_count : s[i] \in S
    BY <1>6, <2>1
  <2> HIDE DEF s, S
  <2>3. s = [i \in 1 .. g.locals_count |-> s[i]]
    BY <2>1 DEF s
  <2> QED BY <1>3, <2>2, <2>3
<1>9. t \in Seq(S)
  <2>1. DOMAIN t = 1 .. Len(literals) /\ Len(literals) \in Nat
    BY <1>4
  <2>2. \A i \in 1 .. Len(literals) : t[i] \in S
    BY <1>7, <2>1
  <2> HIDE DEF t, S
  <2>3. t = [i \in 1 .. Len(literals) |-> t[i]]
    BY <2>1 DEF t
  <2> QED BY <2>1, <2>2, <2>3
<1>10. \A x \in S : x.type \in DOMAIN types
  OBVIOUS
<1> HIDE DEF s, t, S
<1>11. PICK u : u = s \o t
  OBVIOUS
<1>12. u \in Seq(S)
  BY <1>8, <1>9, <1>11, ConcatProperties
<1>13. Len(u) \in Nat /\ DOMAIN u = 1 .. Len(u) /\ \A i \in 1 .. Len(u) : u[i].type \in DOMAIN types
  BY <1>10, <1>12
<1> QED BY <1>1, <1>5, <1>11, <1>13

LEMMA FrameOfFunction ==
  ASSUME HirIsOrdered, NEW f \in DOMAIN functions, NEW frame, frame = CG!Layout(functions[f]),
         ~frame.zero, CG!OffsetsFit(frame)
  PROVE  CG!SlotsAreApart(frame)
<1>1. PICK slots : slots = CG!Slots(functions[f])
  OBVIOUS
<1>2. frame = CG!Frame(slots)
  BY <1>1 DEF CG!Layout
<1>3. PICK n \in Nat : /\ n = Len(slots) /\ DOMAIN slots = 1 .. n
                       /\ \A i \in 1 .. n : slots[i].type \in DOMAIN types
  BY <1>1, SlotsFact
<1> QED BY <1>2, <1>3, SlotsOfFrameAreApart DEF HirIsOrdered

--------------------------------------------------------------------------------
(* Steps.                                                                  *)

LEMMA SameTypesSameSizes ==
  ASSUME types' = types
  PROVE  CG!Size' = CG!Size
BY DEF CG!Size, CG!SizeBy

LEMMA LoweringRuns ==
  ASSUME Next
  PROVE  status = "running"
<1>1. CASE SkipFunction \/ BeginFunction \/ EndFunction \/ EndLower
  BY <1>1 DEF SkipFunction, BeginFunction, EndFunction, EndLower, Idle, At
<1>2. CASE Expressions
  BY <1>2 DEF Expressions, LowerMissing, LowerLiteral, LowerVariable, UndefinedVariable,
    BeginOperands, AllocateOperand, FinishBinaryOperation, FinishAddressOf, FinishDereference,
    DereferenceOfNonPointer, FinishIndex, IndexIsNotAnInteger, IndexOfNonArray, BeginArray,
    BeginElement, EndElement, MistypedElement, EndArray, Lowering, Finishing, At
<1>3. CASE Statements
  BY <1>3 DEF Statements, BeginControlFlow, FinishControlFlow, ShadowingDefinition,
    BeginDefinition, FinishDefinition, BeginAssign, BeginAssignedValue, FinishAssign,
    MismatchedAssign, BeginBlock, BeginBlockStatement, EndBlockStatement, EndBlock,
    Lowering, Finishing, At
<1> QED BY <1>1, <1>2, <1>3 DEF Next

\* Lowering is done before code is generated, and each function has its frame.
FramesInv ==
  /\ IInv /\ TreesInv
  /\ IsSequence(frames) /\ Len(frames) = generated /\ generated \in 0 .. Len(functions)
  /\ status # "done" => generated = 0 /\ assembly = <<>>
  /\ FramesAreDisjoint

LEMMA FramesInit ==
  ASSUME CompilerInit
  PROVE  FramesInv
<1>1. IInv /\ TreesInv
  BY InitInv, InitTrees DEF CompilerInit
<1>2. frames = <<>> /\ generated = 0 /\ assembly = <<>>
  BY DEF CompilerInit, CG!Init
<1>3. Len(functions) \in Nat
  BY <1>1, CallsFact
<1> QED BY <1>1, <1>2, <1>3 DEF FramesInv, IsSequence, FramesAreDisjoint, CG!FramesAreDisjoint

LEMMA FramesLower ==
  ASSUME FramesInv, LowerStep
  PROVE  FramesInv'
<1>1. (IInv /\ TreesInv)'
  BY NextInv, NextTrees DEF FramesInv, LowerStep
<1>2. status # "done" /\ UNCHANGED generating
  BY LoweringRuns DEF LowerStep
<1>3. /\ generated = 0 /\ generated' = 0 /\ assembly' = <<>>
      /\ frames' = frames /\ IsSequence(frames) /\ Len(frames) = 0
  BY <1>2 DEF FramesInv, generating
<1>4. DOMAIN frames' = {}
  BY <1>3, SequenceFact
<1>5. Len(functions)' \in Nat
  BY <1>1 DEF IInv, FunctionsFit, IsSequence
<1> QED BY <1>1, <1>3, <1>4, <1>5 DEF FramesInv, IsSequence, FramesAreDisjoint, CG!FramesAreDisjoint

LEMMA FramesApart ==
  ASSUME types' = types,
         generated' \in DOMAIN frames' =>
           LET frame == frames'[generated']
           IN  ~frame.zero /\ CG!OffsetsFit(frame) => CG!SlotsAreApart(frame)
  PROVE  FramesAreDisjoint'
<1> SUFFICES ASSUME generated' \in DOMAIN frames', ~frames'[generated'].zero,
                    CG!OffsetsFit(frames[generated])'
             PROVE  CG!SlotsAreApart(frames[generated])'
  BY DEF FramesAreDisjoint, CG!FramesAreDisjoint
<1>1. \A t : CG!Align(t)' = CG!Align(t)
  BY SameTypesSameSizes DEF CG!Align
<1>2. CG!OffsetsFit(frames'[generated'])
  BY <1>1 DEF CG!OffsetsFit
<1>3. CG!SlotsAreApart(frames'[generated'])
  BY <1>2
<1> QED BY <1>3 DEF CG!SlotsAreApart

LEMMA FramesGenerate ==
  ASSUME FramesInv, status = "done", CG!GenerateFunction, UNCHANGED lowering
  PROVE  FramesInv'
<1>1. UNCHANGED vars /\ types' = types /\ functions' = functions
  BY DEF CG!GenerateFunction, CG!hir, lowering, vars, hir
<1>2. (IInv /\ TreesInv)'
  BY <1>1, NextInv, NextTrees DEF FramesInv
<1>3. status' = "done"
  BY <1>1 DEF vars
<1>4. PICK n \in Nat : n = generated /\ n < Len(functions) /\ Len(functions) \in Nat
  <2>1. Len(functions) \in Nat
    BY CallsFact DEF FramesInv
  <2>2. generated \in 0 .. Len(functions) /\ generated < Len(functions)
    BY DEF FramesInv, CG!GenerateFunction
  <2>3. PICK m : m = generated
    OBVIOUS
  <2> QED BY <2>1, <2>2, <2>3
<1>5. CASE frames' = frames /\ generated' = generated
  <2>1. FramesAreDisjoint'
    BY <1>1, <1>5, FramesApart DEF FramesInv, FramesAreDisjoint, CG!FramesAreDisjoint
  <2> QED BY <1>1, <1>2, <1>3, <1>5, <2>1 DEF FramesInv, IsSequence
<1>6. CASE /\ frames' = Append(frames, CG!Layout(functions[generated + 1]))
           /\ generated' = generated + 1
  <2>1. PICK frame : frame = CG!Layout(functions[n + 1])
    OBVIOUS
  <2>2. frames' = Append(frames, frame) /\ generated' = n + 1
    BY <1>4, <1>6, <2>1
  <2>3. /\ IsSequence(Append(frames, frame)) /\ DOMAIN Append(frames, frame) = 1 .. n + 1
        /\ Append(frames, frame)[n + 1] = frame
    BY <1>4, SequenceFact DEF FramesInv
  <2>4. Len(frames') = n + 1 /\ generated' \in 0 .. Len(functions) /\ IsSequence(frames')
    BY <1>4, <2>2, <2>3 DEF IsSequence
  <2>5. ASSUME ~frame.zero, CG!OffsetsFit(frame) PROVE CG!SlotsAreApart(frame)
    <3>1. n + 1 \in DOMAIN functions
      BY <1>4, SequenceFact DEF FramesInv, IInv, FunctionsFit
    <3> QED BY <2>1, <2>5, <3>1, HirFact, FrameOfFunction DEF FramesInv
  <2>6. FramesAreDisjoint'
    BY <1>1, <2>2, <2>3, <2>5, FramesApart
  <2> QED BY <1>1, <1>2, <1>3, <2>2, <2>4, <2>6 DEF FramesInv
<1> QED BY <1>5, <1>6 DEF CG!GenerateFunction

LEMMA FramesUnchanged ==
  ASSUME FramesInv, UNCHANGED <<vars, frames, generated, assembly>>
  PROVE  FramesInv'
<1>1. types' = types /\ functions' = functions /\ status' = status
  BY DEF vars, hir
<1>2. (IInv /\ TreesInv)'
  BY NextInv, NextTrees DEF FramesInv
<1>3. FramesAreDisjoint'
  BY <1>1, FramesApart DEF FramesInv, FramesAreDisjoint, CG!FramesAreDisjoint
<1> QED BY <1>1, <1>2, <1>3 DEF FramesInv, IsSequence

LEMMA FramesNext == FramesInv /\ [CompilerNext]_compilerVars => FramesInv'
<1> SUFFICES ASSUME FramesInv, [CompilerNext]_compilerVars PROVE FramesInv'
  OBVIOUS
<1>1. CASE LowerStep
  BY <1>1, FramesLower
<1>2. CASE CodegenStep
  <2>1. CASE CG!GenerateFunction
    BY <1>2, <2>1, FramesGenerate DEF CodegenStep
  <2>2. CASE CG!EndCodegen
    <3>1. UNCHANGED <<vars, frames, generated, assembly>>
      BY <1>2, <2>2 DEF CodegenStep, CG!EndCodegen, CG!hir, lowering, vars, hir
    <3> QED BY <3>1, FramesUnchanged
  <2> QED BY <1>2, <2>1, <2>2 DEF CodegenStep, CG!Next
<1>3. CASE ShowErrors \/ WriteAssembly \/ UNCHANGED compilerVars
  <2>1. UNCHANGED <<vars, frames, generated, assembly>>
    BY <1>3 DEF ShowErrors, WriteAssembly, compilerVars, generating
  <2> QED BY <2>1, FramesUnchanged
<1> QED BY <1>1, <1>2, <1>3 DEF CompilerNext

(* Whatever the AST and its types are, no two slots of a frame share a     *)
(* byte, and each is aligned and inside the frame, as far as no type has   *)
(* size zero and no offset passes 2^32 (codegen.c:138-147, 497-511).       *)
THEOREM FramesAreKeptApart == CompilerSpec => []FramesAreDisjoint
<1>1. CompilerInit => FramesInv
  BY FramesInit
<1>2. FramesInv => FramesAreDisjoint
  BY DEF FramesInv
<1> QED BY <1>1, <1>2, FramesNext, PTL DEF CompilerSpec

--------------------------------------------------------------------------------
(* Code, by the labels it defines and branches to.                         *)

DefinedAt(code) == {i \in DOMAIN code : code[i][1] = "label"}
BranchesAt(code) == {i \in DOMAIN code : code[i][1] \in {"b", "cbz"}}

\* The code defines the labels of D, each once, and branches to those of W only.
Contains(code, D, W) ==
  /\ IsSequence(code)
  /\ \A i \in DefinedAt(code) : code[i][2] \in D
  /\ \A x \in D : \E i \in DefinedAt(code) : code[i][2] = x
  /\ \A i, j \in DefinedAt(code) : code[i][2] = code[j][2] => i = j
  /\ \A i \in BranchesAt(code) : code[i][2] \in W

LEMMA ConcatFact ==
  ASSUME NEW s, NEW t, IsSequence(s), IsSequence(t)
  PROVE  /\ IsSequence(s \o t) /\ Len(s) \in Nat /\ Len(t) \in Nat
         /\ DOMAIN s = 1 .. Len(s) /\ DOMAIN t = 1 .. Len(t)
         /\ DOMAIN (s \o t) = 1 .. Len(s) + Len(t)
         /\ \A i \in 1 .. Len(s) : (s \o t)[i] = s[i]
         /\ \A i \in 1 .. Len(t) : (s \o t)[Len(s) + i] = t[i]
<1>1. PICK S : S = {s[i] : i \in DOMAIN s} \cup {t[i] : i \in DOMAIN t}
  OBVIOUS
<1>2. s \in Seq(S) /\ t \in Seq(S)
  <2>1. s \in Seq({s[i] : i \in DOMAIN s}) /\ t \in Seq({t[i] : i \in DOMAIN t})
    BY DEF IsSequence
  <2>2. \A U, V : U \subseteq V => Seq(U) \subseteq Seq(V)
    OBVIOUS
  <2>3. {s[i] : i \in DOMAIN s} \subseteq S /\ {t[i] : i \in DOMAIN t} \subseteq S
    BY <1>1
  <2> QED BY <2>1, <2>2, <2>3, Zenon
<1>3. PICK u : u = s \o t
  OBVIOUS
<1>4. /\ u \in Seq(S) /\ Len(u) = Len(s) + Len(t)
      /\ \A i \in 1 .. Len(s) + Len(t) : u[i] = IF i <= Len(s) THEN s[i] ELSE t[i - Len(s)]
  BY <1>2, <1>3, ConcatProperties
<1>5. Len(s) \in Nat /\ Len(t) \in Nat /\ DOMAIN s = 1 .. Len(s) /\ DOMAIN t = 1 .. Len(t)
  BY <1>2
<1>6. DOMAIN u = 1 .. Len(u)
  BY <1>4
<1>7. IsSequence(u)
  <2>1. u = [i \in 1 .. Len(u) |-> u[i]] /\ Len(u) \in Nat
    BY <1>4
  <2>2. PICK U : U = {u[i] : i \in DOMAIN u}
    OBVIOUS
  <2>3. \A i \in 1 .. Len(u) : u[i] \in U
    BY <1>6, <2>2
  <2>4. u \in Seq(U)
    BY <2>1, <2>3
  <2> QED BY <2>2, <2>4 DEF IsSequence
<1>8. \A i \in 1 .. Len(s) : u[i] = s[i]
  BY <1>4, <1>5
<1>9. ASSUME NEW i \in 1 .. Len(t) PROVE u[Len(s) + i] = t[i]
  <2>1. PICK k : k = Len(s) + i /\ k \in 1 .. Len(s) + Len(t) /\ ~(k <= Len(s)) /\ k - Len(s) = i
    BY <1>5
  <2> QED BY <1>4, <2>1
<1> QED BY <1>3, <1>4, <1>5, <1>6, <1>7, <1>8, <1>9

LEMMA ContainsConcat ==
  ASSUME NEW s, NEW D, NEW V, Contains(s, D, V),
         NEW t, NEW E, NEW W, Contains(t, E, W), D \cap E = {}
  PROVE  Contains(s \o t, D \cup E, V \cup W)
<1>1. PICK u, k, l : u = s \o t /\ k = Len(s) /\ l = Len(t)
  OBVIOUS
<1>2. /\ IsSequence(u) /\ k \in Nat /\ l \in Nat
      /\ DOMAIN s = 1 .. k /\ DOMAIN t = 1 .. l /\ DOMAIN u = 1 .. k + l
      /\ \A i \in 1 .. k : u[i] = s[i]
      /\ \A i \in 1 .. l : u[k + i] = t[i]
  BY <1>1, ConcatFact DEF Contains
<1>3. \A i \in DOMAIN u : i \in 1 .. k \/ \E m \in 1 .. l : i = k + m
  <2>1. ASSUME NEW i \in DOMAIN u, i \notin 1 .. k PROVE \E m \in 1 .. l : i = k + m
    <3>1. i - k \in 1 .. l /\ i = k + (i - k)
      BY <1>2, <2>1
    <3> QED BY <3>1
  <2> QED BY <2>1
<1>4. ASSUME NEW i \in DefinedAt(u)
      PROVE  \/ i \in DefinedAt(s) /\ i \in 1 .. k /\ u[i] = s[i] /\ u[i][2] \in D
             \/ \E m \in DefinedAt(t) : i = k + m /\ m \in 1 .. l /\ u[i] = t[m] /\ u[i][2] \in E
  <2>1. CASE i \in 1 .. k
    <3>1. u[i] = s[i] /\ i \in DefinedAt(s)
      BY <1>2, <2>1 DEF DefinedAt
    <3> QED BY <2>1, <3>1 DEF Contains
  <2>2. CASE \E m \in 1 .. l : i = k + m
    <3>1. PICK m \in 1 .. l : i = k + m
      BY <2>2
    <3>2. u[i] = t[m] /\ m \in DefinedAt(t)
      BY <1>2, <3>1 DEF DefinedAt
    <3> QED BY <3>1, <3>2 DEF Contains
  <2> QED BY <1>3, <2>1, <2>2 DEF DefinedAt
<1>5. \A i \in DefinedAt(u) : u[i][2] \in D \cup E
  BY <1>4
<1>6. ASSUME NEW x \in D \cup E PROVE \E i \in DefinedAt(u) : u[i][2] = x
  <2>1. CASE x \in D
    <3>1. PICK i \in DefinedAt(s) : s[i][2] = x
      BY <2>1 DEF Contains
    <3>2. i \in DOMAIN u /\ u[i] = s[i]
      BY <1>2 DEF DefinedAt
    <3> QED BY <3>1, <3>2 DEF DefinedAt
  <2>2. CASE x \in E
    <3>1. PICK m \in DefinedAt(t) : t[m][2] = x
      BY <2>2 DEF Contains
    <3>2. PICK i : i = k + m /\ i \in DOMAIN u /\ u[i] = t[m]
      BY <1>2 DEF DefinedAt
    <3> QED BY <3>1, <3>2 DEF DefinedAt
  <2> QED BY <2>1, <2>2
<1>7. ASSUME NEW i \in DefinedAt(u), NEW j \in DefinedAt(u), u[i][2] = u[j][2] PROVE i = j
  <2>1. PICK y : y = u[i][2] /\ y = u[j][2]
    BY <1>7
  <2>2. CASE y \in D
    <3>1. i \in DefinedAt(s) /\ j \in DefinedAt(s) /\ u[i] = s[i] /\ u[j] = s[j]
      BY <1>4, <2>1, <2>2
    <3>2. s[i][2] = s[j][2]
      BY <2>1, <3>1
    <3>3. \A a, b \in DefinedAt(s) : s[a][2] = s[b][2] => a = b
      BY DEF Contains
    <3> QED BY <3>1, <3>2, <3>3, Zenon
  <2>3. CASE y \in E
    <3>1. PICK m \in DefinedAt(t), n \in DefinedAt(t) :
            i = k + m /\ j = k + n /\ u[i] = t[m] /\ u[j] = t[n]
      BY <1>4, <2>1, <2>3
    <3>2. t[m][2] = t[n][2]
      BY <2>1, <3>1
    <3>3. \A a, b \in DefinedAt(t) : t[a][2] = t[b][2] => a = b
      BY DEF Contains
    <3>4. m = n
      BY <3>1, <3>2, <3>3, Zenon
    <3> QED BY <3>1, <3>4
  <2> QED BY <1>5, <2>1, <2>2, <2>3
<1>8. ASSUME NEW i \in BranchesAt(u) PROVE u[i][2] \in V \cup W
  <2>1. CASE i \in 1 .. k
    <3>1. u[i] = s[i] /\ i \in BranchesAt(s)
      BY <1>2, <2>1 DEF BranchesAt
    <3> QED BY <3>1 DEF Contains
  <2>2. CASE \E m \in 1 .. l : i = k + m
    <3>1. PICK m \in 1 .. l : i = k + m
      BY <2>2
    <3>2. u[i] = t[m] /\ m \in BranchesAt(t)
      BY <1>2, <3>1 DEF BranchesAt
    <3> QED BY <3>2 DEF Contains
  <2> QED BY <1>3, <2>1, <2>2 DEF BranchesAt
<1>9. Contains(u, D \cup E, V \cup W)
  BY <1>2, <1>5, <1>6, <1>7, <1>8 DEF Contains
<1> QED BY <1>1, <1>9

\* Code without labels and branches.
IsPlain(code) ==
  IsSequence(code) /\ \A i \in DOMAIN code : code[i][1] \notin {"label", "b", "cbz"}

LEMMA PlainContains ==
  ASSUME NEW code, IsPlain(code), NEW W
  PROVE  Contains(code, {}, W)
<1>1. DefinedAt(code) = {} /\ BranchesAt(code) = {}
  BY DEF IsPlain, DefinedAt, BranchesAt
<1> QED BY <1>1 DEF IsPlain, Contains

LEMMA MoreWanted ==
  ASSUME NEW code, NEW D, NEW V, Contains(code, D, V), NEW W, V \subseteq W
  PROVE  Contains(code, D, W)
BY DEF Contains

LEMMA BranchContains ==
  ASSUME NEW x, NEW o \in {"b", "cbz"}
  PROVE  Contains(<<<<o, x>>>>, {}, {x})
<1>1. PICK code : code = <<<<o, x>>>>
  OBVIOUS
<1>2. IsSequence(code) /\ DOMAIN code = 1 .. 1 /\ code[1] = <<o, x>>
  BY <1>1 DEF IsSequence
<1>3. DefinedAt(code) = {} /\ \A i \in BranchesAt(code) : code[i][2] = x
  BY <1>2 DEF DefinedAt, BranchesAt
<1>4. Contains(code, {}, {x})
  BY <1>2, <1>3 DEF Contains
<1> QED BY <1>1, <1>4

LEMMA LabelContains ==
  ASSUME NEW x
  PROVE  Contains(<<CG!Label(x)>>, {x}, {})
<1>1. PICK code : code = <<CG!Label(x)>>
  OBVIOUS
<1>2. IsSequence(code) /\ DOMAIN code = 1 .. 1 /\ code[1] = <<"label", x>>
  BY <1>1 DEF IsSequence, CG!Label
<1>3. DefinedAt(code) = {1} /\ BranchesAt(code) = {} /\ code[1][2] = x
  BY <1>2 DEF DefinedAt, BranchesAt
<1>4. Contains(code, {x}, {})
  BY <1>2, <1>3 DEF Contains
<1> QED BY <1>1, <1>4

LEMMA BranchAndLabelContains ==
  ASSUME NEW x, NEW y
  PROVE  Contains(<<<<"b", y>>, CG!Label(x)>>, {x}, {y})
<1>1. PICK code : code = <<<<"b", y>>, CG!Label(x)>>
  OBVIOUS
<1>2. IsSequence(code) /\ DOMAIN code = 1 .. 2 /\ code[1] = <<"b", y>> /\ code[2] = <<"label", x>>
  BY <1>1 DEF IsSequence, CG!Label
<1>3. DefinedAt(code) = {2} /\ BranchesAt(code) = {1} /\ code[1][2] = y /\ code[2][2] = x
  BY <1>2 DEF DefinedAt, BranchesAt
<1>4. Contains(code, {x}, {y})
  BY <1>2, <1>3 DEF Contains
<1> QED BY <1>1, <1>4

--------------------------------------------------------------------------------
(* Pieces of code, by the counter of labels.                               *)

LabelWords == {"ELSE", "ENDIF", "WHILE", "ENDWHILE"}
Numbered(name, low, high) == {<<word, name, i>> : word \in LabelWords, i \in low .. high - 1}
ReturnLabel(name) == <<"RETURN", name>>

\* From a counter of `low` on, the labels of p are those of X, and some that
\* are numbered from the counter before p to the counter after it.  Branches
\* go to these labels, to those of V, or to the end of the function.
Part(p, name, low, X, V) ==
  \A id \in Nat : id >= low =>
    /\ p[id].id \in Nat /\ p[id].id >= id
    /\ \E D \in SUBSET Numbered(name, id, p[id].id) :
         Contains(p[id].code, D \cup X, D \cup V \cup {ReturnLabel(name)})

IsPiece(p, name) == Part(p, name, 0, {}, {})

LEMMA NumberedFact ==
  ASSUME NEW name, NEW k \in Nat, NEW l \in Nat, NEW m \in Nat, k <= l, l <= m
  PROVE  /\ Numbered(name, k, l) \subseteq Numbered(name, k, m)
         /\ Numbered(name, l, m) \subseteq Numbered(name, k, m)
         /\ Numbered(name, k, l) \cap Numbered(name, l, m) = {}
<1>1. \A i \in k .. l - 1 : i \in k .. m - 1 /\ i \notin l .. m - 1
  OBVIOUS
<1>2. \A i \in l .. m - 1 : i \in k .. m - 1
  OBVIOUS
<1>3. Numbered(name, k, l) \subseteq Numbered(name, k, m)
  <2> SUFFICES ASSUME NEW v \in LabelWords, NEW i \in k .. l - 1
               PROVE  <<v, name, i>> \in Numbered(name, k, m)
    BY DEF Numbered
  <2> QED BY <1>1 DEF Numbered
<1>4. Numbered(name, l, m) \subseteq Numbered(name, k, m)
  <2> SUFFICES ASSUME NEW v \in LabelWords, NEW i \in l .. m - 1
               PROVE  <<v, name, i>> \in Numbered(name, k, m)
    BY DEF Numbered
  <2> QED BY <1>2 DEF Numbered
<1>5. ASSUME NEW x \in Numbered(name, k, l), x \in Numbered(name, l, m) PROVE FALSE
  <2>1. PICK v \in LabelWords, i \in k .. l - 1 : x = <<v, name, i>>
    BY DEF Numbered
  <2>2. PICK w \in LabelWords, j \in l .. m - 1 : x = <<w, name, j>>
    BY <1>5 DEF Numbered
  <2>3. i = j
    BY <2>1, <2>2
  <2> QED BY <1>1, <2>3
<1> QED BY <1>3, <1>4, <1>5

LEMMA LaterPart ==
  ASSUME NEW p, NEW name, NEW low \in Nat, NEW X, NEW V, Part(p, name, low, X, V),
         NEW high \in Nat, low <= high
  PROVE  Part(p, name, high, X, V)
<1>1. \A id \in Nat : id >= high => id >= low
  OBVIOUS
<1> QED BY <1>1 DEF Part

LEMMA EmitPart ==
  ASSUME NEW code, NEW name, NEW low \in Nat, NEW X, NEW V,
         Contains(code, X, V \cup {ReturnLabel(name)})
  PROVE  Part(CG!Emit(code), name, low, X, V)
<1>1. PICK p : p = CG!Emit(code)
  OBVIOUS
<1> SUFFICES ASSUME NEW id \in Nat
             PROVE  /\ p[id].id \in Nat /\ p[id].id >= id
                    /\ \E D \in SUBSET Numbered(name, id, p[id].id) :
                         Contains(p[id].code, D \cup X, D \cup V \cup {ReturnLabel(name)})
  BY <1>1 DEF Part
<1>2. p[id].id = id /\ p[id].code = code
  BY <1>1 DEF CG!Emit, CG!Emits
<1>3. {} \in SUBSET Numbered(name, id, id) /\ {} \cup X = X
      /\ {} \cup V \cup {ReturnLabel(name)} = V \cup {ReturnLabel(name)}
  OBVIOUS
<1>4. Contains(code, {} \cup X, {} \cup V \cup {ReturnLabel(name)})
  BY <1>3, Zenon
<1>5. {} \in SUBSET Numbered(name, id, p[id].id)
  OBVIOUS
<1>6. Contains(p[id].code, {} \cup X, {} \cup V \cup {ReturnLabel(name)})
  BY <1>2, <1>4, Zenon
<1>7. p[id].id \in Nat /\ p[id].id >= id
  BY <1>2
<1> QED BY <1>5, <1>6, <1>7, Zenon

LEMMA PlainPiece ==
  ASSUME NEW code, IsPlain(code), NEW name
  PROVE  IsPiece(CG!Emit(code), name)
<1>1. Contains(code, {}, {} \cup {ReturnLabel(name)})
  BY PlainContains
<1> QED BY <1>1, EmitPart DEF IsPiece

LEMMA EmptyPiece ==
  ASSUME NEW name, NEW found, NEW failed
  PROVE  IsPiece(CG!Emits(<<>>, found, failed), name)
<1>1. PICK p : p = CG!Emits(<<>>, found, failed)
  OBVIOUS
<1>2. IsPlain(<<>>)
  BY DEF IsPlain, IsSequence
<1>3. IsPiece(CG!Emit(<<>>), name)
  BY <1>2, PlainPiece
<1>4. PICK q : q = CG!Emit(<<>>)
  OBVIOUS
<1>5. \A id \in Nat : p[id].id = q[id].id /\ p[id].code = q[id].code
  BY <1>1, <1>4 DEF CG!Emit, CG!Emits
<1>6. IsPiece(p, name)
  BY <1>3, <1>4, <1>5 DEF IsPiece, Part
<1> QED BY <1>1, <1>6

LEMMA NothingPiece ==
  ASSUME NEW name
  PROVE  IsPiece(CG!Emit(<<>>), name)
BY EmptyPiece DEF CG!Emit

LEMMA ThenPart ==
  ASSUME NEW name, NEW low \in Nat,
         NEW p, NEW X, NEW V, Part(p, name, low, X, V), X \subseteq Numbered(name, 0, low),
         NEW q, NEW Y, NEW W, Part(q, name, low, Y, W), Y \subseteq Numbered(name, 0, low),
         X \cap Y = {}
  PROVE  Part(CG!Then(p, q), name, low, X \cup Y, V \cup W)
<1>1. PICK r : r = CG!Then(p, q)
  OBVIOUS
<1> SUFFICES ASSUME NEW id \in Nat, id >= low
             PROVE  /\ r[id].id \in Nat /\ r[id].id >= id
                    /\ \E D \in SUBSET Numbered(name, id, r[id].id) :
                         Contains(r[id].code, D \cup (X \cup Y),
                                  D \cup (V \cup W) \cup {ReturnLabel(name)})
  BY <1>1 DEF Part
<1>2. PICK k, l, s, t : k = p[id].id /\ l = q[k].id /\ s = p[id].code /\ t = q[k].code
  OBVIOUS
<1>3. r[id].id = l /\ r[id].code = s \o t
  BY <1>1, <1>2 DEF CG!Then
<1>4. k \in Nat /\ id <= k
  BY <1>2 DEF Part
<1>5. PICK D \in SUBSET Numbered(name, id, k) :
        Contains(s, D \cup X, D \cup V \cup {ReturnLabel(name)})
  BY <1>2 DEF Part
<1>6. low <= k
  BY <1>4
<1>7. l \in Nat /\ k <= l
  BY <1>2, <1>4, <1>6 DEF Part
<1>8. PICK E \in SUBSET Numbered(name, k, l) :
        Contains(t, E \cup Y, E \cup W \cup {ReturnLabel(name)})
  BY <1>2, <1>4, <1>6 DEF Part
<1>9. /\ Numbered(name, id, k) \subseteq Numbered(name, id, l)
      /\ Numbered(name, k, l) \subseteq Numbered(name, id, l)
      /\ Numbered(name, id, k) \cap Numbered(name, k, l) = {}
  BY <1>4, <1>7, NumberedFact
<1>10. Numbered(name, 0, low) \cap Numbered(name, id, l) = {}
  <2>1. Numbered(name, 0, id) \cap Numbered(name, id, l) = {}
    <3>1. 0 \in Nat /\ 0 <= id /\ id <= l
      BY <1>4, <1>7
    <3> QED BY <1>7, <3>1, NumberedFact
  <2>2. Numbered(name, 0, low) \subseteq Numbered(name, 0, id)
    BY NumberedFact
  <2> QED BY <2>1, <2>2
<1>11. (D \cup X) \cap (E \cup Y) = {}
  BY <1>5, <1>8, <1>9, <1>10
<1>12. Contains(s \o t, (D \cup X) \cup (E \cup Y),
                (D \cup V \cup {ReturnLabel(name)}) \cup (E \cup W \cup {ReturnLabel(name)}))
  BY <1>5, <1>8, <1>11, ContainsConcat
<1>13. PICK F : F = D \cup E
  OBVIOUS
<1>14. /\ F \in SUBSET Numbered(name, id, l)
       /\ (D \cup X) \cup (E \cup Y) = F \cup (X \cup Y)
       /\ (D \cup V \cup {ReturnLabel(name)}) \cup (E \cup W \cup {ReturnLabel(name)})
          = F \cup (V \cup W) \cup {ReturnLabel(name)}
  BY <1>5, <1>8, <1>9, <1>13
<1>15. Contains(s \o t, F \cup (X \cup Y), F \cup (V \cup W) \cup {ReturnLabel(name)})
  BY <1>12, <1>14, Zenon
<1>16. l >= id
  BY <1>4, <1>7
<1> QED BY <1>3, <1>7, <1>14, <1>15, <1>16

LEMMA ThenPiece ==
  ASSUME NEW name, NEW p, IsPiece(p, name), NEW q, IsPiece(q, name)
  PROVE  IsPiece(CG!Then(p, q), name)
<1>1. Part(CG!Then(p, q), name, 0, {} \cup {}, {} \cup {})
  BY ThenPart DEF IsPiece
<1> QED BY <1>1 DEF IsPiece

\* What CG!InOrder puts together.
AreInOrder(u, pieces, k) ==
  u = [i \in 0 .. k |-> IF i = 0 THEN CG!Emit(<<>>) ELSE CG!Then(u[i - 1], pieces[i])]

LEMMA InOrderExist ==
  ASSUME NEW pieces, NEW n \in Nat
  PROVE  \E u : AreInOrder(u, pieces, n)
<1> DEFINE Missing == {k \in Nat : ~\E u : AreInOrder(u, pieces, k)}
<1>1. SUFFICES ASSUME Missing # {} PROVE FALSE
  BY Zenon
<1>2. \A k \in Nat : k \notin Missing <=> \E u : AreInOrder(u, pieces, k)
  BY Zenon
<1>3. Missing \subseteq Nat
  OBVIOUS
<1> HIDE DEF Missing
<1>4. PICK k \in Missing : \A m \in Missing : ~(<<m, k>> \in OpToRel(<, Nat))
  BY <1>1, <1>3, NatLessThanWellFounded, WFMin
<1>5. k \in Nat
  BY <1>3, <1>4
<1>6. CASE k = 0
  <2>1. PICK u : u = [i \in 0 .. 0 |-> CG!Emit(<<>>)]
    OBVIOUS
  <2>2. AreInOrder(u, pieces, 0)
    BY <2>1 DEF AreInOrder
  <2>3. \E v : AreInOrder(v, pieces, k)
    BY <1>6, <2>2
  <2> QED BY <1>2, <1>4, <1>5, <2>3, Zenon
<1>7. CASE k # 0
  <2>1. PICK j \in Nat : k = j + 1
    <3>1. k - 1 \in Nat /\ k = (k - 1) + 1
      BY <1>5, <1>7
    <3> QED BY <3>1
  <2>2. j \notin Missing
    <3>1. <<j, k>> \in OpToRel(<, Nat)
      BY <2>1 DEF OpToRel
    <3> QED BY <1>4, <3>1, Zenon
  <2>3. PICK u : AreInOrder(u, pieces, j)
    BY <1>2, <2>2, Zenon
  <2>4. PICK v : v = [i \in 0 .. k |-> IF i < k THEN u[i] ELSE CG!Then(u[j], pieces[k])]
    OBVIOUS
  <2>5. ASSUME NEW i \in 0 .. k
        PROVE  v[i] = IF i = 0 THEN CG!Emit(<<>>) ELSE CG!Then(v[i - 1], pieces[i])
    <3>1. CASE i = k
      <4>1. i - 1 = j /\ i # 0
        BY <2>1, <3>1
      <4>2. v[i] = CG!Then(u[j], pieces[k]) /\ v[j] = u[j]
        BY <2>1, <2>4, <3>1
      <4> QED BY <3>1, <4>1, <4>2
    <3>2. CASE i # k
      <4>1. i \in 0 .. j /\ i < k
        BY <2>1, <3>2
      <4>2. v[i] = u[i]
        BY <2>4, <4>1
      <4>3. u[i] = IF i = 0 THEN CG!Emit(<<>>) ELSE CG!Then(u[i - 1], pieces[i])
        BY <2>3, <4>1 DEF AreInOrder
      <4>4. ASSUME i # 0 PROVE v[i - 1] = u[i - 1]
        <5>1. PICK m \in 0 .. j : m = i - 1 /\ m \in 0 .. k /\ m < k
          BY <2>1, <4>1, <4>4
        <5>2. v[m] = u[m]
          BY <2>4, <5>1
        <5> QED BY <5>1, <5>2
      <4> QED BY <4>2, <4>3, <4>4
    <3> QED BY <3>1, <3>2
  <2>6. AreInOrder(v, pieces, k)
    BY <2>4, <2>5 DEF AreInOrder
  <2>7. \E x : AreInOrder(x, pieces, k)
    BY <2>6
  <2> QED BY <1>2, <1>4, <1>5, <2>7, Zenon
<1> QED BY <1>6, <1>7

LEMMA InOrderFact ==
  ASSUME NEW pieces, NEW n \in Nat, n = Len(pieces)
  PROVE  \E u : /\ u[0] = CG!Emit(<<>>)
                /\ \A i \in 1 .. n : u[i] = CG!Then(u[i - 1], pieces[i])
                /\ CG!InOrder(pieces) = u[n]
<1>1. PICK u : u = CHOOSE v : AreInOrder(v, pieces, n)
  OBVIOUS
<1>2. AreInOrder(u, pieces, n)
  BY <1>1, InOrderExist
<1>3. CG!InOrder(pieces) = u[n]
  BY <1>1 DEF CG!InOrder, AreInOrder
<1>4. \A i \in 0 .. n : u[i] = IF i = 0 THEN CG!Emit(<<>>) ELSE CG!Then(u[i - 1], pieces[i])
  BY <1>2 DEF AreInOrder
<1>5. u[0] = CG!Emit(<<>>) /\ \A i \in 1 .. n : u[i] = CG!Then(u[i - 1], pieces[i])
  <2>1. 0 \in 0 .. n /\ \A i \in 1 .. n : i \in 0 .. n /\ i # 0
    OBVIOUS
  <2> QED BY <1>4, <2>1
<1> QED BY <1>3, <1>5

LEMMA InOrderPiece ==
  ASSUME NEW name, NEW pieces, NEW n \in Nat, n = Len(pieces),
         \A i \in 1 .. n : IsPiece(pieces[i], name)
  PROVE  IsPiece(CG!InOrder(pieces), name)
<1>1. PICK u : /\ u[0] = CG!Emit(<<>>)
               /\ \A i \in 1 .. n : u[i] = CG!Then(u[i - 1], pieces[i])
               /\ CG!InOrder(pieces) = u[n]
  BY InOrderFact
<1> DEFINE Bad == {i \in 0 .. n : ~IsPiece(u[i], name)}
<1>2. SUFFICES ASSUME Bad # {} PROVE FALSE
  BY <1>1, n \in 0 .. n
<1>3. Bad \subseteq Nat /\ Bad \subseteq 0 .. n /\ \A i \in 0 .. n : i \notin Bad <=> IsPiece(u[i], name)
  OBVIOUS
<1> HIDE DEF Bad
<1>4. PICK i \in Bad : \A m \in Bad : ~(<<m, i>> \in OpToRel(<, Nat))
  BY <1>2, <1>3, NatLessThanWellFounded, WFMin
<1>5. i \in 0 .. n /\ ~IsPiece(u[i], name)
  BY <1>3, <1>4, Zenon
<1>6. i # 0
  BY <1>1, <1>5, NothingPiece
<1>7. PICK m \in 0 .. n : m = i - 1 /\ m < i /\ i \in 1 .. n
  <2>1. i - 1 \in 0 .. n /\ i - 1 < i /\ i \in 1 .. n
    BY <1>5, <1>6
  <2> QED BY <2>1
<1>8. m \notin Bad
  <2>1. <<m, i>> \in OpToRel(<, Nat)
    BY <1>5, <1>7 DEF OpToRel
  <2> QED BY <1>4, <2>1, Zenon
<1>9. IsPiece(u[m], name) /\ IsPiece(pieces[i], name)
  BY <1>3, <1>7, <1>8, Zenon
<1>10. u[i] = CG!Then(u[m], pieces[i])
  BY <1>1, <1>7
<1> QED BY <1>5, <1>9, <1>10, ThenPiece

LEMMA FourInOrder ==
  ASSUME NEW name, NEW p, IsPiece(p, name), NEW q, IsPiece(q, name),
         NEW r, IsPiece(r, name), NEW s, IsPiece(s, name)
  PROVE  IsPiece(CG!InOrder(<<p, q, r, s>>), name)
<1>1. PICK pieces : pieces = <<p, q, r, s>>
  OBVIOUS
<1>2. Len(pieces) = 4 /\ \A i \in 1 .. 4 : i = 1 \/ i = 2 \/ i = 3 \/ i = 4
  BY <1>1
<1>3. pieces[1] = p /\ pieces[2] = q /\ pieces[3] = r /\ pieces[4] = s
  BY <1>1
<1>4. \A i \in 1 .. 4 : IsPiece(pieces[i], name)
  BY <1>2, <1>3
<1>5. IsPiece(CG!InOrder(pieces), name)
  BY <1>2, <1>4, InOrderPiece
<1> QED BY <1>1, <1>5

\* A piece that takes a number for labels of its own.
LEMMA NumberTaken ==
  ASSUME NEW name, NEW p,
         \A id \in Nat : \E q, X, V : /\ p[id] = q[id + 1]
                                      /\ Part(q, name, id + 1, X, V)
                                      /\ X \subseteq Numbered(name, id, id + 1)
                                      /\ V \subseteq X
  PROVE  IsPiece(p, name)
<1> SUFFICES ASSUME NEW id \in Nat
             PROVE  /\ p[id].id \in Nat /\ p[id].id >= id
                    /\ \E D \in SUBSET Numbered(name, id, p[id].id) :
                         Contains(p[id].code, D \cup {}, D \cup {} \cup {ReturnLabel(name)})
  BY DEF IsPiece, Part
<1>1. PICK q, X, V : /\ p[id] = q[id + 1]
                     /\ Part(q, name, id + 1, X, V)
                     /\ X \subseteq Numbered(name, id, id + 1)
                     /\ V \subseteq X
  OBVIOUS
<1>2. PICK k, m : k = p[id].id /\ m = id + 1 /\ m \in Nat
  OBVIOUS
<1>3. /\ k \in Nat /\ k >= m
      /\ \E D \in SUBSET Numbered(name, m, k) :
           Contains(p[id].code, D \cup X, D \cup V \cup {ReturnLabel(name)})
  <2>1. Part(q, name, m, X, V) /\ p[id] = q[m] /\ m >= m
    BY <1>1, <1>2
  <2>2. /\ q[m].id \in Nat /\ q[m].id >= m
        /\ \E D \in SUBSET Numbered(name, m, q[m].id) :
             Contains(q[m].code, D \cup X, D \cup V \cup {ReturnLabel(name)})
    BY <1>2, <2>1 DEF Part
  <2> QED BY <1>2, <2>1, <2>2
<1>4. PICK D \in SUBSET Numbered(name, m, k) :
        Contains(p[id].code, D \cup X, D \cup V \cup {ReturnLabel(name)})
  BY <1>3
<1>5. PICK E : E = D \cup X
  OBVIOUS
<1>6. E \in SUBSET Numbered(name, id, k)
  <2>1. id <= m /\ m <= k
    BY <1>2, <1>3
  <2>2. /\ Numbered(name, id, m) \subseteq Numbered(name, id, k)
        /\ Numbered(name, m, k) \subseteq Numbered(name, id, k)
    <3>1. id \in Nat /\ m \in Nat /\ k \in Nat
      BY <1>2, <1>3
    <3> QED BY <2>1, <3>1, NumberedFact
  <2> QED BY <1>1, <1>2, <1>4, <1>5, <2>2
<1>7. Contains(p[id].code, E \cup {}, E \cup {} \cup {ReturnLabel(name)})
  <2>1. D \cup V \cup {ReturnLabel(name)} \subseteq E \cup {} \cup {ReturnLabel(name)}
        /\ E \cup {} = D \cup X
    BY <1>1, <1>5
  <2> QED BY <1>4, <2>1, MoreWanted
<1>8. k >= id
  BY <1>2, <1>3
<1>9. E \in SUBSET Numbered(name, id, p[id].id) /\ p[id].id \in Nat /\ p[id].id >= id
  BY <1>2, <1>3, <1>6, <1>8
<1> QED BY <1>7, <1>9, Zenon

LEMMA OwnLabels ==
  ASSUME NEW name, NEW id \in Nat, NEW v \in LabelWords, NEW w \in LabelWords
  PROVE  /\ {<<v, name, id>>, <<w, name, id>>} \subseteq Numbered(name, id, id + 1)
         /\ {<<v, name, id>>, <<w, name, id>>} \subseteq Numbered(name, 0, id + 1)
<1>1. id \in id .. (id + 1) - 1 /\ id \in 0 .. (id + 1) - 1
  OBVIOUS
<1> QED BY <1>1 DEF Numbered

LEMMA IfPart ==
  ASSUME NEW name, NEW id \in Nat, NEW else, NEW endif,
         else = <<"ELSE", name, id>>, endif = <<"ENDIF", name, id>>,
         NEW p, IsPiece(p, name), NEW q, IsPiece(q, name), NEW r, IsPiece(r, name),
         NEW pieces, pieces = <<p, CG!Emit(<<<<"cbz", else>>>>), q,
                                CG!Emit(<<<<"b", endif>>, CG!Label(else)>>), r,
                                CG!Emit(<<CG!Label(endif)>>)>>
  PROVE  Part(CG!InOrder(pieces), name, id + 1, {else, endif}, {else, endif})
<1>1. PICK m \in Nat : m = id + 1
  OBVIOUS
<1>2. else # endif /\ {else, endif} \subseteq Numbered(name, 0, m)
  BY <1>1, OwnLabels DEF LabelWords
<1>3. Part(p, name, m, {}, {}) /\ Part(q, name, m, {}, {}) /\ Part(r, name, m, {}, {})
  <2>1. 0 <= m
    OBVIOUS
  <2> QED BY <2>1, LaterPart DEF IsPiece
<1>4. Len(pieces) = 6
  OBVIOUS
<1>5. PICK u : /\ u[0] = CG!Emit(<<>>)
               /\ \A i \in 1 .. 6 : u[i] = CG!Then(u[i - 1], pieces[i])
               /\ CG!InOrder(pieces) = u[6]
  <2>1. PICK n \in Nat : n = 6 /\ n = Len(pieces)
    BY <1>4
  <2>2. PICK s : s = pieces
    OBVIOUS
  <2>3. \E u : /\ u[0] = CG!Emit(<<>>)
               /\ \A i \in 1 .. n : u[i] = CG!Then(u[i - 1], s[i])
               /\ CG!InOrder(s) = u[n]
    <3>1. n = Len(s)
      BY <2>1, <2>2
    <3> HIDE <2>1, <2>2
    <3> QED BY <3>1, InOrderFact, Zenon
  <2> QED BY <2>1, <2>2, <2>3
<1>6. PICK p2, p4, p6 : /\ p2 = CG!Emit(<<<<"cbz", else>>>>)
                        /\ p4 = CG!Emit(<<<<"b", endif>>, CG!Label(else)>>)
                        /\ p6 = CG!Emit(<<CG!Label(endif)>>)
  OBVIOUS
<1>7. /\ u[1] = CG!Then(u[0], p) /\ u[2] = CG!Then(u[1], p2) /\ u[3] = CG!Then(u[2], q)
      /\ u[4] = CG!Then(u[3], p4) /\ u[5] = CG!Then(u[4], r) /\ u[6] = CG!Then(u[5], p6)
  <2>1. pieces = <<p, p2, q, p4, r, p6>>
    BY <1>6
  <2>2. \A i \in 1 .. 6 : u[i] = CG!Then(u[i - 1], pieces[i])
    BY <1>5
  <2> HIDE <1>5, <1>6
  <2> QED BY <2>1, <2>2
<1>8. Part(p2, name, m, {}, {else})
  <2>1. Contains(<<<<"cbz", else>>>>, {}, {else} \cup {ReturnLabel(name)})
    BY BranchContains, MoreWanted
  <2> QED BY <1>6, <2>1, EmitPart
<1>9. Part(p4, name, m, {else}, {endif})
  <2>1. Contains(<<<<"b", endif>>, CG!Label(else)>>, {else}, {endif} \cup {ReturnLabel(name)})
    BY BranchAndLabelContains, MoreWanted
  <2> QED BY <1>6, <2>1, EmitPart
<1>10. Part(p6, name, m, {endif}, {})
  <2>1. Contains(<<CG!Label(endif)>>, {endif}, {} \cup {ReturnLabel(name)})
    BY LabelContains, MoreWanted
  <2> QED BY <1>6, <2>1, EmitPart
<1>11. Part(u[0], name, m, {}, {})
  <2>1. IsPiece(u[0], name)
    BY <1>5, NothingPiece
  <2>2. 0 <= m
    OBVIOUS
  <2> QED BY <2>1, <2>2, LaterPart DEF IsPiece
<1>12. Part(u[1], name, m, {} \cup {}, {} \cup {})
  BY <1>3, <1>7, <1>11, ThenPart
<1>13. Part(u[2], name, m, {} \cup {}, {} \cup {else})
  BY <1>7, <1>8, <1>12, ThenPart
<1>14. Part(u[3], name, m, {} \cup {}, {else} \cup {})
  BY <1>3, <1>7, <1>13, ThenPart
<1>15. Part(u[4], name, m, {} \cup {else}, {else} \cup {endif})
  BY <1>2, <1>7, <1>9, <1>14, ThenPart
<1>16. Part(u[5], name, m, {else} \cup {}, {else, endif} \cup {})
  BY <1>2, <1>3, <1>7, <1>15, ThenPart
<1>17. Part(u[6], name, m, {else} \cup {endif}, {else, endif} \cup {})
  BY <1>2, <1>7, <1>10, <1>16, ThenPart
<1> QED BY <1>1, <1>5, <1>17

LEMMA WhilePart ==
  ASSUME NEW name, NEW id \in Nat, NEW while, NEW endwhile,
         while = <<"WHILE", name, id>>, endwhile = <<"ENDWHILE", name, id>>,
         NEW p, IsPiece(p, name), NEW q, IsPiece(q, name),
         NEW pieces, pieces = <<CG!Emit(<<CG!Label(while)>>), p,
                                CG!Emit(<<<<"cbz", endwhile>>>>), q,
                                CG!Emit(<<<<"b", while>>, CG!Label(endwhile)>>)>>
  PROVE  Part(CG!InOrder(pieces), name, id + 1, {while, endwhile}, {while, endwhile})
<1>1. PICK m \in Nat : m = id + 1
  OBVIOUS
<1>2. while # endwhile /\ {while, endwhile} \subseteq Numbered(name, 0, m)
  BY <1>1, OwnLabels DEF LabelWords
<1>3. Part(p, name, m, {}, {}) /\ Part(q, name, m, {}, {})
  <2>1. 0 <= m
    OBVIOUS
  <2> QED BY <2>1, LaterPart DEF IsPiece
<1>4. Len(pieces) = 5
  OBVIOUS
<1>5. PICK u : /\ u[0] = CG!Emit(<<>>)
               /\ \A i \in 1 .. 5 : u[i] = CG!Then(u[i - 1], pieces[i])
               /\ CG!InOrder(pieces) = u[5]
  <2>1. PICK n \in Nat : n = 5 /\ n = Len(pieces)
    BY <1>4
  <2>2. PICK s : s = pieces
    OBVIOUS
  <2>3. \E u : /\ u[0] = CG!Emit(<<>>)
               /\ \A i \in 1 .. n : u[i] = CG!Then(u[i - 1], s[i])
               /\ CG!InOrder(s) = u[n]
    <3>1. n = Len(s)
      BY <2>1, <2>2
    <3> HIDE <2>1, <2>2
    <3> QED BY <3>1, InOrderFact, Zenon
  <2> QED BY <2>1, <2>2, <2>3
<1>6. PICK p1, p3, p5 : /\ p1 = CG!Emit(<<CG!Label(while)>>)
                        /\ p3 = CG!Emit(<<<<"cbz", endwhile>>>>)
                        /\ p5 = CG!Emit(<<<<"b", while>>, CG!Label(endwhile)>>)
  OBVIOUS
<1>7. /\ u[1] = CG!Then(u[0], p1) /\ u[2] = CG!Then(u[1], p) /\ u[3] = CG!Then(u[2], p3)
      /\ u[4] = CG!Then(u[3], q) /\ u[5] = CG!Then(u[4], p5)
  <2>1. pieces = <<p1, p, p3, q, p5>>
    BY <1>6
  <2>2. \A i \in 1 .. 5 : u[i] = CG!Then(u[i - 1], pieces[i])
    BY <1>5
  <2> HIDE <1>5, <1>6
  <2> QED BY <2>1, <2>2
<1>8. Part(p1, name, m, {while}, {})
  <2>1. Contains(<<CG!Label(while)>>, {while}, {} \cup {ReturnLabel(name)})
    BY LabelContains, MoreWanted
  <2> QED BY <1>6, <2>1, EmitPart
<1>9. Part(p3, name, m, {}, {endwhile})
  <2>1. Contains(<<<<"cbz", endwhile>>>>, {}, {endwhile} \cup {ReturnLabel(name)})
    BY BranchContains, MoreWanted
  <2> QED BY <1>6, <2>1, EmitPart
<1>10. Part(p5, name, m, {endwhile}, {while})
  <2>1. Contains(<<<<"b", while>>, CG!Label(endwhile)>>, {endwhile}, {while} \cup {ReturnLabel(name)})
    BY BranchAndLabelContains, MoreWanted
  <2> QED BY <1>6, <2>1, EmitPart
<1>11. Part(u[0], name, m, {}, {})
  <2>1. IsPiece(u[0], name)
    BY <1>5, NothingPiece
  <2>2. 0 <= m
    OBVIOUS
  <2> QED BY <2>1, <2>2, LaterPart DEF IsPiece
<1>12. Part(u[1], name, m, {} \cup {while}, {} \cup {})
  BY <1>2, <1>7, <1>8, <1>11, ThenPart
<1>13. Part(u[2], name, m, {while} \cup {}, {} \cup {})
  BY <1>2, <1>3, <1>7, <1>12, ThenPart
<1>14. Part(u[3], name, m, {while} \cup {}, {} \cup {endwhile})
  BY <1>2, <1>7, <1>9, <1>13, ThenPart
<1>15. Part(u[4], name, m, {while} \cup {}, {endwhile} \cup {})
  BY <1>2, <1>3, <1>7, <1>14, ThenPart
<1>16. Part(u[5], name, m, {while} \cup {endwhile}, {endwhile} \cup {while})
  BY <1>2, <1>7, <1>10, <1>15, ThenPart
<1>17. {while} \cup {endwhile} = {while, endwhile} /\ {endwhile} \cup {while} = {while, endwhile}
  OBVIOUS
<1> QED BY <1>1, <1>5, <1>16, <1>17

--------------------------------------------------------------------------------
(* What the nodes emit.                                                    *)

LEMMA PlainCodes ==
  ASSUME NEW x, x[1] \notin {"label", "b", "cbz"}, NEW y, y[1] \notin {"label", "b", "cbz"},
         NEW z, z[1] \notin {"label", "b", "cbz"}, NEW w, w[1] \notin {"label", "b", "cbz"}
  PROVE  IsPlain(<<x>>) /\ IsPlain(<<x, y>>) /\ IsPlain(<<x, y, z>>) /\ IsPlain(<<x, y, z, w>>)
<1>1. PICK a, b, c, d : a = <<x>> /\ b = <<x, y>> /\ c = <<x, y, z>> /\ d = <<x, y, z, w>>
  OBVIOUS
<1>2. IsPlain(a)
  <2>1. DOMAIN a = 1 .. 1 /\ a[1] = x
    BY <1>1
  <2>2. IsSequence(a)
    BY <1>1 DEF IsSequence
  <2> QED BY <2>1, <2>2 DEF IsPlain
<1>3. IsPlain(b)
  <2>1. DOMAIN b = 1 .. 2 /\ b[1] = x /\ b[2] = y /\ \A i \in 1 .. 2 : i = 1 \/ i = 2
    BY <1>1
  <2>2. IsSequence(b)
    BY <1>1 DEF IsSequence
  <2> QED BY <2>1, <2>2 DEF IsPlain
<1>4. IsPlain(c)
  <2>1. /\ DOMAIN c = 1 .. 3 /\ c[1] = x /\ c[2] = y /\ c[3] = z
        /\ \A i \in 1 .. 3 : i = 1 \/ i = 2 \/ i = 3
    BY <1>1
  <2>2. IsSequence(c)
    BY <1>1 DEF IsSequence
  <2> QED BY <2>1, <2>2 DEF IsPlain
<1>5. IsPlain(d)
  <2>1. /\ DOMAIN d = 1 .. 4 /\ d[1] = x /\ d[2] = y /\ d[3] = z /\ d[4] = w
        /\ \A i \in 1 .. 4 : i = 1 \/ i = 2 \/ i = 3 \/ i = 4
    BY <1>1
  <2>2. IsSequence(d)
    BY <1>1 DEF IsSequence
  <2> QED BY <2>1, <2>2 DEF IsPlain
<1> QED BY <1>1, <1>2, <1>3, <1>4, <1>5

LEMMA NoCode == IsPlain(<<>>)
BY DEF IsPlain, IsSequence

LEMMA PlainConcat ==
  ASSUME NEW s, IsPlain(s), NEW t, IsPlain(t)
  PROVE  IsPlain(s \o t)
<1>1. PICK u, k, l : u = s \o t /\ k = Len(s) /\ l = Len(t)
  OBVIOUS
<1>2. /\ IsSequence(u) /\ k \in Nat /\ l \in Nat
      /\ DOMAIN s = 1 .. k /\ DOMAIN t = 1 .. l /\ DOMAIN u = 1 .. k + l
      /\ \A i \in 1 .. k : u[i] = s[i]
      /\ \A i \in 1 .. l : u[k + i] = t[i]
  BY <1>1, ConcatFact DEF IsPlain
<1>3. ASSUME NEW i \in DOMAIN u PROVE u[i][1] \notin {"label", "b", "cbz"}
  <2>1. CASE i \in 1 .. k
    BY <1>2, <2>1 DEF IsPlain
  <2>2. CASE i \notin 1 .. k
    <3>1. PICK m \in 1 .. l : i = k + m
      <4>1. i - k \in 1 .. l /\ i = k + (i - k)
        BY <1>2, <2>2
      <4> QED BY <4>1
    <3> QED BY <1>2, <3>1 DEF IsPlain
  <2> QED BY <2>1, <2>2
<1> QED BY <1>1, <1>2, <1>3 DEF IsPlain

\* Instructions for values and addresses.
LEMMA PlainParts ==
  ASSUME NEW x, NEW y
  PROVE  /\ IsPlain(<<CG!Push>>) /\ IsPlain(<<CG!SubFp(x)>>) /\ IsPlain(<<CG!SubFp(x), CG!Push>>)
         /\ IsPlain(CG!Operator(x)) /\ IsPlain(<<<<"mov_x8", x>>>>)
         /\ IsPlain(<<<<"mov_x9", x>>, <<"x8_x8_x9", "*">>, CG!Pop("x9"), <<"x8_x8_x9", "+">>>>)
         /\ IsPlain(CG!Load(x)) /\ IsPlain(<<CG!Pop("x9")>>)
         /\ IsPlain(<<<<"memcpy_x9_x8", x>>>>) /\ IsPlain(<<<<"str_x8_[x9]">>>>)
<1>1. PICK a, b, c, d : /\ a = CG!Push /\ b = CG!SubFp(x) /\ c = <<"mov_x8", x>> /\ d = <<"mov_x9", x>>
  OBVIOUS
<1>2. PICK e, f, g, h : /\ e = <<"x8_x8_x9", "*">> /\ f = CG!Pop("x9") /\ g = <<"x8_x8_x9", "+">>
                        /\ h = <<"ldr_x8_[x8]">>
  OBVIOUS
<1>3. PICK k, l, m, n, o : /\ k = <<"memcpy_x9_x8", x>> /\ l = <<"str_x8_[x9]">>
                           /\ m = <<"mov_x9_x8">> /\ n = CG!Pop("x8") /\ o = <<"x8_x8_x9", x>>
  OBVIOUS
<1>4. \A i \in {a, b, c, d} : i[1] \notin {"label", "b", "cbz"}
  BY <1>1 DEF CG!Push, CG!SubFp
<1>5. \A i \in {e, f, g, h} : i[1] \notin {"label", "b", "cbz"}
  BY <1>2 DEF CG!Pop
<1>6. \A i \in {k, l, m, n, o} : i[1] \notin {"label", "b", "cbz"}
  BY <1>3 DEF CG!Pop
<1>7. IsPlain(<<a>>) /\ IsPlain(<<b>>) /\ IsPlain(<<b, a>>) /\ IsPlain(<<c>>)
  BY <1>4, PlainCodes
<1>8. IsPlain(<<d, e, f, g>>) /\ IsPlain(<<f>>) /\ IsPlain(<<h>>)
  <2>1. /\ d[1] \notin {"label", "b", "cbz"} /\ e[1] \notin {"label", "b", "cbz"}
        /\ f[1] \notin {"label", "b", "cbz"} /\ g[1] \notin {"label", "b", "cbz"}
        /\ h[1] \notin {"label", "b", "cbz"}
    BY <1>4, <1>5
  <2>2. IsPlain(<<d, e, f, g>>)
    BY <2>1, PlainCodes
  <2>3. IsPlain(<<f>>) /\ IsPlain(<<h>>)
    BY <2>1, PlainCodes
  <2> QED BY <2>2, <2>3
<1>9. IsPlain(<<k>>) /\ IsPlain(<<l>>) /\ IsPlain(<<m, n, o>>)
  BY <1>6, PlainCodes
<1>10. IsPlain(CG!Operator(x))
  BY <1>3, <1>9 DEF CG!Operator
<1>11. IsPlain(CG!Load(x))
  BY <1>2, <1>8, NoCode DEF CG!Load
<1> QED BY <1>1, <1>2, <1>3, <1>7, <1>8, <1>9, <1>10, <1>11

LEMMA StorePlain ==
  ASSUME CG!TypesAreFounded, NEW t \in DOMAIN types
  PROVE  IsPlain(CG!Store(t))
<1>1. types[t].kind \in {"void", "i64", "pointer", "array"}
  BY DEF CG!TypesAreFounded
<1>2. PICK s : s = IF types[t].kind = "void" THEN <<>>
                   ELSE IF types[t].kind = "array" THEN <<<<"memcpy_x9_x8", CG!Size[t]>>>>
                   ELSE <<<<"str_x8_[x9]">>>>
  OBVIOUS
<1>3. IsPlain(s)
  BY <1>2, NoCode, PlainParts
<1>4. CG!Store(t) = <<CG!Pop("x9")>> \o s
  BY <1>1, <1>2 DEF CG!Store
<1> QED BY <1>3, <1>4, PlainParts, PlainConcat

\* The nodes before n are pieces of the function c.
PiecesBefore(c, gen, n) ==
  \A m \in 1 .. n - 1 : IsPiece(gen[m].value, c.name) /\ IsPiece(gen[m].address, c.name)

LEMMA ElementPiece ==
  ASSUME HirIsOrdered, NEW c, NEW gen, NEW n \in DOMAIN nodes, PiecesBefore(c, gen, n),
         nodes[n].kind = "array_literal", NEW i \in 0 .. nodes[n].data[2] - 1
  PROVE  IsPiece(CG!GenElement(c, gen, n, i), c.name)
<1>1. PICK e, child : e = nodes[n].data[1] + i /\ child = types[nodes[n].type].child
  OBVIOUS
<1>2. NodeIsOrdered(n) /\ CG!TypesAreFounded
  BY DEF HirIsOrdered
<1>3. e \in 1 .. n - 1
  BY <1>1, <1>2 DEF NodeIsOrdered, Ordered, ListKinds
<1>4. child \in DOMAIN types
  <2>1. PICK t, k : t = nodes[n].type /\ k \in Nat /\ DOMAIN types = 1 .. k
    BY <1>2 DEF CG!TypesAreFounded
  <2>2. t \in 1 .. k /\ types[t].kind = "array"
    BY <1>2, <2>1 DEF NodeIsOrdered
  <2>3. child \in 1 .. t - 1
    BY <1>1, <1>2, <2>1, <2>2 DEF CG!TypesAreFounded
  <2>4. child \in 1 .. k
    BY <2>1, <2>2, <2>3
  <2> QED BY <2>1, <2>4
<1>5. PICK o : o = CG!ElementOffset(CG!OffsetOf(c.layout, "literal", n), child, i)
  OBVIOUS
<1>6. PICK p, q, r, s : /\ p = CG!Check(nodes[e].type = child)
                        /\ q = CG!Emit(<<CG!SubFp(o), CG!Push>>)
                        /\ r = gen[e].value
                        /\ s = CG!Emit(CG!Store(child))
  OBVIOUS
<1>7. IsPiece(p, c.name)
  BY <1>6, EmptyPiece DEF CG!Check
<1>8. IsPiece(q, c.name)
  BY <1>6, PlainParts, PlainPiece
<1>9. IsPiece(r, c.name)
  BY <1>3, <1>6 DEF PiecesBefore
<1>10. IsPiece(s, c.name)
  BY <1>2, <1>4, <1>6, StorePlain, PlainPiece
<1>11. CG!GenElement(c, gen, n, i) = CG!InOrder(<<p, q, r, s>>)
  BY <1>1, <1>5, <1>6 DEF CG!GenElement
<1> QED BY <1>7, <1>8, <1>9, <1>10, <1>11, FourInOrder

LEMMA IfPiece ==
  ASSUME HirIsOrdered, NEW c, NEW gen, NEW n \in DOMAIN nodes, PiecesBefore(c, gen, n),
         nodes[n].kind = "if"
  PROVE  IsPiece([id \in Nat |-> CG!GenIf(c, gen, n, id)[CG!TakeLabel(id)]], c.name)
<1>1. PICK d, p : /\ d = nodes[n].data
                  /\ p = [id \in Nat |-> CG!GenIf(c, gen, n, id)[CG!TakeLabel(id)]]
  OBVIOUS
<1>2. /\ d[1] \in 1 .. n - 1 /\ d[2] \in 1 .. n - 1
      /\ d[3] # NoNode => d[3] \in 1 .. n - 1
  BY <1>1 DEF HirIsOrdered, NodeIsOrdered, Ordered
<1>3. PICK u, v, w : /\ u = gen[d[1]].value /\ v = gen[d[2]].value
                     /\ w = IF d[3] = NoNode THEN CG!Emit(<<>>) ELSE gen[d[3]].value
  OBVIOUS
<1>4. IsPiece(u, c.name) /\ IsPiece(v, c.name) /\ IsPiece(w, c.name)
  BY <1>2, <1>3, NothingPiece DEF PiecesBefore
<1>5. ASSUME NEW id \in Nat
      PROVE  \E q, X, V : /\ p[id] = q[id + 1]
                          /\ Part(q, c.name, id + 1, X, V)
                          /\ X \subseteq Numbered(c.name, id, id + 1)
                          /\ V \subseteq X
  <2>1. PICK else, endif, q : /\ else = <<"ELSE", c.name, id>> /\ endif = <<"ENDIF", c.name, id>>
                              /\ q = CG!GenIf(c, gen, n, id)
    OBVIOUS
  <2>2. PICK pieces : pieces = <<u, CG!Emit(<<<<"cbz", else>>>>), v,
                                 CG!Emit(<<<<"b", endif>>, CG!Label(else)>>), w,
                                 CG!Emit(<<CG!Label(endif)>>)>>
    OBVIOUS
  <2>3. q = CG!InOrder(pieces)
    BY <1>1, <1>3, <2>1, <2>2 DEF CG!GenIf, CG!NoNode, NoNode
  <2>4. Part(CG!InOrder(pieces), c.name, id + 1, {else, endif}, {else, endif})
    BY <1>4, <2>1, <2>2, IfPart
  <2>5. {else, endif} \subseteq Numbered(c.name, id, id + 1)
    BY <2>1, OwnLabels DEF LabelWords
  <2>6. p[id] = q[id + 1]
    BY <1>1, <2>1 DEF CG!TakeLabel
  <2> QED BY <2>3, <2>4, <2>5, <2>6
<1>6. IsPiece(p, c.name)
  BY <1>5, NumberTaken
<1> QED BY <1>1, <1>6

LEMMA WhilePiece ==
  ASSUME HirIsOrdered, NEW c, NEW gen, NEW n \in DOMAIN nodes, PiecesBefore(c, gen, n),
         nodes[n].kind = "while"
  PROVE  IsPiece([id \in Nat |-> CG!GenWhile(c, gen, n, id)[CG!TakeLabel(id)]], c.name)
<1>1. PICK d, p : /\ d = nodes[n].data
                  /\ p = [id \in Nat |-> CG!GenWhile(c, gen, n, id)[CG!TakeLabel(id)]]
  OBVIOUS
<1>2. d[1] \in 1 .. n - 1 /\ d[2] \in 1 .. n - 1
  BY <1>1 DEF HirIsOrdered, NodeIsOrdered, Ordered, BinaryKinds
<1>3. PICK u, v : u = gen[d[1]].value /\ v = gen[d[2]].value
  OBVIOUS
<1>4. IsPiece(u, c.name) /\ IsPiece(v, c.name)
  BY <1>2, <1>3 DEF PiecesBefore
<1>5. ASSUME NEW id \in Nat
      PROVE  \E q, X, V : /\ p[id] = q[id + 1]
                          /\ Part(q, c.name, id + 1, X, V)
                          /\ X \subseteq Numbered(c.name, id, id + 1)
                          /\ V \subseteq X
  <2>1. PICK while, endwhile, q :
          /\ while = <<"WHILE", c.name, id>> /\ endwhile = <<"ENDWHILE", c.name, id>>
          /\ q = CG!GenWhile(c, gen, n, id)
    OBVIOUS
  <2>2. PICK pieces : pieces = <<CG!Emit(<<CG!Label(while)>>), u,
                                 CG!Emit(<<<<"cbz", endwhile>>>>), v,
                                 CG!Emit(<<<<"b", while>>, CG!Label(endwhile)>>)>>
    OBVIOUS
  <2>3. q = CG!InOrder(pieces)
    BY <1>1, <1>3, <2>1, <2>2 DEF CG!GenWhile
  <2>4. Part(CG!InOrder(pieces), c.name, id + 1, {while, endwhile}, {while, endwhile})
    BY <1>4, <2>1, <2>2, WhilePart
  <2>5. {while, endwhile} \subseteq Numbered(c.name, id, id + 1)
    BY <2>1, OwnLabels DEF LabelWords
  <2>6. p[id] = q[id + 1]
    BY <1>1, <2>1 DEF CG!TakeLabel
  <2> QED BY <2>3, <2>4, <2>5, <2>6
<1>6. IsPiece(p, c.name)
  BY <1>5, NumberTaken
<1> QED BY <1>1, <1>6

LEMMA AddressPiece ==
  ASSUME HirIsOrdered, NEW c, NEW gen, NEW n \in DOMAIN nodes, PiecesBefore(c, gen, n)
  PROVE  IsPiece(CG!GenAddress(c, gen, n), c.name)
<1>1. PICK d, kind : d = nodes[n].data /\ kind = nodes[n].kind
  OBVIOUS
<1>2. NodeIsOrdered(n)
  BY DEF HirIsOrdered
<1>3. CASE kind = "variable"
  <2>1. CG!GenAddress(c, gen, n) = CG!Emit(<<CG!SubFp(CG!OffsetOf(c.layout, "local", d[1]))>>)
    BY <1>1, <1>3 DEF CG!GenAddress
  <2> QED BY <2>1, PlainParts, PlainPiece
<1>4. CASE kind = "dereference"
  <2>1. CG!GenAddress(c, gen, n) = gen[d[1]].value
    BY <1>1, <1>4 DEF CG!GenAddress
  <2>2. d[1] \in 1 .. n - 1
    BY <1>1, <1>2, <1>4 DEF NodeIsOrdered, Ordered, UnaryKinds
  <2> QED BY <2>1, <2>2 DEF PiecesBefore
<1>5. CASE kind = "index"
  <2>1. PICK x, p, q, r, s :
          /\ x = CG!Size[nodes[n].type]
          /\ p = gen[d[1]].address /\ q = CG!Emit(<<CG!Push>>) /\ r = gen[d[2]].value
          /\ s = CG!Emit(<<<<"mov_x9", x>>, <<"x8_x8_x9", "*">>, CG!Pop("x9"), <<"x8_x8_x9", "+">>>>)
    OBVIOUS
  <2>2. CG!GenAddress(c, gen, n) = CG!InOrder(<<p, q, r, s>>)
    BY <1>1, <1>5, <2>1 DEF CG!GenAddress
  <2>3. d[1] \in 1 .. n - 1 /\ d[2] \in 1 .. n - 1
    BY <1>1, <1>2, <1>5 DEF NodeIsOrdered, Ordered, BinaryKinds
  <2>4. IsPiece(p, c.name) /\ IsPiece(r, c.name)
    BY <2>1, <2>3 DEF PiecesBefore
  <2>5. IsPiece(q, c.name)
    BY <2>1, PlainParts, PlainPiece
  <2>6. IsPiece(s, c.name)
    BY <2>1, PlainParts, PlainPiece
  <2> QED BY <2>2, <2>4, <2>5, <2>6, FourInOrder
<1>6. CASE kind = "array_literal"
  <2>1. PICK k : k = d[2] /\ k \in Nat
    BY <1>1, <1>2, <1>6 DEF NodeIsOrdered, Ordered, ListKinds
  <2>2. PICK pieces : pieces = [i \in 1 .. k |-> CG!GenElement(c, gen, n, i - 1)]
    OBVIOUS
  <2>3. ASSUME NEW i \in 1 .. k PROVE IsPiece(pieces[i], c.name)
    <3>1. PICK j \in 0 .. k - 1 : j = i - 1
      BY <2>1
    <3>2. IsPiece(CG!GenElement(c, gen, n, j), c.name)
      BY <1>1, <1>6, <2>1, <3>1, ElementPiece
    <3> QED BY <2>2, <3>1, <3>2
  <2>4. k = Len(pieces)
    BY <2>1, <2>2
  <2>5. IsPiece(CG!InOrder(pieces), c.name)
    BY <2>1, <2>3, <2>4, InOrderPiece
  <2>6. PICK p, q : /\ p = CG!InOrder(pieces)
                    /\ q = CG!Emit(<<CG!SubFp(CG!OffsetOf(c.layout, "literal", n))>>)
    OBVIOUS
  <2>7. IsPiece(q, c.name)
    BY <2>6, PlainParts, PlainPiece
  <2>8. CG!GenAddress(c, gen, n) = CG!Then(p, q)
    BY <1>1, <1>6, <2>1, <2>2, <2>6 DEF CG!GenAddress
  <2> QED BY <2>5, <2>6, <2>7, <2>8, ThenPiece
<1>7. CASE kind \notin {"variable", "dereference", "index", "array_literal"}
  <2>1. CG!GenAddress(c, gen, n) = CG!Emits(<<>>, <<n>>, FALSE)
    BY <1>1, <1>7 DEF CG!GenAddress, CG!Report
  <2> QED BY <2>1, EmptyPiece
<1> QED BY <1>3, <1>4, <1>5, <1>6, <1>7

LEMMA PairOfOnes ==
  ASSUME NEW x, NEW y
  PROVE  <<x>> \o <<y>> = <<x, y>>
<1>1. PICK u, s, t : u = <<x>> \o <<y>> /\ s = <<x>> /\ t = <<y>>
  OBVIOUS
<1>2. IsSequence(s) /\ IsSequence(t) /\ Len(s) = 1 /\ Len(t) = 1 /\ s[1] = x /\ t[1] = y
  <2>1. ASSUME NEW v, NEW w, w = <<v>> PROVE IsSequence(w) /\ Len(w) = 1 /\ w[1] = v
    BY <2>1 DEF IsSequence
  <2> QED BY <1>1, <2>1
<1>3. IsSequence(u) /\ DOMAIN u = 1 .. 2 /\ u[1] = x /\ u[2] = y
  BY <1>1, <1>2, ConcatFact
<1>4. PICK S : u \in Seq(S)
  BY <1>3 DEF IsSequence
<1>5. u = <<x, y>>
  BY <1>3, <1>4
<1> QED BY <1>1, <1>5

LEMMA ValuePiece ==
  ASSUME HirIsOrdered, NEW c, NEW gen, NEW n \in DOMAIN nodes, PiecesBefore(c, gen, n)
  PROVE  IsPiece(CG!Gen(c, gen, n), c.name)
<1>1. PICK d, kind, p : d = nodes[n].data /\ kind = nodes[n].kind /\ p = CG!Gen(c, gen, n)
  OBVIOUS
<1>2. NodeIsOrdered(n) /\ CG!TypesAreFounded
  BY DEF HirIsOrdered
<1>3. kind \in UnaryKinds => d[1] \in 1 .. n - 1
  BY <1>1, <1>2 DEF NodeIsOrdered, Ordered
<1>4. kind \in BinaryKinds => d[1] \in 1 .. n - 1 /\ d[2] \in 1 .. n - 1
  BY <1>1, <1>2 DEF NodeIsOrdered, Ordered
<1>5. \A m \in 1 .. n - 1 : IsPiece(gen[m].value, c.name) /\ IsPiece(gen[m].address, c.name)
  BY DEF PiecesBefore
<1>6. PICK load : load = CG!Emit(CG!Load(nodes[n].type))
  OBVIOUS
<1>7. IsPiece(load, c.name)
  BY <1>6, PlainParts, PlainPiece
<1>8. CASE kind = "missing"
  <2>1. p = CG!Emit(<<>>)
    BY <1>1, <1>8 DEF CG!Gen, CG!BinaryOperators
  <2> QED BY <1>1, <2>1, NothingPiece
<1>9. CASE kind = "int_literal"
  <2>1. PICK x : x = CG!Immediate(d[1])
    OBVIOUS
  <2>2. p = CG!Emit(<<<<"mov_x8", x>>>>)
    BY <1>1, <1>9, <2>1 DEF CG!Gen, CG!BinaryOperators
  <2> QED BY <1>1, <2>2, PlainParts, PlainPiece
<1>10. CASE kind \in {"variable", "index"}
  <2>1. p = CG!Then(CG!GenAddress(c, gen, n), load)
    BY <1>1, <1>6, <1>10 DEF CG!Gen, CG!BinaryOperators
  <2> QED BY <1>1, <1>7, <2>1, AddressPiece, ThenPiece
<1>11. CASE kind \in BinaryOperators
  <2>1. PICK q, r : q = CG!Emit(<<CG!Push>>) /\ r = CG!Emit(CG!Operator(kind))
    OBVIOUS
  <2>2. p = CG!InOrder(<<gen[d[1]].value, q, gen[d[2]].value, r>>)
    BY <1>1, <1>11, <2>1 DEF CG!Gen, CG!BinaryOperators, BinaryOperators
  <2>3. IsPiece(q, c.name)
    BY <2>1, PlainParts, PlainPiece
  <2>4. IsPiece(r, c.name)
    BY <2>1, PlainParts, PlainPiece
  <2>5. IsPiece(gen[d[1]].value, c.name) /\ IsPiece(gen[d[2]].value, c.name)
    BY <1>4, <1>5, <1>11 DEF BinaryKinds
  <2> QED BY <1>1, <2>2, <2>3, <2>4, <2>5, FourInOrder
<1>12. CASE kind = "address_of"
  <2>1. p = gen[d[1]].address
    BY <1>1, <1>12 DEF CG!Gen, CG!BinaryOperators
  <2> QED BY <1>1, <1>3, <1>5, <1>12, <2>1 DEF UnaryKinds
<1>13. CASE kind = "dereference"
  <2>1. p = CG!Then(gen[d[1]].value, load)
    BY <1>1, <1>6, <1>13 DEF CG!Gen, CG!BinaryOperators
  <2>2. IsPiece(gen[d[1]].value, c.name)
    BY <1>3, <1>5, <1>13 DEF UnaryKinds
  <2> QED BY <1>1, <1>7, <2>1, <2>2, ThenPiece
<1>14. CASE kind = "array_literal"
  <2>1. p = CG!GenAddress(c, gen, n)
    BY <1>1, <1>14 DEF CG!Gen, CG!BinaryOperators
  <2> QED BY <1>1, <2>1, AddressPiece
<1>15. CASE kind = "assign"
  <2>1. PICK q, r : q = CG!Emit(<<CG!Push>>) /\ r = CG!Emit(CG!Store(nodes[d[2]].type))
    OBVIOUS
  <2>2. p = CG!InOrder(<<gen[d[1]].address, q, gen[d[2]].value, r>>)
    BY <1>1, <1>15, <2>1 DEF CG!Gen, CG!BinaryOperators
  <2>3. d[1] \in 1 .. n - 1 /\ d[2] \in 1 .. n - 1
    BY <1>4, <1>15 DEF BinaryKinds
  <2>4. IsPiece(q, c.name)
    BY <2>1, PlainParts, PlainPiece
  <2>5. IsPiece(r, c.name)
    <3>1. d[2] \in DOMAIN nodes
      BY <2>3 DEF HirIsOrdered
    <3>2. nodes[d[2]].type \in DOMAIN types
      BY <3>1 DEF HirIsOrdered, NodeIsOrdered
    <3> QED BY <1>2, <2>1, <3>2, StorePlain, PlainPiece
  <2>6. IsPiece(gen[d[1]].address, c.name) /\ IsPiece(gen[d[2]].value, c.name)
    BY <1>5, <2>3
  <2> QED BY <1>1, <2>2, <2>4, <2>5, <2>6, FourInOrder
<1>16. CASE kind = "if"
  <2>1. p = [id \in Nat |-> CG!GenIf(c, gen, n, id)[CG!TakeLabel(id)]]
    BY <1>1, <1>16 DEF CG!Gen, CG!BinaryOperators
  <2> QED BY <1>1, <1>16, <2>1, IfPiece
<1>17. CASE kind = "while"
  <2>1. p = [id \in Nat |-> CG!GenWhile(c, gen, n, id)[CG!TakeLabel(id)]]
    BY <1>1, <1>17 DEF CG!Gen, CG!BinaryOperators
  <2> QED BY <1>1, <1>17, <2>1, WhilePiece
<1>18. CASE kind = "return"
  <2>1. PICK code, q : /\ code = <<<<"mov_x0_x8">>>> \o <<<<"b", ReturnLabel(c.name)>>>>
                       /\ q = CG!Emit(code)
    OBVIOUS
  <2>2. p = CG!Then(gen[d[1]].value, q)
    <3>1. PICK x, y : x = <<"mov_x0_x8">> /\ y = <<"b", <<"RETURN", c.name>>>>
      OBVIOUS
    <3>2. code = <<x>> \o <<y>>
      BY <2>1, <3>1 DEF ReturnLabel
    <3>3. <<x>> \o <<y>> = <<x, y>>
      BY PairOfOnes
    <3>4. p = CG!Then(gen[d[1]].value, CG!Emit(<<x, y>>))
      BY <1>1, <1>18, <3>1 DEF CG!Gen, CG!BinaryOperators
    <3> QED BY <2>1, <3>2, <3>3, <3>4
  <2>3. IsPiece(gen[d[1]].value, c.name)
    BY <1>3, <1>5, <1>18 DEF UnaryKinds
  <2>4. IsPiece(q, c.name)
    <3>1. PICK x : x = <<"mov_x0_x8">>
      OBVIOUS
    <3>2. IsPlain(<<x>>)
      <4>1. x[1] \notin {"label", "b", "cbz"}
        BY <3>1
      <4> QED BY <4>1, PlainCodes
    <3>3. Contains(<<x>>, {}, {}) /\ Contains(<<<<"b", ReturnLabel(c.name)>>>>, {}, {ReturnLabel(c.name)})
      BY <3>2, PlainContains, BranchContains
    <3>4. Contains(code, {} \cup {}, {} \cup {ReturnLabel(c.name)})
      BY <2>1, <3>1, <3>3, ContainsConcat
    <3> QED BY <2>1, <3>4, EmitPart DEF IsPiece
  <2> QED BY <1>1, <2>2, <2>3, <2>4, ThenPiece
<1>19. CASE kind = "block"
  <2>1. PICK k : k = d[2] /\ k \in Nat /\ \A i \in 0 .. k - 1 : d[1] + i \in 1 .. n - 1
    BY <1>1, <1>2, <1>19 DEF NodeIsOrdered, Ordered, ListKinds
  <2>2. PICK pieces : pieces = [i \in 1 .. k |-> gen[d[1] + i - 1].value]
    OBVIOUS
  <2>3. ASSUME NEW i \in 1 .. k PROVE IsPiece(pieces[i], c.name)
    <3>1. d[1] \in Int
      BY <1>1, <1>2, <1>19 DEF NodeIsOrdered, Ordered, ListKinds
    <3>2. PICK j \in 0 .. k - 1 : d[1] + i - 1 = d[1] + j
      <4>1. i - 1 \in 0 .. k - 1 /\ d[1] + i - 1 = d[1] + (i - 1)
        BY <2>1, <3>1
      <4> QED BY <4>1
    <3>3. IsPiece(gen[d[1] + j].value, c.name)
      BY <1>5, <2>1
    <3> QED BY <2>2, <3>2, <3>3
  <2>4. k = Len(pieces)
    BY <2>1, <2>2
  <2>5. p = CG!InOrder(pieces)
    BY <1>1, <1>19, <2>1, <2>2 DEF CG!Gen, CG!BinaryOperators
  <2> QED BY <1>1, <2>1, <2>3, <2>4, <2>5, InOrderPiece
<1>20. kind \in UnaryKinds \cup BinaryKinds \cup ListKinds \cup LeafKinds \cup {"if"}
  BY <1>1, <1>2 DEF NodeIsOrdered
<1> QED BY <1>8, <1>9, <1>10, <1>11, <1>12, <1>13, <1>14, <1>15, <1>16, <1>17, <1>18, <1>19, <1>20
        DEF UnaryKinds, BinaryKinds, ListKinds, LeafKinds

\* What CG!Code is defined to be, for the first k nodes.
AreCode(g, c, k) == g = [n \in 1 .. k |-> CG!GenBy(c, g, n)]

LEMMA CodeOfSame ==
  ASSUME HirIsOrdered, NEW c, NEW n \in DOMAIN nodes, NEW f, NEW g,
         \A i \in 1 .. n - 1 : f[i] = g[i]
  PROVE  CG!GenBy(c, f, n) = CG!GenBy(c, g, n)
<1>1. PICK d, kind : d = nodes[n].data /\ kind = nodes[n].kind
  OBVIOUS
<1>2. NodeIsOrdered(n)
  BY DEF HirIsOrdered
<1>3. kind \in UnaryKinds => f[d[1]] = g[d[1]]
  BY <1>1, <1>2 DEF NodeIsOrdered, Ordered
<1>4. kind \in BinaryKinds => f[d[1]] = g[d[1]] /\ f[d[2]] = g[d[2]]
  BY <1>1, <1>2 DEF NodeIsOrdered, Ordered
<1>5. kind = "if" => /\ f[d[1]] = g[d[1]] /\ f[d[2]] = g[d[2]]
                     /\ d[3] # NoNode => f[d[3]] = g[d[3]]
  BY <1>1, <1>2 DEF NodeIsOrdered, Ordered
<1>6. kind \in ListKinds => /\ d[1] \in Int /\ d[2] \in Nat
                            /\ \A i \in 0 .. d[2] - 1 : f[d[1] + i] = g[d[1] + i]
  BY <1>1, <1>2 DEF NodeIsOrdered, Ordered
<1>7. kind \in UnaryKinds \cup BinaryKinds \cup ListKinds \cup LeafKinds \cup {"if"}
  BY <1>1, <1>2 DEF NodeIsOrdered
<1>8. CG!GenAddress(c, f, n) = CG!GenAddress(c, g, n)
  <2>1. CASE kind = "dereference"
    BY <1>1, <1>3, <2>1 DEF CG!GenAddress, UnaryKinds
  <2>2. CASE kind = "index"
    BY <1>1, <1>4, <2>2 DEF CG!GenAddress, BinaryKinds
  <2>3. CASE kind = "array_literal"
    <3>1. ASSUME NEW i \in 1 .. d[2]
          PROVE  CG!GenElement(c, f, n, i - 1) = CG!GenElement(c, g, n, i - 1)
      <4>1. PICK j \in 0 .. d[2] - 1 : j = i - 1
        BY <1>6, <2>3 DEF ListKinds
      <4>2. f[d[1] + j] = g[d[1] + j]
        BY <1>6, <2>3 DEF ListKinds
      <4>3. CG!GenElement(c, f, n, j) = CG!GenElement(c, g, n, j)
        BY <1>1, <4>2 DEF CG!GenElement
      <4> QED BY <4>1, <4>3
    <3>2. [i \in 1 .. d[2] |-> CG!GenElement(c, f, n, i - 1)]
          = [i \in 1 .. d[2] |-> CG!GenElement(c, g, n, i - 1)]
      BY <3>1
    <3> QED BY <1>1, <2>3, <3>2 DEF CG!GenAddress
  <2>4. CASE kind \notin {"dereference", "index", "array_literal"}
    BY <1>1, <2>4 DEF CG!GenAddress
  <2> QED BY <2>1, <2>2, <2>3, <2>4
<1>9. CG!Gen(c, f, n) = CG!Gen(c, g, n)
  <2>1. CASE kind = "if"
    <3>1. ASSUME NEW id \in Nat
          PROVE  CG!GenIf(c, f, n, id)[CG!TakeLabel(id)] = CG!GenIf(c, g, n, id)[CG!TakeLabel(id)]
      <4>1. CG!GenIf(c, f, n, id) = CG!GenIf(c, g, n, id)
        BY <1>1, <1>5, <2>1 DEF CG!GenIf, CG!NoNode, NoNode
      <4> QED BY <4>1
    <3>2. [id \in Nat |-> CG!GenIf(c, f, n, id)[CG!TakeLabel(id)]]
          = [id \in Nat |-> CG!GenIf(c, g, n, id)[CG!TakeLabel(id)]]
      BY <3>1
    <3> QED BY <1>1, <2>1, <3>2 DEF CG!Gen, CG!BinaryOperators
  <2>2. CASE kind = "while"
    <3>1. ASSUME NEW id \in Nat
          PROVE  CG!GenWhile(c, f, n, id)[CG!TakeLabel(id)] = CG!GenWhile(c, g, n, id)[CG!TakeLabel(id)]
      <4>1. CG!GenWhile(c, f, n, id) = CG!GenWhile(c, g, n, id)
        BY <1>1, <1>4, <2>2 DEF CG!GenWhile, BinaryKinds
      <4> QED BY <4>1
    <3>2. [id \in Nat |-> CG!GenWhile(c, f, n, id)[CG!TakeLabel(id)]]
          = [id \in Nat |-> CG!GenWhile(c, g, n, id)[CG!TakeLabel(id)]]
      BY <3>1
    <3> QED BY <1>1, <2>2, <3>2 DEF CG!Gen, CG!BinaryOperators
  <2>3. CASE kind = "block"
    <3>1. ASSUME NEW i \in 1 .. d[2] PROVE f[d[1] + i - 1].value = g[d[1] + i - 1].value
      <4>1. PICK j \in 0 .. d[2] - 1 : d[1] + i - 1 = d[1] + j
        <5>1. i - 1 \in 0 .. d[2] - 1 /\ d[1] + i - 1 = d[1] + (i - 1)
          BY <1>6, <2>3 DEF ListKinds
        <5> QED BY <5>1
      <4>2. f[d[1] + j] = g[d[1] + j]
        BY <1>6, <2>3 DEF ListKinds
      <4> QED BY <4>1, <4>2
    <3>2. [i \in 1 .. d[2] |-> f[d[1] + i - 1].value] = [i \in 1 .. d[2] |-> g[d[1] + i - 1].value]
      BY <3>1
    <3> QED BY <1>1, <2>3, <3>2 DEF CG!Gen, CG!BinaryOperators
  <2>4. CASE kind \in LeafKinds \cup {"index", "array_literal"}
    BY <1>1, <1>8, <2>4 DEF CG!Gen, CG!BinaryOperators, LeafKinds
  <2>5. CASE kind \in UnaryKinds
    BY <1>1, <1>3, <2>5 DEF CG!Gen, CG!BinaryOperators, UnaryKinds
  <2>6. CASE kind \in BinaryOperators \cup {"assign"}
    BY <1>1, <1>4, <2>6 DEF CG!Gen, CG!BinaryOperators, BinaryOperators, BinaryKinds
  <2> QED BY <1>7, <2>1, <2>2, <2>3, <2>4, <2>5, <2>6 DEF BinaryKinds, ListKinds
<1> QED BY <1>8, <1>9 DEF CG!GenBy

LEMMA CodeExist ==
  ASSUME HirIsOrdered, NEW c, NEW n \in Nat, DOMAIN nodes = 1 .. n
  PROVE  \E g : AreCode(g, c, n)
<1> DEFINE Missing == {k \in 0 .. n : ~\E f : AreCode(f, c, k)}
<1>1. SUFFICES ASSUME Missing # {} PROVE FALSE
  <2>1. n \in 0 .. n
    OBVIOUS
  <2> QED BY <2>1, Zenon
<1>2. \A k \in 0 .. n : k \notin Missing <=> \E f : AreCode(f, c, k)
  BY Zenon
<1>3. Missing \subseteq Nat /\ Missing \subseteq 0 .. n
  OBVIOUS
<1> HIDE DEF Missing
<1>4. PICK k \in Missing : \A m \in Missing : ~(<<m, k>> \in OpToRel(<, Nat))
  BY <1>1, <1>3, NatLessThanWellFounded, WFMin
<1>5. k \in 0 .. n
  BY <1>4, <1>3
<1>6. CASE k = 0
  <2>1. PICK f : f = [t \in 1 .. 0 |-> 0]
    OBVIOUS
  <2>2. AreCode(f, c, 0)
    BY <2>1 DEF AreCode
  <2>3. \E h : AreCode(h, c, k)
    BY <1>6, <2>2
  <2> QED BY <1>2, <1>4, <1>5, <2>3, Zenon
<1>7. CASE k # 0
  <2>1. PICK j \in Nat : k = j + 1
    <3>1. k - 1 \in Nat /\ k = (k - 1) + 1
      BY <1>7, <1>5
    <3> QED BY <3>1
  <2>2. j \notin Missing /\ k <= n /\ j \in 0 .. n /\ k \in 0 .. n
    <3>1. <<j, k>> \in OpToRel(<, Nat)
      BY <2>1 DEF OpToRel
    <3>2. j \notin Missing
      BY <1>4, <3>1, Zenon
    <3> QED BY <1>5, <2>1, <3>2
  <2>3. PICK f : AreCode(f, c, j)
    BY <1>2, <2>2, Zenon
  <2>4. PICK g : g = [i \in 1 .. k |-> IF i < k THEN f[i] ELSE CG!GenBy(c, f, k)]
    OBVIOUS
  <2>5. ASSUME NEW i \in 1 .. k PROVE g[i] = CG!GenBy(c, g, i)
    <3>1. g[i] = CG!GenBy(c, f, i)
      <4>1. CASE i = k
        BY <2>4, <4>1
      <4>2. CASE i # k
        <5>1. i \in 1 .. j /\ i < k
          BY <2>1, <4>2
        <5>2. g[i] = f[i] /\ f[i] = CG!GenBy(c, f, i)
          BY <2>3, <2>4, <5>1 DEF AreCode
        <5> QED BY <5>2
      <4> QED BY <4>1, <4>2
    <3>2. \A m \in 1 .. i - 1 : f[m] = g[m]
      <4>1. \A m \in 1 .. i - 1 : m \in 1 .. k /\ m < k
        BY <2>1
      <4> QED BY <2>4, <4>1
    <3>3. i \in DOMAIN nodes
      BY <2>1, <2>2
    <3> QED BY <3>1, <3>2, <3>3, CodeOfSame
  <2>6. AreCode(g, c, k)
    BY <2>4, <2>5 DEF AreCode
  <2>7. \E h : AreCode(h, c, k)
    BY <2>6
  <2> QED BY <1>2, <1>4, <1>5, <2>7, Zenon
<1> QED BY <1>6, <1>7

LEMMA CodePiece ==
  ASSUME HirIsOrdered, NEW c, NEW root \in DOMAIN nodes
  PROVE  IsPiece(CG!Code(c)[root].value, c.name)
<1>1. PICK n \in Nat : DOMAIN nodes = 1 .. n
  BY DEF HirIsOrdered
<1>2. PICK g : g = CG!Code(c)
  OBVIOUS
<1>3. AreCode(g, c, n)
  <2>1. g = CHOOSE f : f = [i \in DOMAIN nodes |-> CG!GenBy(c, f, i)]
    BY <1>2 DEF CG!Code
  <2>2. g = CHOOSE f : AreCode(f, c, n)
    BY <2>1, <1>1 DEF AreCode
  <2> QED BY <2>2, <1>1, CodeExist
<1>4. \A i \in 1 .. n : g[i] = CG!GenBy(c, g, i)
  BY <1>3 DEF AreCode
<1> DEFINE Fine(i) == IsPiece(g[i].value, c.name) /\ IsPiece(g[i].address, c.name)
           Bad == {i \in 1 .. n : ~Fine(i)}
<1>5. SUFFICES ASSUME Bad # {} PROVE FALSE
  BY <1>1, <1>2
<1>6. Bad \subseteq Nat /\ Bad \subseteq 1 .. n /\ \A i \in 1 .. n : i \notin Bad <=> Fine(i)
  OBVIOUS
<1> HIDE DEF Bad, Fine
<1>7. PICK i \in Bad : \A m \in Bad : ~(<<m, i>> \in OpToRel(<, Nat))
  BY <1>5, <1>6, NatLessThanWellFounded, WFMin
<1>8. i \in 1 .. n /\ ~Fine(i) /\ i \in DOMAIN nodes
  BY <1>1, <1>6, <1>7
<1>9. ASSUME NEW m \in 1 .. i - 1 PROVE Fine(m)
  <2>1. <<m, i>> \in OpToRel(<, Nat) /\ m \in 1 .. n
    BY <1>8 DEF OpToRel
  <2>2. m \notin Bad
    BY <1>7, <2>1, Zenon
  <2> QED BY <1>6, <2>1, <2>2, Zenon
<1>10. PiecesBefore(c, g, i)
  BY <1>9 DEF Fine, PiecesBefore
<1>11. g[i].value = CG!Gen(c, g, i) /\ g[i].address = CG!GenAddress(c, g, i)
  <2>1. g[i] = CG!GenBy(c, g, i)
    BY <1>4, <1>8
  <2>2. PICK v, a : v = CG!Gen(c, g, i) /\ a = CG!GenAddress(c, g, i)
    OBVIOUS
  <2>3. CG!GenBy(c, g, i) = [address |-> a, value |-> v]
    BY <2>2 DEF CG!GenBy
  <2>4. g[i] = [address |-> a, value |-> v]
    BY <2>1, <2>3, Zenon
  <2>5. g[i].value = v /\ g[i].address = a
    BY <2>4
  <2> QED BY <2>2, <2>5
<1>12. Fine(i)
  BY <1>8, <1>10, <1>11, AddressPiece, ValuePiece DEF Fine
<1> QED BY <1>8, <1>12

--------------------------------------------------------------------------------
(* The code of a function, and the assembly of several.                    *)

\* The first part of the label of a function's name.
NameWord == "_"
NameLabel(name) == <<NameWord, name>>

\* It begins with its name.  Its labels are its own, and so are its branches.
IsFunctionCode(code, name) ==
  /\ 1 \in DOMAIN code /\ code[1] = CG!Label(NameLabel(name))
  /\ \E D : /\ \A x \in D : x[1] # NameWord /\ x[2] = name
            /\ Contains(code, {NameLabel(name)} \cup D, D)

LEMMA NameWordFact == NameWord \notin LabelWords /\ NameWord # "RETURN"
BY Zenon DEF NameWord, LabelWords

LEMMA FrameCodePlain ==
  ASSUME NEW size
  PROVE  IsPlain(CG!Prologue(size)) /\ IsPlain(CG!Epilogue(size))
<1>1. PICK a, b, c, d : /\ a = <<"sub_sp", 16>> /\ b = <<"stp_fp_lr_[sp]">> /\ c = <<"mov_fp_sp">>
                        /\ d = <<"sub_sp", size>>
  OBVIOUS
<1>2. PICK e, f, g, h : /\ e = <<"add_sp", size>> /\ f = <<"ldp_fp_lr_[sp]">> /\ g = <<"add_sp", 16>>
                        /\ h = <<"ret">>
  OBVIOUS
<1>3. /\ a[1] \notin {"label", "b", "cbz"} /\ b[1] \notin {"label", "b", "cbz"}
      /\ c[1] \notin {"label", "b", "cbz"} /\ d[1] \notin {"label", "b", "cbz"}
  BY <1>1
<1>4. /\ e[1] \notin {"label", "b", "cbz"} /\ f[1] \notin {"label", "b", "cbz"}
      /\ g[1] \notin {"label", "b", "cbz"} /\ h[1] \notin {"label", "b", "cbz"}
  BY <1>2
<1>5. IsPlain(<<a, b, c, d>>)
  BY <1>3, PlainCodes
<1>6. IsPlain(<<e, f, g, h>>)
  BY <1>4, PlainCodes
<1> QED BY <1>1, <1>2, <1>5, <1>6 DEF CG!Prologue, CG!Epilogue

LEMMA FirstStays ==
  ASSUME NEW s, IsSequence(s), 1 \in DOMAIN s, NEW t, IsSequence(t)
  PROVE  IsSequence(s \o t) /\ 1 \in DOMAIN (s \o t) /\ (s \o t)[1] = s[1]
<1>1. PICK u, k, l : u = s \o t /\ k = Len(s) /\ l = Len(t)
  OBVIOUS
<1>2. /\ IsSequence(u) /\ k \in Nat /\ l \in Nat /\ DOMAIN s = 1 .. k /\ DOMAIN u = 1 .. k + l
      /\ \A i \in 1 .. k : u[i] = s[i]
  BY <1>1, ConcatFact
<1> QED BY <1>1, <1>2

LEMMA OwnCode ==
  ASSUME NEW a, NEW p, NEW r, NEW l, NEW e, NEW name, NEW D, NEW R, NEW N,
         Contains(a, N, {}), IsPlain(p), Contains(r, D, D \cup R), Contains(l, R, {}), IsPlain(e),
         N \cap D = {}, R \cap D = {}, N \cap R = {}
  PROVE  Contains(a \o p \o r \o l \o e, N \cup (D \cup R), D \cup R)
<1>1. Contains(p, {}, {}) /\ Contains(e, {}, {})
  BY PlainContains
<1>2. PICK s : s = a \o p
  OBVIOUS
<1>3. Contains(s, N \cup {}, {} \cup {})
  <2>1. N \cap {} = {}
    OBVIOUS
  <2> QED BY <1>1, <1>2, <2>1, ContainsConcat
<1>4. N \cup {} = N /\ {} \cup {} = {}
  OBVIOUS
<1>5. Contains(s, N, {})
  BY <1>3, <1>4, Zenon
<1>6. PICK t : t = s \o r
  OBVIOUS
<1>7. Contains(t, N \cup D, {} \cup (D \cup R))
  BY <1>5, <1>6, ContainsConcat
<1>8. PICK u : u = t \o l
  OBVIOUS
<1>9. (N \cup D) \cap R = {}
  OBVIOUS
<1>10. Contains(u, (N \cup D) \cup R, ({} \cup (D \cup R)) \cup {})
  BY <1>7, <1>8, <1>9, ContainsConcat
<1>11. ((N \cup D) \cup R) \cap {} = {}
  OBVIOUS
<1>12. Contains(u \o e, ((N \cup D) \cup R) \cup {}, (({} \cup (D \cup R)) \cup {}) \cup {})
  BY <1>1, <1>10, <1>11, ContainsConcat
<1>13. /\ ((N \cup D) \cup R) \cup {} = N \cup (D \cup R)
       /\ (({} \cup (D \cup R)) \cup {}) \cup {} = D \cup R
  OBVIOUS
<1>14. Contains(u \o e, N \cup (D \cup R), D \cup R)
  BY <1>12, <1>13, Zenon
<1> QED BY <1>2, <1>6, <1>8, <1>14

CodeOfFunction(f, layout) ==
  CG!FunctionCode(f, layout,
                  CG!Code([name |-> f.name, layout |-> layout])[f.body].value[0].code)

LEMMA CodeOfFunctionFact ==
  ASSUME HirIsOrdered, NEW f, f.body \in DOMAIN nodes, NEW layout
  PROVE  IsFunctionCode(CodeOfFunction(f, layout), f.name)
<1>1. PICK name, c, p : /\ name = f.name /\ c = [name |-> f.name, layout |-> layout]
                        /\ p = CG!Code(c)[f.body].value
  OBVIOUS
<1>2. c.name = name
  BY <1>1
<1>3. IsPiece(p, name)
  BY <1>1, <1>2, CodePiece
<1>4. PICK high, r : high = p[0].id /\ r = p[0].code
  OBVIOUS
<1>5. PICK D \in SUBSET Numbered(name, 0, high) :
        Contains(r, D \cup {}, D \cup {} \cup {ReturnLabel(name)})
  <2>1. Part(p, name, 0, {}, {}) /\ 0 \in Nat /\ 0 >= 0
    BY <1>3 DEF IsPiece
  <2>2. \E D \in SUBSET Numbered(name, 0, p[0].id) :
          Contains(p[0].code, D \cup {}, D \cup {} \cup {ReturnLabel(name)})
    BY <2>1, Zenon DEF Part
  <2> QED BY <1>4, <2>2, Zenon
<1>6. PICK R, N : R = {ReturnLabel(name)} /\ N = {NameLabel(name)}
  OBVIOUS
<1>7. Contains(r, D, D \cup R)
  <2>1. D \cup {} = D /\ D \cup {} \cup {ReturnLabel(name)} = D \cup R
    BY <1>6
  <2> QED BY <1>5, <2>1, Zenon
<1>8. ASSUME NEW x \in D PROVE x[1] \in LabelWords /\ x[2] = name
  <2>1. PICK w \in LabelWords, i \in 0 .. high - 1 : x = <<w, name, i>>
    BY <1>5 DEF Numbered
  <2> QED BY <2>1
<1>9. ReturnLabel(name)[1] = "RETURN" /\ ReturnLabel(name)[2] = name
  BY DEF ReturnLabel
<1>10. NameLabel(name)[1] = NameWord /\ NameLabel(name)[2] = name
  BY DEF NameLabel
<1>11. N \cap D = {} /\ R \cap D = {} /\ N \cap R = {}
  <2> NameWord \notin LabelWords /\ "RETURN" \notin LabelWords /\ NameWord # "RETURN"
    BY NameWordFact DEF LabelWords
  <2>1. NameLabel(name) \notin D
    BY <1>8, <1>10, Zenon
  <2>2. ReturnLabel(name) \notin D
    BY <1>8, <1>9, Zenon
  <2>3. NameLabel(name) # ReturnLabel(name)
    BY <1>9, <1>10, Zenon
  <2> QED BY <1>6, <2>1, <2>2, <2>3, Zenon
<1>12. PICK a, q, l, e : /\ a = <<CG!Label(NameLabel(name))>> /\ q = CG!Prologue(layout.size)
                         /\ l = <<CG!Label(ReturnLabel(name))>> /\ e = CG!Epilogue(layout.size)
  OBVIOUS
<1>13. Contains(a, N, {}) /\ Contains(l, R, {})
  BY <1>6, <1>12, LabelContains
<1>14. IsPlain(q) /\ IsPlain(e)
  BY <1>12, FrameCodePlain
<1>15. PICK code : code = a \o q \o r \o l \o e
  OBVIOUS
<1>16. Contains(code, N \cup (D \cup R), D \cup R)
  BY <1>7, <1>11, <1>13, <1>14, <1>15, OwnCode
<1>17. 1 \in DOMAIN code /\ code[1] = CG!Label(NameLabel(name))
  <2>1. IsSequence(a) /\ 1 \in DOMAIN a /\ a[1] = CG!Label(NameLabel(name))
    BY <1>12 DEF IsSequence
  <2>2. IsSequence(q) /\ IsSequence(r) /\ IsSequence(l) /\ IsSequence(e)
    BY <1>7, <1>13, <1>14 DEF Contains, IsPlain
  <2>3. PICK s : s = a \o q
    OBVIOUS
  <2>4. PICK t : t = s \o r
    OBVIOUS
  <2>5. PICK u : u = t \o l
    OBVIOUS
  <2>6. IsSequence(s) /\ 1 \in DOMAIN s /\ s[1] = a[1]
    BY <2>1, <2>2, <2>3, FirstStays
  <2>7. IsSequence(t) /\ 1 \in DOMAIN t /\ t[1] = s[1]
    BY <2>2, <2>4, <2>6, FirstStays
  <2>8. IsSequence(u) /\ 1 \in DOMAIN u /\ u[1] = t[1]
    BY <2>2, <2>5, <2>7, FirstStays
  <2>9. code = u \o e
    BY <1>15, <2>3, <2>4, <2>5
  <2>10. 1 \in DOMAIN code /\ code[1] = u[1]
    BY <2>2, <2>8, <2>9, FirstStays
  <2> QED BY <2>1, <2>6, <2>7, <2>8, <2>10
<1>18. ASSUME NEW x \in D \cup R PROVE x[1] # NameWord /\ x[2] = name
  <2>1. NameWord \notin LabelWords /\ NameWord # "RETURN"
    BY NameWordFact
  <2>2. CASE x \in D
    BY <1>8, <2>1, <2>2, Zenon
  <2>3. CASE x \in R
    <3>1. x = ReturnLabel(name)
      BY <1>6, <2>3
    <3> QED BY <1>9, <2>1, <3>1, Zenon
  <2> QED BY <1>18, <2>2, <2>3, Zenon
<1>19. IsFunctionCode(code, name)
  <2>1. PICK E : E = D \cup R
    OBVIOUS
  <2>2. Contains(code, {NameLabel(name)} \cup E, E)
    BY <1>6, <1>16, <2>1, Zenon
  <2>3. \A x \in E : x[1] # NameWord /\ x[2] = name
    BY <1>18, <2>1, Zenon
  <2> QED BY <1>17, <2>2, <2>3, Zenon DEF IsFunctionCode
<1>20. CodeOfFunction(f, layout) = code
  <2>1. CodeOfFunction(f, layout)
        = <<CG!Label(<<"_", f.name>>)>> \o CG!Prologue(layout.size) \o p[0].code
            \o <<CG!Label(<<"RETURN", f.name>>)>> \o CG!Epilogue(layout.size)
    BY <1>1, Zenon DEF CodeOfFunction, CG!FunctionCode
  <2>2. a = <<CG!Label(<<"_", f.name>>)>> /\ l = <<CG!Label(<<"RETURN", f.name>>)>>
    BY <1>1, <1>12, Zenon DEF NameLabel, NameWord, ReturnLabel
  <2> QED BY <1>4, <1>12, <1>15, <2>1, <2>2, Zenon
<1> QED BY <1>1, <1>19, <1>20

\* The labels belong to the functions of names, and every branch goes to a
\* label of its own function.
AssemblyFits(code, names) ==
  /\ IsSequence(code)
  /\ \A i \in DefinedAt(code) : code[i][2][2] \in names
  /\ \A i \in BranchesAt(code) : \E j \in DefinedAt(code) :
       /\ code[j][2] = code[i][2]
       /\ \A k \in DefinedAt(code) : code[k][2][1] = NameWord => (k < i <=> k < j)
AreApart(code) == \A i, j \in DefinedAt(code) : i # j => code[i] # code[j]

\* Where the labels of u = s \o t are, when s is of length k.
JoinsLabels(s, t, u, k) ==
  /\ IsSequence(u) /\ k \in Nat
  /\ DefinedAt(s) \subseteq 1 .. k /\ DefinedAt(t) \subseteq Nat \ {0}
  /\ \A i \in DefinedAt(s) : i \in DefinedAt(u) /\ u[i] = s[i]
  /\ \A m \in DefinedAt(t) : k + m \in DefinedAt(u) /\ u[k + m] = t[m]
  /\ \A i \in DefinedAt(u) : \/ i \in DefinedAt(s) /\ u[i] = s[i]
                             \/ \E m \in DefinedAt(t) : i = k + m /\ u[i] = t[m]
  /\ \A i \in BranchesAt(u) :
       \/ i \in BranchesAt(s) /\ i \in 1 .. k /\ u[i] = s[i]
       \/ \E m \in BranchesAt(t) : i = k + m /\ m \in Nat \ {0} /\ u[i] = t[m]

LEMMA LabelsOfConcat ==
  ASSUME NEW s, NEW t, IsSequence(s), IsSequence(t), NEW u, u = s \o t, NEW k, k = Len(s)
  PROVE  JoinsLabels(s, t, u, k)
<1>1. PICK l : l = Len(t)
  OBVIOUS
<1>2. /\ IsSequence(u) /\ k \in Nat /\ l \in Nat
      /\ DOMAIN s = 1 .. k /\ DOMAIN t = 1 .. l /\ DOMAIN u = 1 .. k + l
      /\ \A i \in 1 .. k : u[i] = s[i]
      /\ \A i \in 1 .. l : u[k + i] = t[i]
  BY <1>1, ConcatFact
<1>3. \A i \in DOMAIN u : i \in 1 .. k \/ \E m \in 1 .. l : i = k + m
  <2>1. ASSUME NEW i \in DOMAIN u, i \notin 1 .. k PROVE \E m \in 1 .. l : i = k + m
    <3>1. i - k \in 1 .. l /\ i = k + (i - k)
      BY <1>2, <2>1
    <3> QED BY <3>1
  <2> QED BY <2>1
<1>4. DefinedAt(s) \subseteq 1 .. k /\ DefinedAt(t) \subseteq Nat \ {0}
  BY <1>2 DEF DefinedAt
<1>5. ASSUME NEW i \in DefinedAt(s) PROVE i \in DefinedAt(u) /\ u[i] = s[i]
  <2>1. i \in 1 .. k /\ i \in DOMAIN u /\ s[i][1] = "label"
    BY <1>2 DEF DefinedAt
  <2>2. u[i] = s[i]
    BY <1>2, <2>1
  <2> QED BY <2>1, <2>2 DEF DefinedAt
<1>6. ASSUME NEW m \in DefinedAt(t) PROVE k + m \in DefinedAt(u) /\ u[k + m] = t[m]
  <2>1. m \in 1 .. l /\ t[m][1] = "label"
    BY <1>2 DEF DefinedAt
  <2>2. PICK i : i = k + m /\ i \in DOMAIN u /\ u[i] = t[m]
    BY <1>2, <2>1
  <2>3. i \in DefinedAt(u)
    BY <2>1, <2>2 DEF DefinedAt
  <2> QED BY <2>2, <2>3
<1>7. ASSUME NEW i \in DefinedAt(u)
      PROVE  \/ i \in DefinedAt(s) /\ u[i] = s[i]
             \/ \E m \in DefinedAt(t) : i = k + m /\ u[i] = t[m]
  <2>1. CASE i \in 1 .. k
    BY <1>2, <2>1 DEF DefinedAt
  <2>2. CASE \E m \in 1 .. l : i = k + m
    <3>1. PICK m \in 1 .. l : i = k + m
      BY <2>2
    <3>2. u[i] = t[m] /\ m \in DefinedAt(t)
      BY <1>2, <3>1 DEF DefinedAt
    <3> QED BY <3>1, <3>2
  <2> QED BY <1>3, <2>1, <2>2 DEF DefinedAt
<1>8. ASSUME NEW i \in BranchesAt(u)
      PROVE  \/ i \in BranchesAt(s) /\ i \in 1 .. k /\ u[i] = s[i]
             \/ \E m \in BranchesAt(t) : i = k + m /\ m \in Nat \ {0} /\ u[i] = t[m]
  <2>1. CASE i \in 1 .. k
    BY <1>2, <2>1 DEF BranchesAt
  <2>2. CASE \E m \in 1 .. l : i = k + m
    <3>1. PICK m \in 1 .. l : i = k + m
      BY <2>2
    <3>2. u[i] = t[m] /\ m \in BranchesAt(t)
      BY <1>2, <3>1 DEF BranchesAt
    <3>3. m \in Nat \ {0}
      BY <1>2, <3>1
    <3> QED BY <3>1, <3>2, <3>3
  <2> QED BY <1>3, <2>1, <2>2 DEF BranchesAt
<1> QED BY <1>2, <1>4, <1>5, <1>6, <1>7, <1>8 DEF JoinsLabels

\* In the code of a function, only its first label is a name.
LEMMA FunctionLabels ==
  ASSUME NEW code, NEW name, IsFunctionCode(code, name)
  PROVE  /\ IsSequence(code)
         /\ \A i \in DefinedAt(code) : code[i][2][2] = name /\ (code[i][2][1] = NameWord => i = 1)
         /\ \A i \in BranchesAt(code) :
              i # 1 /\ \E j \in DefinedAt(code) : code[j][2] = code[i][2] /\ j # 1
         /\ \A i, j \in DefinedAt(code) : code[i][2] = code[j][2] => i = j
<1>1. PICK N : N = NameLabel(name)
  OBVIOUS
<1>2. N[1] = NameWord /\ N[2] = name
  BY <1>1 DEF NameLabel
<1>3. PICK D : /\ \A x \in D : x[1] # NameWord /\ x[2] = name
               /\ Contains(code, {N} \cup D, D)
  BY <1>1, Zenon DEF IsFunctionCode
<1>4. code[1][1] = "label" /\ code[1][2] = N /\ 1 \in DefinedAt(code)
  BY <1>1 DEF IsFunctionCode, CG!Label, DefinedAt
<1>5. \A i, j \in DefinedAt(code) : code[i][2] = code[j][2] => i = j
  BY <1>3, Zenon DEF Contains
<1>6. ASSUME NEW i \in DefinedAt(code)
      PROVE  code[i][2][2] = name /\ (code[i][2][1] = NameWord => i = 1)
  <2>1. code[i][2] = N \/ code[i][2] \in D
    <3>1. code[i][2] \in {N} \cup D
      BY <1>3, Zenon DEF Contains
    <3> QED BY <3>1
  <2>2. CASE code[i][2] = N
    <3>1. code[i][2] = code[1][2]
      BY <1>4, <2>2
    <3>2. i = 1
      BY <1>4, <1>5, <3>1, Zenon
    <3> QED BY <1>2, <2>2, <3>2
  <2>3. CASE code[i][2] \in D
    BY <1>3, <2>3
  <2> QED BY <2>1, <2>2, <2>3
<1>7. ASSUME NEW i \in BranchesAt(code)
      PROVE  i # 1 /\ \E j \in DefinedAt(code) : code[j][2] = code[i][2] /\ j # 1
  <2>1. i # 1
    BY <1>4 DEF BranchesAt
  <2>2. code[i][2] \in D
    BY <1>3 DEF Contains
  <2>3. PICK j \in DefinedAt(code) : code[j][2] = code[i][2]
    <3>1. \A x \in {N} \cup D : \E j \in DefinedAt(code) : code[j][2] = x
      BY <1>3, Zenon DEF Contains
    <3> QED BY <2>2, <3>1
  <2>4. j # 1
    <3>1. code[j][2][1] # NameWord
      BY <1>3, <2>2, <2>3
    <3> QED BY <1>2, <1>4, <3>1
  <2> QED BY <2>1, <2>3, <2>4
<1>8. IsSequence(code)
  BY <1>3 DEF Contains
<1> QED BY <1>5, <1>6, <1>7, <1>8

LEMMA AssemblyGrows ==
  ASSUME NEW s, NEW names, AssemblyFits(s, names), NEW t, NEW name, IsFunctionCode(t, name)
  PROVE  /\ AssemblyFits(s \o t, names \cup {name})
         /\ AreApart(s) /\ name \notin names => AreApart(s \o t)
<1>1. PICK u, k : u = s \o t /\ k = Len(s)
  OBVIOUS
<1>2. /\ IsSequence(t)
      /\ \A i \in DefinedAt(t) : t[i][2][2] = name /\ (t[i][2][1] = NameWord => i = 1)
      /\ \A i \in BranchesAt(t) :
           i # 1 /\ \E j \in DefinedAt(t) : t[j][2] = t[i][2] /\ j # 1
      /\ \A i, j \in DefinedAt(t) : t[i][2] = t[j][2] => i = j
  BY FunctionLabels
<1>3. IsSequence(s)
  BY DEF AssemblyFits
<1>4. /\ IsSequence(u) /\ k \in Nat
      /\ DefinedAt(s) \subseteq 1 .. k /\ DefinedAt(t) \subseteq Nat \ {0}
      /\ \A i \in DefinedAt(s) : i \in DefinedAt(u) /\ u[i] = s[i]
      /\ \A m \in DefinedAt(t) : k + m \in DefinedAt(u) /\ u[k + m] = t[m]
      /\ \A i \in DefinedAt(u) : \/ i \in DefinedAt(s) /\ u[i] = s[i]
                                 \/ \E m \in DefinedAt(t) : i = k + m /\ u[i] = t[m]
      /\ \A i \in BranchesAt(u) :
           \/ i \in BranchesAt(s) /\ i \in 1 .. k /\ u[i] = s[i]
           \/ \E m \in BranchesAt(t) : i = k + m /\ m \in Nat \ {0} /\ u[i] = t[m]
  <2> HIDE <1>2
  <2>1. IsSequence(t)
    BY <1>2
  <2>2. JoinsLabels(s, t, u, k)
    BY <1>1, <1>3, <2>1, LabelsOfConcat
  <2> QED BY <2>2 DEF JoinsLabels
<1>5. ASSUME NEW i \in DefinedAt(u) PROVE u[i][2][2] \in names \cup {name}
  <2>1. CASE i \in DefinedAt(s) /\ u[i] = s[i]
    BY <2>1 DEF AssemblyFits
  <2>2. CASE \E m \in DefinedAt(t) : i = k + m /\ u[i] = t[m]
    <3>1. PICK m \in DefinedAt(t) : u[i] = t[m]
      BY <2>2
    <3> QED BY <1>2, <3>1
  <2> QED BY <1>4, <2>1, <2>2
<1>6. ASSUME NEW i \in BranchesAt(u)
      PROVE  \E j \in DefinedAt(u) :
               /\ u[j][2] = u[i][2]
               /\ \A h \in DefinedAt(u) : u[h][2][1] = NameWord => (h < i <=> h < j)
  <2>1. CASE i \in BranchesAt(s) /\ i \in 1 .. k /\ u[i] = s[i]
    <3>1. PICK j \in DefinedAt(s) :
            /\ s[j][2] = s[i][2]
            /\ \A h \in DefinedAt(s) : s[h][2][1] = NameWord => (h < i <=> h < j)
      BY <2>1 DEF AssemblyFits
    <3>2. j \in DefinedAt(u) /\ u[j][2] = u[i][2] /\ j \in 1 .. k
      BY <1>4, <2>1, <3>1
    <3>3. ASSUME NEW h \in DefinedAt(u), u[h][2][1] = NameWord PROVE h < i <=> h < j
      <4>1. CASE h \in DefinedAt(s) /\ u[h] = s[h]
        BY <3>1, <3>3, <4>1
      <4>2. CASE \E m \in DefinedAt(t) : h = k + m /\ u[h] = t[m]
        <5>1. PICK m \in Nat \ {0} : h = k + m
          BY <1>4, <4>2
        <5> QED BY <1>4, <2>1, <3>2, <5>1
      <4> QED BY <1>4, <4>1, <4>2
    <3> QED BY <3>2, <3>3
  <2>2. CASE \E m \in BranchesAt(t) : i = k + m /\ m \in Nat \ {0} /\ u[i] = t[m]
    <3>1. PICK m \in BranchesAt(t) : i = k + m /\ m \in Nat \ {0} /\ u[i] = t[m]
      BY <2>2
    <3>2. PICK n \in DefinedAt(t) : t[n][2] = t[m][2] /\ n # 1 /\ m # 1
      BY <1>2, <3>1
    <3>3. PICK j : j = k + n
      OBVIOUS
    <3>4. j \in DefinedAt(u) /\ u[j][2] = u[i][2] /\ n \in Nat \ {0}
      BY <1>4, <3>1, <3>2, <3>3
    <3>5. ASSUME NEW h \in DefinedAt(u), u[h][2][1] = NameWord PROVE h < i <=> h < j
      <4>1. CASE h \in DefinedAt(s) /\ u[h] = s[h]
        <5>1. h \in 1 .. k
          BY <1>4, <4>1
        <5> QED BY <1>4, <3>1, <3>3, <3>4, <5>1
      <4>2. CASE \E o \in DefinedAt(t) : h = k + o /\ u[h] = t[o]
        <5>1. PICK o \in DefinedAt(t) : h = k + o /\ u[h] = t[o]
          BY <4>2
        <5>2. o = 1
          BY <1>2, <3>5, <5>1
        <5>3. h = k + 1
          BY <5>1, <5>2
        <5> QED BY <1>4, <3>1, <3>2, <3>3, <3>4, <5>3
      <4> QED BY <1>4, <4>1, <4>2
    <3> QED BY <3>4, <3>5
  <2> QED BY <1>4, <2>1, <2>2
<1>7. AssemblyFits(u, names \cup {name})
  BY <1>4, <1>5, <1>6 DEF AssemblyFits
<1>8. ASSUME AreApart(s), name \notin names PROVE AreApart(u)
  <2> SUFFICES ASSUME NEW i \in DefinedAt(u), NEW j \in DefinedAt(u), i # j, u[i] = u[j]
               PROVE  FALSE
    BY DEF AreApart
  <2>1. CASE i \in DefinedAt(s) /\ u[i] = s[i] /\ j \in DefinedAt(s) /\ u[j] = s[j]
    <3>1. s[i] = s[j]
      BY <2>1
    <3> QED BY <1>8, <2>1, <3>1 DEF AreApart
  <2>2. CASE /\ \E m \in DefinedAt(t) : i = k + m /\ u[i] = t[m]
             /\ \E m \in DefinedAt(t) : j = k + m /\ u[j] = t[m]
    <3>1. PICK m \in DefinedAt(t), n \in DefinedAt(t) :
            i = k + m /\ u[i] = t[m] /\ j = k + n /\ u[j] = t[n]
      BY <2>2
    <3>2. t[m][2] = t[n][2]
      BY <3>1
    <3>3. m = n
      BY <1>2, <3>2, Zenon
    <3> QED BY <3>1, <3>3
  <2>3. ASSUME NEW a \in DefinedAt(s), NEW b \in DefinedAt(t), s[a] = t[b] PROVE FALSE
    <3>1. s[a][2][2] \in names
      BY DEF AssemblyFits
    <3>2. t[b][2][2] = name
      BY <1>2
    <3> QED BY <1>8, <2>3, <3>1, <3>2
  <2>4. ASSUME NEW a \in DefinedAt(s), NEW b, b \in DefinedAt(u), u[a] = s[a], u[a] = u[b],
               \E m \in DefinedAt(t) : b = k + m /\ u[b] = t[m]
        PROVE  FALSE
    <3>1. PICK m \in DefinedAt(t) : u[b] = t[m]
      BY <2>4
    <3> QED BY <2>3, <2>4, <3>1
  <2> QED BY <1>4, <2>1, <2>2, <2>4
<1> QED BY <1>1, <1>7, <1>8

\* The names of the functions that have been generated.
NamesGenerated == {functions[f].name : f \in 1 .. generated}
NamesAreApart ==
  \A i, j \in DOMAIN functions : functions[i].name = functions[j].name => i = j

LabelsInv ==
  /\ AssemblyFits(assembly, NamesGenerated)
  /\ NamesAreApart => AreApart(assembly)

LEMMA NoLabels ==
  ASSUME NEW names
  PROVE  AssemblyFits(<<>>, names) /\ AreApart(<<>>)
<1>1. PICK code : code = <<>>
  OBVIOUS
<1>2. IsSequence(code) /\ DefinedAt(code) = {} /\ BranchesAt(code) = {}
  BY <1>1 DEF IsSequence, DefinedAt, BranchesAt
<1>3. AssemblyFits(code, names) /\ AreApart(code)
  BY <1>2 DEF AssemblyFits, AreApart
<1> QED BY <1>1, <1>3

LEMMA LabelsInit ==
  ASSUME CompilerInit
  PROVE  LabelsInv
<1>1. assembly = <<>>
  BY DEF CompilerInit, CG!Init
<1> QED BY <1>1, NoLabels DEF LabelsInv

LEMMA LabelsLower ==
  ASSUME FramesInv, LowerStep
  PROVE  LabelsInv'
<1>1. status # "done" /\ UNCHANGED generating
  BY LoweringRuns DEF LowerStep
<1>2. assembly' = <<>>
  BY <1>1 DEF FramesInv, generating
<1>3. PICK names : names = NamesGenerated'
  OBVIOUS
<1>4. AssemblyFits(assembly', names) /\ AreApart(assembly')
  BY <1>2, NoLabels
<1>5. AssemblyFits(assembly, NamesGenerated)' /\ AreApart(assembly)'
  BY <1>3, <1>4 DEF AssemblyFits, AreApart, DefinedAt, BranchesAt
<1> QED BY <1>5 DEF LabelsInv

LEMMA LabelsUnchanged ==
  ASSUME LabelsInv, UNCHANGED <<functions, generated, assembly>>
  PROVE  LabelsInv'
<1>1. NamesGenerated' = NamesGenerated /\ (NamesAreApart' <=> NamesAreApart)
  BY DEF NamesGenerated, NamesAreApart
<1>2. AssemblyFits(assembly, NamesGenerated)' /\ (AreApart(assembly)' <=> AreApart(assembly))
  BY <1>1 DEF LabelsInv, AssemblyFits, AreApart, DefinedAt, BranchesAt
<1> QED BY <1>1, <1>2 DEF LabelsInv

LEMMA LabelsGenerate ==
  ASSUME FramesInv, LabelsInv, CG!GenerateFunction
  PROVE  LabelsInv'
<1>1. functions' = functions
  <2>1. UNCHANGED CG!hir
    BY Zenon DEF CG!GenerateFunction
  <2> QED BY <2>1 DEF CG!hir
<1>2. PICK n \in Nat : n = generated /\ n + 1 \in DOMAIN functions
  <2>1. PICK k, l : k = generated /\ l = Len(functions)
    OBVIOUS
  <2>2. k \in 0 .. l /\ k < l /\ l \in Nat /\ DOMAIN functions = 1 .. l
    <3>1. generated < Len(functions)
      BY Zenon DEF CG!GenerateFunction
    <3> QED BY <2>1, <3>1, SequenceFact DEF FramesInv, IInv, FunctionsFit
  <2>3. k \in Nat /\ k + 1 \in DOMAIN functions
    BY <2>2
  <2> QED BY <2>1, <2>3
<1>3. PICK f, layout : f = functions[n + 1] /\ layout = CG!Layout(f)
  OBVIOUS
<1>4. CASE assembly' = assembly /\ generated' = generated
  BY <1>1, <1>4, LabelsUnchanged
<1>5. CASE /\ assembly' = assembly \o CodeOfFunction(f, layout)
           /\ generated' = generated + 1
  <2>1. PICK code, name : code = CodeOfFunction(f, layout) /\ name = f.name
    OBVIOUS
  <2>2. IsFunctionCode(code, name)
    <3>1. f.body \in DOMAIN nodes
      BY <1>2, <1>3 DEF FramesInv, IInv, FunctionsFit
    <3> QED BY <2>1, <3>1, HirFact, CodeOfFunctionFact DEF FramesInv
  <2>3. assembly' = assembly \o code
    BY <1>5, <2>1, Zenon
  <2>4. PICK s, names : s = assembly /\ names = NamesGenerated
    OBVIOUS
  <2>5. AssemblyFits(s, names) /\ (NamesAreApart => AreApart(s))
    BY <2>4 DEF LabelsInv
  <2>6. PICK u : u = s \o code
    OBVIOUS
  <2>7. /\ AssemblyFits(u, names \cup {name})
        /\ AreApart(s) /\ name \notin names => AreApart(u)
    BY <2>2, <2>5, <2>6, AssemblyGrows
  <2>8. NamesGenerated' = names \cup {name}
    <3>1. 1 .. n + 1 = (1 .. n) \cup {n + 1}
      BY <1>2
    <3>2. NamesGenerated' = {functions[i].name : i \in 1 .. n + 1}
      <4>1. generated' = n + 1
        BY <1>2, <1>5, Zenon
      <4> QED BY <1>1, <4>1 DEF NamesGenerated
    <3>3. names = {functions[i].name : i \in 1 .. n} /\ name = functions[n + 1].name
      BY <1>2, <1>3, <2>1, <2>4 DEF NamesGenerated
    <3> QED BY <3>1, <3>2, <3>3
  <2>9. NamesAreApart => name \notin names
    <3>1. 1 .. n \subseteq DOMAIN functions /\ \A i \in 1 .. n : i # n + 1
      <4>1. DOMAIN functions = 1 .. Len(functions)
        BY SequenceFact DEF FramesInv, IInv, FunctionsFit
      <4> QED BY <1>2, <4>1
    <3>2. SUFFICES ASSUME NamesAreApart, name \in names PROVE FALSE
      OBVIOUS
    <3>3. PICK i \in 1 .. n : functions[i].name = name
      BY <1>2, <2>4, <3>2 DEF NamesGenerated
    <3>4. functions[n + 1].name = name
      BY <1>3, <2>1
    <3> QED BY <1>2, <3>1, <3>2, <3>3, <3>4 DEF NamesAreApart
  <2>10. AssemblyFits(assembly, NamesGenerated)'
    <3>1. assembly' = u
      BY <2>3, <2>4, <2>6
    <3> QED BY <2>7, <2>8, <3>1 DEF AssemblyFits, DefinedAt, BranchesAt
  <2>11. NamesAreApart' => AreApart(assembly)'
    <3>1. assembly' = u
      BY <2>3, <2>4, <2>6
    <3>2. NamesAreApart' => AreApart(u)
      BY <1>1, <2>5, <2>7, <2>9 DEF NamesAreApart
    <3> QED BY <3>1, <3>2 DEF AreApart, DefinedAt
  <2> QED BY <2>10, <2>11 DEF LabelsInv
<1> QED BY <1>2, <1>3, <1>4, <1>5, Zenon DEF CG!GenerateFunction, CodeOfFunction

LEMMA LabelsNext == FramesInv /\ LabelsInv /\ [CompilerNext]_compilerVars => LabelsInv'
<1> SUFFICES ASSUME FramesInv, LabelsInv, [CompilerNext]_compilerVars PROVE LabelsInv'
  OBVIOUS
<1>1. CASE LowerStep
  BY <1>1, LabelsLower
<1>2. CASE CodegenStep
  <2>1. CASE CG!GenerateFunction
    BY <2>1, LabelsGenerate
  <2>2. CASE CG!EndCodegen
    BY <2>2, LabelsUnchanged DEF CG!EndCodegen, CG!hir
  <2> QED BY <1>2, <2>1, <2>2 DEF CodegenStep, CG!Next
<1>3. CASE ShowErrors \/ WriteAssembly \/ UNCHANGED compilerVars
  BY <1>3, LabelsUnchanged DEF ShowErrors, WriteAssembly, compilerVars, generating, vars, hir
<1> QED BY <1>1, <1>2, <1>3 DEF CompilerNext

(* When all functions have been generated, no label is defined twice, and  *)
(* every branch goes to one of its own function, if no two functions have  *)
(* the same name: the counter of labels never comes back to a number that  *)
(* it has given (codegen.c:401-427, 497-511).                              *)
THEOREM LabelsNeverClash == CompilerSpec => []LabelsAreUnique
<1>1. CompilerInit => FramesInv /\ LabelsInv
  BY FramesInit, LabelsInit
<1>2. FramesInv /\ LabelsInv /\ [CompilerNext]_compilerVars => (FramesInv /\ LabelsInv)'
  BY FramesNext, LabelsNext
<1>3. LabelsInv => LabelsAreUnique
  <2> SUFFICES ASSUME LabelsInv,
                      CG!IsInjective([i \in DOMAIN functions |-> functions[i].name])
               PROVE  AssemblyFits(assembly, NamesGenerated) /\ AreApart(assembly)
    BY Zenon DEF LabelsAreUnique, CG!LabelsAreUnique, AssemblyFits, AreApart, DefinedAt,
      BranchesAt, NameWord
  <2>1. NamesAreApart
    BY DEF CG!IsInjective, NamesAreApart
  <2> QED BY <2>1 DEF LabelsInv
<1> QED BY <1>1, <1>2, <1>3, PTL DEF CompilerSpec
================================================================================
