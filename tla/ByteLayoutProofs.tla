-------------------------- MODULE ByteLayoutProofs --------------------------
(***************************************************************************)
(* Proofs about the order of the bytes in a word, for any number of lanes. *)
(***************************************************************************)
EXTENDS ByteLayout, TLAPS

-----------------------------------------------------------------------------
(* Division *)

LEMMA MulMono ==
    ASSUME NEW a \in Int, NEW b \in Int, NEW n \in Nat, a <= b
    PROVE  a * n \in Int /\ b * n \in Int /\ a * n <= b * n
BY SMTT(20)

LEMMA Euclid ==
    ASSUME NEW k \in Nat, NEW n \in Nat \ {0}
    PROVE  /\ k \div n \in Nat /\ k % n \in 0..(n - 1)
           /\ (k \div n) * n \in Nat
           /\ k = (k \div n) * n + (k % n)
<1>1. k \div n \in Nat /\ k % n \in 0..(n - 1)
  BY SMTT(30)
<1>2. (k \div n) * n \in Nat
  BY <1>1, SMTT(20)
<1>3. k = n * (k \div n) + (k % n)
  BY SMTT(30)
<1>4. n * (k \div n) = (k \div n) * n
  BY <1>1, SMTT(20)
<1> QED BY <1>1, <1>2, <1>3, <1>4

LEMMA Split ==
    ASSUME NEW k \in Nat, NEW n \in Nat \ {0}
    PROVE  \E q \in Nat, r \in 0..(n - 1) : k = q * n + r
BY Euclid

\* There is one way to split a number into a multiple and a rest.
LEMMA OneSplit ==
    ASSUME NEW n \in Nat \ {0}, NEW j \in Nat, NEW l \in 0..(n - 1)
    PROVE  /\ j * n \in Nat
           /\ (j * n + l) \div n = j /\ (j * n + l) % n = l
<1>1. j * n \in Nat
  BY SMTT(20)
<1>2. PICK k \in Nat : k = j * n + l
  BY <1>1
<1>3. PICK q \in Nat : /\ q = k \div n /\ q * n \in Nat
                       /\ k = q * n + (k % n) /\ k % n \in 0..(n - 1)
  BY Euclid
<1>4. ASSUME q + 1 <= j PROVE FALSE
  <2>1. (q + 1) * n <= j * n /\ (q + 1) * n = q * n + n
    BY <1>4, MulMono, SMTT(20)
  <2> QED BY <1>1, <1>2, <1>3, <2>1
<1>5. ASSUME j + 1 <= q PROVE FALSE
  <2>1. (j + 1) * n <= q * n /\ (j + 1) * n = j * n + n
    BY <1>5, MulMono, SMTT(20)
  <2> QED BY <1>1, <1>2, <1>3, <2>1
<1>6. q = j
  BY <1>4, <1>5
<1>7. k % n = l
  BY <1>1, <1>2, <1>3, <1>6
<1> QED BY <1>1, <1>2, <1>3, <1>6, <1>7

-----------------------------------------------------------------------------
(* Elements and their places *)

Per(e) == 8 \div 2^e              \* elements of a lane
PlaceOf(e, j) == Reversed[e + 1][j + 1]

LEMMA Geometry ==
    ASSUME NEW e \in Widths
    PROVE  \/ e = 0 /\ 2^e = 1 /\ Per(e) = 8
           \/ e = 1 /\ 2^e = 2 /\ Per(e) = 4
           \/ e = 2 /\ 2^e = 4 /\ Per(e) = 2
           \/ e = 3 /\ 2^e = 8 /\ Per(e) = 1
<1>1. 2^0 = 1 /\ 2^1 = 2 /\ 2^2 = 4 /\ 2^3 = 8
  OBVIOUS
<1>2. 8 \div 1 = 8 /\ 8 \div 2 = 4 /\ 8 \div 4 = 2 /\ 8 \div 8 = 1
  OBVIOUS
<1>3. e = 0 \/ e = 1 \/ e = 2 \/ e = 3
  BY DEF Widths
<1> QED BY <1>1, <1>2, <1>3 DEF Per

LEMMA Positive ==
    ASSUME NEW e \in Widths
    PROVE  2^e \in Nat \ {0} /\ Per(e) \in Nat \ {0}
BY Geometry

\* The element of a lane and the byte of an element make a byte of the lane.
LEMMA LaneBytes ==
    ASSUME NEW e \in Widths
    PROVE  /\ \A i \in 0..(Per(e) - 1), o \in 0..(2^e - 1) :
                 i * 2^e \in Nat /\ i * 2^e + o \in 0..7
           /\ \A x \in 0..7 : \E i \in 0..(Per(e) - 1), o \in 0..(2^e - 1) :
                 x = i * 2^e + o
<1>1. PICK s, m : s = 2^e /\ m = Per(e)
  OBVIOUS
<1> DEFINE Goal ==
        /\ \A i \in 0..(m - 1), o \in 0..(s - 1) :
              i * s \in Nat /\ i * s + o \in 0..7
        /\ \A x \in 0..7 : \E i \in 0..(m - 1), o \in 0..(s - 1) : x = i * s + o
<1>2. (s = 1 /\ m = 8) => Goal
  <2>1. /\ \A i \in 0..(8 - 1), o \in 0..(1 - 1) :
              i * 1 \in Nat /\ i * 1 + o \in 0..7
        /\ \A x \in 0..7 : x \in 0..(8 - 1) /\ 0 \in 0..(1 - 1) /\ x = x * 1 + 0
    OBVIOUS
  <2> QED BY <2>1
<1>3. (s = 2 /\ m = 4) => Goal
  <2>1. \A i \in 0..(4 - 1), o \in 0..(2 - 1) :
           i * 2 \in Nat /\ i * 2 + o \in 0..7
    OBVIOUS
  <2>2. \A x \in 0..7 : \E i \in 0..(4 - 1), o \in 0..(2 - 1) : x = i * 2 + o
    OBVIOUS
  <2> QED BY <2>1, <2>2
<1>4. (s = 4 /\ m = 2) => Goal
  <2>1. \A i \in 0..(2 - 1), o \in 0..(4 - 1) :
           i * 4 \in Nat /\ i * 4 + o \in 0..7
    OBVIOUS
  <2>2. \A x \in 0..7 : \E i \in 0..(2 - 1), o \in 0..(4 - 1) : x = i * 4 + o
    OBVIOUS
  <2> QED BY <2>1, <2>2
<1>5. (s = 8 /\ m = 1) => Goal
  <2>1. \A i \in 0..(1 - 1), o \in 0..(8 - 1) :
           i * 8 \in Nat /\ i * 8 + o \in 0..7
    OBVIOUS
  <2>2. \A x \in 0..7 : \E i \in 0..(1 - 1), o \in 0..(8 - 1) : x = i * 8 + o
    OBVIOUS
  <2> QED BY <2>1, <2>2
<1>6. \/ s = 1 /\ m = 8
      \/ s = 2 /\ m = 4
      \/ s = 4 /\ m = 2
      \/ s = 8 /\ m = 1
  BY <1>1, Geometry
<1>7. Goal
  <2> HIDE DEF Goal
  <2> QED BY <1>2, <1>3, <1>4, <1>5, <1>6
<1> QED BY <1>1, <1>7, Zenon

\* Reversing the bits is a permutation of the elements of a lane.
LEMMA Permutation ==
    ASSUME NEW e \in Widths
    PROVE  /\ \A j \in 0..(Per(e) - 1) : PlaceOf(e, j) \in 0..(Per(e) - 1)
           /\ \A i \in 0..(Per(e) - 1) :
                 \E j \in 0..(Per(e) - 1) : PlaceOf(e, j) = i
           /\ \A i, j \in 0..(Per(e) - 1) : PlaceOf(e, i) = PlaceOf(e, j) => i = j
<1>1. CASE e = 0
  <2>1. /\ PlaceOf(0, 0) = 0 /\ PlaceOf(0, 1) = 4 /\ PlaceOf(0, 2) = 2
        /\ PlaceOf(0, 3) = 6 /\ PlaceOf(0, 4) = 1 /\ PlaceOf(0, 5) = 5
        /\ PlaceOf(0, 6) = 3 /\ PlaceOf(0, 7) = 7
    BY DEF PlaceOf, Reversed
  <2>2. Per(e) - 1 = 7
    BY <1>1, Geometry
  <2> QED BY <1>1, <2>1, <2>2
<1>2. CASE e = 1
  <2>1. /\ PlaceOf(1, 0) = 0 /\ PlaceOf(1, 1) = 2 /\ PlaceOf(1, 2) = 1
        /\ PlaceOf(1, 3) = 3
    BY DEF PlaceOf, Reversed
  <2>2. Per(e) - 1 = 3
    BY <1>2, Geometry
  <2> QED BY <1>2, <2>1, <2>2
<1>3. CASE e = 2
  <2>1. PlaceOf(2, 0) = 0 /\ PlaceOf(2, 1) = 1
    BY DEF PlaceOf, Reversed
  <2>2. Per(e) - 1 = 1
    BY <1>3, Geometry
  <2> QED BY <1>3, <2>1, <2>2
<1>4. CASE e = 3
  <2>1. PlaceOf(3, 0) = 0
    BY DEF PlaceOf, Reversed
  <2>2. Per(e) - 1 = 0
    BY <1>4, Geometry
  <2> QED BY <1>4, <2>1, <2>2
<1> QED BY <1>1, <1>2, <1>3, <1>4 DEF Widths

\* Byte o of element j of lane l, in the vector and in the word.
Byte(e, l, j, o) == (j * NrLanes + l) * 2^e + o
Cell(e, l, j, o) == 8 * l + PlaceOf(e, j) * 2^e + o

LEMMA ByteOfCell ==
    ASSUME NEW e \in Widths, NEW l \in Lanes, NEW j \in 0..(Per(e) - 1),
           NEW o \in 0..(2^e - 1)
    PROVE  /\ Byte(e, l, j, o) \in Bytes /\ Cell(e, l, j, o) \in Bytes
           /\ shuffle_index(Byte(e, l, j, o), e) = Cell(e, l, j, o)
           /\ Cell(e, l, j, o) \div 8 = l
           /\ Cell(e, l, j, o) % 8 = PlaceOf(e, j) * 2^e + o
           /\ Byte(e, l, j, o) \div 2^e = j * NrLanes + l
<1> USE LanesAssumption
<1>1. PICK k \in Nat : k = j * NrLanes /\ k + NrLanes <= Per(e) * NrLanes
  <2>1. Per(e) \in Nat /\ j \in Nat
    BY Geometry
  <2>2. j * NrLanes \in Nat
    BY <2>1, SMTT(20)
  <2>3. /\ (j + 1) * NrLanes <= Per(e) * NrLanes
        /\ (j + 1) * NrLanes = j * NrLanes + NrLanes
    BY <2>1, MulMono, SMTT(20)
  <2> QED BY <2>2, <2>3
<1>2. PICK i \in 0..(Per(e) - 1) : i = PlaceOf(e, j)
  BY Permutation
<1>3. PICK b \in Nat : b = (k + l) * 2^e + o
  BY Geometry DEF Lanes
<1>4. PICK p \in Nat : p = 8 * l + i * 2^e + o
  BY Geometry DEF Lanes
<1>5. Byte(e, l, j, o) = b /\ Cell(e, l, j, o) = p
  BY <1>1, <1>2, <1>3, <1>4 DEF Byte, Cell
<1>6. b \in Bytes /\ b \div 2^e = k + l /\ b % 2^e = o
  <2>1. (k + l) * 2^e \in Nat /\ b \div 2^e = k + l /\ b % 2^e = o
    <3>1. PICK h \in Nat : h = k + l
      BY <1>1 DEF Lanes
    <3> QED BY <1>3, <3>1, Positive, OneSplit
  <2>2. b < 8 * NrLanes
    <3>1. k + l + 1 <= Per(e) * NrLanes
      <4>1. Per(e) * NrLanes \in Nat
        BY Positive, LanesAssumption, SMTT(20)
      <4> QED BY <1>1, <4>1 DEF Lanes
    <3> QED BY <1>1, <1>3, <3>1, Geometry DEF Lanes
  <2> QED BY <2>1, <2>2 DEF Bytes
<1>7. p \in Bytes /\ p \div 8 = l /\ p % 8 = i * 2^e + o
  <2>1. PICK x \in 0..7 : x = i * 2^e + o /\ i * 2^e \in Nat
    BY LaneBytes
  <2>2. PICK h \in Nat : h = l
    BY DEF Lanes
  <2>3. p = h * 8 + x
    BY <1>4, <2>1, <2>2
  <2>4. p \div 8 = h /\ p % 8 = x
    BY <2>3, OneSplit
  <2> QED BY <1>4, <2>1, <2>2, <2>3, <2>4 DEF Bytes, Lanes
<1>8. (k + l) \div NrLanes = j /\ (k + l) % NrLanes = l
  <2>1. j \in Nat
    BY Geometry
  <2> QED BY <1>1, <2>1, OneSplit DEF Lanes
<1>9. shuffle_index(b, e) = p
  BY <1>2, <1>4, <1>6, <1>8 DEF shuffle_index, PlaceOf
<1> QED BY <1>1, <1>2, <1>5, <1>6, <1>7, <1>9

LEMMA CellOfByte ==
    ASSUME NEW e \in Widths, NEW b \in Bytes
    PROVE  \E l \in Lanes, j \in 0..(Per(e) - 1), o \in 0..(2^e - 1) :
               b = Byte(e, l, j, o)
<1> USE LanesAssumption
<1>1. PICK k \in Nat, o \in 0..(2^e - 1) :
         b = k * 2^e + o /\ k < Per(e) * NrLanes
  <2>1. b \in Nat /\ b < 8 * NrLanes
    BY DEF Bytes
  <2>2. PICK k \in Nat, o \in 0..(2^e - 1) : b = k * 2^e + o
    BY <2>1, Positive, Split
  <2>3. k < Per(e) * NrLanes
    BY <2>1, <2>2, Geometry
  <2> QED BY <2>2, <2>3
<1>2. PICK j \in Nat, l \in 0..(NrLanes - 1) :
         k = j * NrLanes + l /\ j * NrLanes \in Nat
  BY Euclid
<1>3. j \in 0..(Per(e) - 1)
  <2>1. Per(e) \in Nat
    BY Geometry
  <2>2. ASSUME Per(e) <= j PROVE FALSE
    <3>1. Per(e) * NrLanes <= j * NrLanes /\ Per(e) * NrLanes \in Int
      BY <2>1, <2>2, MulMono
    <3> QED BY <1>1, <1>2, <3>1
  <2> QED BY <2>1, <2>2
<1> QED BY <1>1, <1>2, <1>3 DEF Byte, Lanes

LEMMA CellOfPlace ==
    ASSUME NEW e \in Widths, NEW p \in Bytes
    PROVE  \E l \in Lanes, j \in 0..(Per(e) - 1), o \in 0..(2^e - 1) :
               p = Cell(e, l, j, o)
<1> USE LanesAssumption
<1>1. PICK l \in Lanes, i \in 0..(Per(e) - 1), o \in 0..(2^e - 1) :
        p = 8 * l + i * 2^e + o
  <2>1. PICK l \in Lanes, x \in 0..7 : p = 8 * l + x
    <3>1. PICK h \in Nat, x \in 0..7 : p = h * 8 + x
      <4>1. p \in Nat
        BY DEF Bytes
      <4>2. p \div 8 \in Nat /\ p % 8 \in 0..7 /\ p = (p \div 8) * 8 + (p % 8)
        BY <4>1
      <4> QED BY <4>2
    <3>2. h \in Lanes
      BY <3>1 DEF Bytes, Lanes
    <3> QED BY <3>1, <3>2
  <2>2. PICK i \in 0..(Per(e) - 1), o \in 0..(2^e - 1) : x = i * 2^e + o
    BY LaneBytes
  <2>3. i * 2^e \in Nat
    BY LaneBytes
  <2> QED BY <2>1, <2>2, <2>3 DEF Lanes
<1>2. PICK j \in 0..(Per(e) - 1) : PlaceOf(e, j) = i
  BY Permutation
<1> QED BY <1>1, <1>2 DEF Cell

LEMMA OneCell ==
    ASSUME NEW e \in Widths,
           NEW l \in Lanes, NEW j \in 0..(Per(e) - 1), NEW o \in 0..(2^e - 1),
           NEW m \in Lanes, NEW i \in 0..(Per(e) - 1), NEW q \in 0..(2^e - 1),
           Cell(e, l, j, o) = Cell(e, m, i, q)
    PROVE  l = m /\ j = i /\ o = q
<1>1. l = m /\ PlaceOf(e, j) * 2^e + o = PlaceOf(e, i) * 2^e + q
  BY ByteOfCell
<1>2. PICK x \in 0..(Per(e) - 1), y \in 0..(Per(e) - 1) :
         x = PlaceOf(e, j) /\ y = PlaceOf(e, i)
  BY Permutation
<1>3. x * 2^e + o = y * 2^e + q
  BY <1>1, <1>2
<1>4. x = y /\ o = q
  <2>1. x \in Nat /\ y \in Nat /\ 2^e \in Nat \ {0}
    BY Positive
  <2>2. (x * 2^e + o) \div 2^e = x /\ (x * 2^e + o) % 2^e = o
    BY <2>1, OneSplit
  <2>3. (y * 2^e + q) \div 2^e = y /\ (y * 2^e + q) % 2^e = q
    BY <2>1, OneSplit
  <2> QED BY <1>3, <2>2, <2>3
<1>5. PlaceOf(e, j) = PlaceOf(e, i)
  BY <1>2, <1>4
<1> QED BY <1>1, <1>4, <1>5, Permutation

(***************************************************************************)
(* Each width arranges the bytes of a word in its own order, and no two    *)
(* bytes come to lie in one place (ara_pkg.sv, shuffle_index).             *)
(***************************************************************************)
THEOREM ShuffleIsPermutation ==
    ASSUME NEW e \in Widths
    PROVE  /\ \A b \in Bytes : /\ shuffle_index(b, e) \in Bytes
                               /\ deshuffle_index(shuffle_index(b, e), e) = b
           /\ \A p \in Bytes : /\ deshuffle_index(p, e) \in Bytes
                               /\ shuffle_index(deshuffle_index(p, e), e) = p
<1>1. \A b \in Bytes : shuffle_index(b, e) \in Bytes
  BY CellOfByte, ByteOfCell
<1>2. \A b, c \in Bytes : shuffle_index(b, e) = shuffle_index(c, e) => b = c
  <2> SUFFICES ASSUME NEW b \in Bytes, NEW c \in Bytes,
                      shuffle_index(b, e) = shuffle_index(c, e)
               PROVE  b = c
    OBVIOUS
  <2>1. PICK l \in Lanes, j \in 0..(Per(e) - 1), o \in 0..(2^e - 1) :
           b = Byte(e, l, j, o)
    BY CellOfByte
  <2>2. PICK m \in Lanes, i \in 0..(Per(e) - 1), q \in 0..(2^e - 1) :
           c = Byte(e, m, i, q)
    BY CellOfByte
  <2>3. Cell(e, l, j, o) = Cell(e, m, i, q)
    BY <2>1, <2>2, ByteOfCell
  <2> QED BY <2>1, <2>2, <2>3, OneCell
<1>3. \A p \in Bytes : \E b \in Bytes : shuffle_index(b, e) = p
  <2> SUFFICES ASSUME NEW p \in Bytes
               PROVE  \E b \in Bytes : shuffle_index(b, e) = p
    OBVIOUS
  <2>1. PICK l \in Lanes, j \in 0..(Per(e) - 1), o \in 0..(2^e - 1) :
           p = Cell(e, l, j, o)
    BY CellOfPlace
  <2> QED BY <2>1, ByteOfCell
<1>4. \A p \in Bytes : /\ deshuffle_index(p, e) \in Bytes
                       /\ shuffle_index(deshuffle_index(p, e), e) = p
  BY <1>3 DEF deshuffle_index
<1>5. \A b \in Bytes : deshuffle_index(shuffle_index(b, e), e) = b
  BY <1>1, <1>2, <1>4
<1> QED BY <1>1, <1>4, <1>5

-----------------------------------------------------------------------------
(* The first elements of a word *)

LEMMA Whole ==
    ASSUME NEW e \in Widths
    PROVE  Elements(e) \in Nat /\ Elements(e) * 2^e = 8 * NrLanes
<1>1. NrLanes \in Nat
  BY LanesAssumption
<1>2. /\ (8 * NrLanes) \div 1 = 8 * NrLanes
      /\ (8 * NrLanes) \div 2 = 4 * NrLanes
      /\ (8 * NrLanes) \div 4 = 2 * NrLanes
      /\ (8 * NrLanes) \div 8 = NrLanes
  BY <1>1
<1> QED BY <1>1, <1>2, Geometry DEF Elements

\* The bytes of the first vl elements, found by counting them in memory.
WritesFirst(vl, e) ==
    word' = [p \in Bytes |-> IF deshuffle_index(p, e) < vl * 2^e
                             THEN deshuffle_index(p, e) ELSE word[p]]

LEMMA LoadWritesFirst ==
    ASSUME NEW e \in Widths, NEW vl \in 1..Elements(e), Load(vl, e)
    PROVE  WritesFirst(vl, e)
<1>1. vl * 2^e \in Nat /\ vl * 2^e <= 8 * NrLanes
  BY Whole, Positive, MulMono, LanesAssumption
<1> DEFINE written == {shuffle_index(b, e) : b \in 0..(vl * 2^e - 1)}
<1>2. ASSUME NEW p \in Bytes
      PROVE  p \in written <=> deshuffle_index(p, e) < vl * 2^e
  <2>1. /\ deshuffle_index(p, e) \in Bytes
        /\ shuffle_index(deshuffle_index(p, e), e) = p
    BY ShuffleIsPermutation
  <2>2. ASSUME p \in written PROVE deshuffle_index(p, e) < vl * 2^e
    <3>1. PICK b \in 0..(vl * 2^e - 1) : p = shuffle_index(b, e)
      BY <2>2
    <3>2. b \in Bytes /\ b < vl * 2^e
      BY <1>1, LanesAssumption DEF Bytes
    <3>3. deshuffle_index(p, e) = b
      BY <3>1, <3>2, ShuffleIsPermutation
    <3> QED BY <3>2, <3>3
  <2>3. ASSUME deshuffle_index(p, e) < vl * 2^e PROVE p \in written
    <3>1. deshuffle_index(p, e) \in 0..(vl * 2^e - 1)
      BY <1>1, <2>1, <2>3, LanesAssumption DEF Bytes
    <3> QED BY <2>1, <3>1
  <2> QED BY <2>2, <2>3
<1>3. word' = [p \in Bytes |-> IF p \in written THEN deshuffle_index(p, e)
                               ELSE word[p]]
  BY DEF Load
<1> HIDE DEF written
<1> QED BY <1>2, <1>3 DEF WritesFirst

\* The elements of a lane are those of the vector that are left to it.
LEMMA LaneShare ==
    ASSUME NEW vl \in Nat, NEW l \in Lanes, NEW j \in Nat
    PROVE  j < LaneVl(l, vl) <=> j * NrLanes + l < vl
<1> USE LanesAssumption
<1>1. PICK q \in Nat, r \in 0..(NrLanes - 1) :
         /\ q = vl \div NrLanes /\ r = vl % NrLanes
         /\ q * NrLanes \in Nat /\ vl = q * NrLanes + r
  BY Euclid
<1>2. LaneVl(l, vl) = q + (IF l < r THEN 1 ELSE 0)
  BY <1>1 DEF LaneVl
<1>3. l \in Nat /\ l < NrLanes /\ j * NrLanes \in Nat
  BY MulMono, SMTT(20) DEF Lanes
<1>4. CASE j < q
  <2>1. (j + 1) * NrLanes <= q * NrLanes /\ (j + 1) * NrLanes = j * NrLanes + NrLanes
    BY <1>4, MulMono, SMTT(20)
  <2>2. j < LaneVl(l, vl)
    BY <1>2, <1>4
  <2> QED BY <1>1, <1>3, <2>1, <2>2
<1>5. CASE j = q
  BY <1>1, <1>2, <1>3, <1>5
<1>6. CASE q < j
  <2>1. (q + 1) * NrLanes <= j * NrLanes /\ (q + 1) * NrLanes = q * NrLanes + NrLanes
    BY <1>6, MulMono, SMTT(20)
  <2>2. ~(j < LaneVl(l, vl))
    BY <1>2, <1>6
  <2> QED BY <1>1, <1>3, <2>1, <2>2
<1> QED BY <1>4, <1>5, <1>6

LEMMA ComputeWritesFirst ==
    ASSUME NEW e \in Widths, NEW vl \in 1..Elements(e), Compute(vl, e)
    PROVE  WritesFirst(vl, e)
<1>0. vl \in Nat
  BY Whole
<1>1. ASSUME NEW p \in Bytes
      PROVE  p % 8 \in be(LaneVl(p \div 8, vl), e)
                <=> deshuffle_index(p, e) < vl * 2^e
  <2>1. PICK l \in Lanes, j \in 0..(Per(e) - 1), o \in 0..(2^e - 1) :
           p = Cell(e, l, j, o)
    BY CellOfPlace
  <2>2. /\ p \div 8 = l /\ p % 8 = PlaceOf(e, j) * 2^e + o
        /\ deshuffle_index(p, e) = Byte(e, l, j, o)
    BY <2>1, ByteOfCell, ShuffleIsPermutation
  <2>3. PICK c : c = LaneVl(l, vl)
    OBVIOUS
  <2>4. p % 8 \in be(c, e) <=> j < c
    <3>1. be(c, e) = {PlaceOf(e, el) * 2^e + x :
                        el \in {y \in 0..(Per(e) - 1) : y < c}, x \in 0..(2^e - 1)}
      BY DEF be, PlaceOf, Per
    <3>2. ASSUME NEW el \in 0..(Per(e) - 1), NEW x \in 0..(2^e - 1),
                 PlaceOf(e, el) * 2^e + x = PlaceOf(e, j) * 2^e + o
          PROVE  el = j
      <4>1. Cell(e, l, el, x) = Cell(e, l, j, o)
        <5>1. PICK a \in Nat, d \in Nat :
                 a = PlaceOf(e, el) * 2^e /\ d = PlaceOf(e, j) * 2^e
          BY Permutation, LaneBytes
        <5> QED BY <3>2, <5>1 DEF Cell, Lanes
      <4> QED BY <4>1, OneCell
    <3> QED BY <2>2, <3>1, <3>2
  <2>5. j < c <=> j * NrLanes + l < vl
    <3>1. j \in Nat
      BY Positive
    <3> QED BY <1>0, <2>3, <3>1, LaneShare
  <2>6. j * NrLanes + l < vl <=> Byte(e, l, j, o) < vl * 2^e
    <3>1. PICK k \in Nat : k = j * NrLanes + l
      <4>1. j \in Nat /\ NrLanes \in Nat
        BY Positive, LanesAssumption
      <4>2. j * NrLanes \in Nat
        BY <4>1, SMTT(20)
      <4> QED BY <4>2 DEF Lanes
    <3>2. k < vl <=> k * 2^e + o < vl * 2^e
      BY <1>0, Geometry
    <3> QED BY <3>1, <3>2 DEF Byte
  <2> QED BY <2>2, <2>3, <2>4, <2>5, <2>6
<1> QED BY <1>1 DEF Compute, WritesFirst

-----------------------------------------------------------------------------
(***************************************************************************)
(* What is noted of a word is true of it: nothing was written to a word    *)
(* without a width, and one with a width is in its order.                  *)
(***************************************************************************)
WordShape ==
    /\ layout \in Widths \cup {Unwritten, Mixed}
    /\ len \in Nat

Blank == layout = Unwritten =>
             len = 0 /\ \A p \in Bytes : word[p] = Untouched

BInv == WordShape /\ Blank /\ OrderedAsNoted

LEMMA InitBInv == Init => BInv
BY ShuffleIsPermutation
   DEF Init, BInv, WordShape, Blank, OrderedAsNoted, Widths, Unwritten, Untouched

LEMMA WritePreserves ==
    ASSUME NEW e \in Widths, NEW vl \in 1..Elements(e), BInv,
           layout # Mixed \/ vl = Elements(e),
           WritesFirst(vl, e), Noted(vl, e)
    PROVE  BInv'
<1>1. vl * 2^e \in Nat
  BY Whole, Positive, MulMono
<1>2. WordShape'
  BY <1>1 DEF BInv, WordShape, Noted
<1>3. layout' # Unwritten
  BY DEF Noted, Widths, Unwritten, Mixed
<1>4. ASSUME layout' \in Widths, NEW b \in Bytes
      PROVE  LET c == word'[shuffle_index(b, layout')]
             IN  c = b \/ (c = Untouched /\ b >= len')
  <2>1. layout' = e /\ (layout \in {Unwritten, e} \/ vl = Elements(e))
    BY <1>4 DEF Noted, Widths, Mixed
  <2>2. PICK p \in Bytes : p = shuffle_index(b, e) /\ deshuffle_index(p, e) = b
    BY ShuffleIsPermutation
  <2>3. word'[p] = IF b < vl * 2^e THEN b ELSE word[p]
    BY <2>2 DEF WritesFirst
  <2>4. CASE b < vl * 2^e
    BY <2>1, <2>2, <2>3, <2>4
  <2>5. CASE ~(b < vl * 2^e)
    <3>1. b \in Nat /\ b >= vl * 2^e /\ word'[p] = word[p]
      BY <1>1, <2>3, <2>5, LanesAssumption DEF Bytes
    <3>2. vl # Elements(e)
      BY <3>1, Whole, LanesAssumption DEF Bytes
    <3>3. word[p] = b \/ (word[p] = Untouched /\ b >= len)
      BY <2>1, <2>2, <3>1, <3>2 DEF BInv, Blank, OrderedAsNoted
    <3>4. len' = len \/ len' = vl * 2^e
      BY DEF Noted
    <3> QED BY <2>1, <2>2, <3>1, <3>3, <3>4
  <2> QED BY <2>4, <2>5
<1> QED BY <1>2, <1>3, <1>4 DEF BInv, Blank, OrderedAsNoted

LEMMA ReshufflePreserves ==
    ASSUME NEW old \in Widths, NEW new \in Widths, BInv, layout # Mixed,
           Reshuffle(old, new)
    PROVE  BInv'
<1>1. /\ len' = len
      /\ word' = [p \in Bytes |-> word[shuffle_index(deshuffle_index(p, new), old)]]
      /\ layout' = IF layout \in {Unwritten, old} THEN new
                   ELSE IF old = new THEN layout ELSE Mixed
  BY DEF Reshuffle
<1>2. WordShape'
  BY <1>1 DEF BInv, WordShape
<1>3. layout' # Unwritten
  BY <1>1 DEF Widths, Unwritten, Mixed
<1>4. \A b \in Bytes : word'[shuffle_index(b, new)] = word[shuffle_index(b, old)]
  BY <1>1, ShuffleIsPermutation
<1>5. CASE layout = Unwritten
  <2>1. layout' = new /\ len' = 0
    BY <1>1, <1>5 DEF BInv, Blank
  <2>2. \A b \in Bytes : word'[shuffle_index(b, new)] = Untouched /\ b >= 0
    BY <1>4, <1>5, ShuffleIsPermutation, LanesAssumption DEF BInv, Blank, Bytes
  <2> QED BY <1>2, <1>3, <2>1, <2>2 DEF BInv, Blank, OrderedAsNoted
<1>6. CASE layout = old
  <2>1. layout' = new
    BY <1>1, <1>6
  <2> QED BY <1>1, <1>2, <1>3, <1>4, <1>6, <2>1 DEF BInv, Blank, OrderedAsNoted
<1>7. CASE layout \notin {Unwritten, old} /\ old = new
  <2>1. layout' = layout /\ layout \in Widths
    BY <1>1, <1>7 DEF BInv, WordShape
  <2>2. \A p \in Bytes : word'[p] = word[p]
    BY <1>1, <1>7, ShuffleIsPermutation
  <2>3. \A b \in Bytes : shuffle_index(b, layout) \in Bytes
    BY <2>1, ShuffleIsPermutation
  <2> QED BY <1>1, <1>2, <1>3, <2>1, <2>2, <2>3 DEF BInv, Blank, OrderedAsNoted
<1>8. CASE layout \notin {Unwritten, old} /\ old # new
  <2>1. layout' \notin Widths
    BY <1>1, <1>8 DEF Widths, Mixed
  <2> QED BY <1>2, <1>3, <2>1 DEF BInv, Blank, OrderedAsNoted
<1> QED BY <1>5, <1>6, <1>7, <1>8

(***************************************************************************)
(* With any number of lanes, whichever units wrote a word and however      *)
(* often it was reshuffled, reading it with the width noted for it finds   *)
(* the bytes in memory order.                                              *)
(***************************************************************************)
THEOREM AlwaysOrderedAsNoted == Spec => []OrderedAsNoted
<1>1. BInv /\ [Next]_vars => BInv'
  <2> SUFFICES ASSUME BInv, [Next]_vars PROVE BInv'
    OBVIOUS
  <2>1. CASE Next
    <3>0. PICK e \in Widths : \E vl \in 1..Elements(e) :
             /\ layout # Mixed \/ vl = Elements(e)
             /\ \/ Load(vl, e)
                \/ Compute(vl, e)
                \/ /\ vl = Elements(e) /\ layout # Mixed
                   /\ \E old \in Widths : Reshuffle(old, e)
      BY <2>1 DEF Next
    <3>1. PICK vl \in 1..Elements(e) :
             /\ layout # Mixed \/ vl = Elements(e)
             /\ \/ Load(vl, e)
                \/ Compute(vl, e)
                \/ /\ vl = Elements(e) /\ layout # Mixed
                   /\ \E old \in Widths : Reshuffle(old, e)
      BY <3>0
    <3>2. CASE Load(vl, e)
      BY <3>1, <3>2, LoadWritesFirst, WritePreserves DEF Load
    <3>3. CASE Compute(vl, e)
      BY <3>1, <3>3, ComputeWritesFirst, WritePreserves DEF Compute
    <3>4. CASE layout # Mixed /\ \E old \in Widths : Reshuffle(old, e)
      BY <3>4, ReshufflePreserves
    <3> QED BY <3>1, <3>2, <3>3, <3>4
  <2>2. CASE UNCHANGED vars
    BY <2>2 DEF vars, BInv, WordShape, Blank, OrderedAsNoted
  <2> QED BY <2>1, <2>2
<1>2. BInv => OrderedAsNoted
  BY DEF BInv
<1> QED BY InitBInv, <1>1, <1>2, PTL DEF Spec
=============================================================================
