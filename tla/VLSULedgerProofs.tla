-------------------------- MODULE VLSULedgerProofs --------------------------
(***************************************************************************)
(* The address generator and the load and store units count the bytes of   *)
(* an instruction each for itself, and agree: they end it with the same    *)
(* beat (CountedAlike).  The ledger that shows it: the commands follow one *)
(* another in the program, each from the byte where the one before it      *)
(* ends, and a unit has before it what the first command is to move.       *)
(***************************************************************************)
EXTENDS VLSUProofs

-----------------------------------------------------------------------------
(* Multiples of the width of a beat. *)

\* The number of a beat wraps where the longest burst ends.
LEMMA LenWraps ==
    ASSUME NEW x \in 0..(MaxBeats - 1)
    PROVE  (x + 1) % MaxBeats = IF x + 1 = MaxBeats THEN 0 ELSE x + 1
<1>1. PICK m \in Nat \ {0} : m = MaxBeats
  BY AxiAssumption
<1>2. CASE x + 1 = m
  <2>1. 1 * m = m /\ 0 \in 0..(m - 1) /\ 1 \in Int
    BY <1>1
  <2>2. (1 * m + 0) % m = 0
    BY <1>1, <2>1, OneQuotient
  <2>3. 1 * m + 0 = x + 1
    BY <1>2, <2>1
  <2> QED BY <1>1, <1>2, <2>2, <2>3
<1>3. CASE x + 1 # m
  <2>1. x + 1 \in 0..(m - 1) /\ 0 \in Int
    BY <1>1, <1>3
  <2>2. (0 * m + (x + 1)) % m = x + 1
    BY <1>1, <2>1, OneQuotient
  <2>3. 0 * m + (x + 1) = x + 1
    BY <1>1
  <2> QED BY <1>1, <1>3, <2>2, <2>3
<1> QED BY <1>2, <1>3, <1>1

\* Multiples of a width.
IsMultiple(a, w) == \E q \in Int : a = q * w

LEMMA MultipleFacts ==
    ASSUME NEW w \in Nat \ {0}, NEW a \in Int
    PROVE  /\ IsMultiple(a, w) <=> a % w = 0
           /\ IsMultiple(a, w) => aligned_addr(a, w) = a
           /\ IsMultiple(0, w) /\ IsMultiple(w, w)
           /\ IsMultiple(aligned_addr(a, w), w)
<1>1. ASSUME IsMultiple(a, w) PROVE a % w = 0 /\ aligned_addr(a, w) = a
  <2>1. PICK q \in Int : a = q * w
    BY <1>1 DEF IsMultiple
  <2>2. (q * w + 0) % w = 0 /\ q * w + 0 = a
    BY <2>1, OneQuotient
  <2> QED BY <2>2 DEF aligned_addr
<1>2. ASSUME a % w = 0 PROVE IsMultiple(a, w)
  <2>1. PICK q \in Int : a = q * w + (a % w)
    BY Divided
  <2>2. q * w \in Int
    BY Times1
  <2> QED BY <1>2, <2>1, <2>2 DEF IsMultiple
<1>3. IsMultiple(0, w) /\ IsMultiple(w, w)
  <2>1. 0 = 0 * w /\ w = 1 * w /\ 0 \in Int /\ 1 \in Int
    OBVIOUS
  <2> QED BY <2>1 DEF IsMultiple
<1>4. IsMultiple(aligned_addr(a, w), w)
  BY Aligned DEF IsMultiple
<1> QED BY <1>1, <1>2, <1>3, <1>4

LEMMA MultipleSum ==
    ASSUME NEW w \in Nat \ {0}, NEW a \in Int, NEW b \in Int, IsMultiple(a, w), IsMultiple(b, w)
    PROVE  /\ IsMultiple(a + b, w) /\ IsMultiple(a - b, w)
           /\ a < b => a + w <= b
<1>1. PICK q \in Int : a = q * w
  BY DEF IsMultiple
<1>2. PICK r \in Int : b = r * w
  BY DEF IsMultiple
<1>3. (q + r) * w = a + b
  BY <1>1, <1>2, Times1
<1>4. (q - r) * w = a - b
  <2>1. PICK d \in Int : d = q - r
    OBVIOUS
  <2>2. (d + r) * w = d * w + r * w /\ d * w \in Int
    BY <2>1, Times1
  <2>3. d + r = q
    BY <2>1
  <2> QED BY <1>1, <1>2, <2>1, <2>2, <2>3
<1>5. a < b => a + w <= b
  <2>1. r <= q => r * w <= q * w
    BY Times1
  <2>2. q < r => q * w + w <= r * w
    BY Times1
  <2> QED BY <1>1, <1>2, <2>1, <2>2
<1>6. q + r \in Int /\ q - r \in Int
  OBVIOUS
<1>7. IsMultiple(a + b, w) /\ IsMultiple(a - b, w)
  BY <1>3, <1>4, <1>6 DEF IsMultiple
<1> QED BY <1>5, <1>7

LEMMA MultipleTimes ==
    ASSUME NEW w \in Nat \ {0}, NEW a \in Int, NEW n \in Int, IsMultiple(a, w)
    PROVE  n * a \in Int /\ IsMultiple(n * a, w) /\ IsMultiple(n * w, w)
<1>1. PICK q \in Int : a = q * w
  BY DEF IsMultiple
<1>2. n * (q * w) = (n * q) * w
  BY Associates
<1>3. n * q \in Int /\ n * a \in Int
  BY SMTT(20)
<1> QED BY <1>1, <1>2, <1>3 DEF IsMultiple

\* The multiple of a width that divides it.
LEMMA MultipleOf ==
    ASSUME NEW v \in Nat \ {0}, NEW w \in Nat \ {0}, w % v = 0, NEW a \in Int, IsMultiple(a, w)
    PROVE  IsMultiple(a, v)
<1>1. IsMultiple(w, v)
  BY MultipleFacts
<1>2. PICK q \in Int : a = q * w
  BY DEF IsMultiple
<1> QED BY <1>1, <1>2, MultipleTimes

LEMMA SizesDivide ==
    ASSUME NEW v \in Sizes, NEW w \in Sizes, v <= w
    PROVE  w % v = 0
BY WidthAssumption DEF Sizes

-----------------------------------------------------------------------------
(* The bytes of the beats of a burst. *)

Gap(b) == aligned_addr(b.addr, b.size) + (b.len + 1) * b.size - b.addr

LEMMA BeatBytesInRow ==
    ASSUME NEW b, b.addr \in Int, b.size \in Sizes, NEW n \in Nat
    PROVE  /\ beat_addr(b, n) \in Int /\ Room(b, n) \in Nat \ {0}
           /\ beat_addr(b, n + 1) = beat_addr(b, n) + Room(b, n)
           /\ beat_addr(b, n + 1) = aligned_addr(b.addr, b.size) + (n + 1) * b.size
           /\ b.addr <= beat_addr(b, n)
           /\ b.addr % b.size = 0 => /\ Room(b, n) = b.size
                                     /\ beat_addr(b, n) = b.addr + n * b.size
<1>1. PICK w \in Sizes, a \in Int, s \in Int :
          w = b.size /\ a = b.addr /\ s = aligned_addr(a, w) /\ s <= a /\ a < s + w
          /\ IsMultiple(s, w)
  <2>1. b.size \in Nat \ {0}
    BY SizeFacts
  <2>2. /\ aligned_addr(b.addr, b.size) \in Int /\ aligned_addr(b.addr, b.size) <= b.addr
        /\ b.addr < aligned_addr(b.addr, b.size) + b.size
    BY <2>1, Aligned
  <2>3. IsMultiple(aligned_addr(b.addr, b.size), b.size)
    BY <2>1, MultipleFacts
  <2> QED BY <2>2, <2>3
<1>2. w \in Nat \ {0} /\ AxiBytes \in Nat \ {0}
  BY SizeFacts
<1>3. n * w \in Int /\ (n + 1) * w = n * w + w /\ (n # 0 => w <= n * w)
  <2>1. n # 0 => 1 * w <= n * w
    BY <1>2, Times1
  <2> QED BY <1>2, <2>1, Times1
<1>4. PICK x \in Int : x = beat_addr(b, n) /\ x = IF n = 0 THEN a ELSE s + n * w
  BY <1>1, <1>3 DEF beat_addr
<1>5. beat_addr(b, n + 1) = s + (n + 1) * w
  <2>1. n + 1 # 0
    OBVIOUS
  <2> QED BY <1>1, <2>1 DEF beat_addr
<1>6. aligned_addr(x, w) = s + n * w
  <2>1. CASE n = 0
    <3>1. x = a /\ n * w = 0
      BY <1>2, <1>4, <2>1
    <3> QED BY <1>1, <3>1
  <2>2. CASE n # 0
    <3>1. IsMultiple(n * w, w)
      BY <1>2, MultipleFacts, MultipleTimes
    <3>2. IsMultiple(s + n * w, w)
      BY <1>1, <1>2, <1>3, <3>1, MultipleSum
    <3> QED BY <1>2, <1>4, <2>2, <3>2, MultipleFacts
  <2> QED BY <2>1, <2>2
<1>7. PICK lower \in Int, upper \in Int :
          /\ lower = beat_lower_byte(b, n) /\ upper = beat_upper_byte(b, n) /\ lower <= upper
          /\ aligned_addr(x, AxiBytes) + upper = aligned_addr(x, w) + w - 1
  <2>1. /\ beat_lower_byte(b, n) \in 0..(AxiBytes - 1)
        /\ beat_upper_byte(b, n) \in 0..(AxiBytes - 1)
        /\ beat_lower_byte(b, n) <= beat_upper_byte(b, n)
        /\ BusAddr(b, n, beat_upper_byte(b, n)) =
               aligned_addr(beat_addr(b, n), b.size) + b.size - 1
    BY BeatLimits
  <2> QED BY <1>1, <1>2, <1>4, <2>1 DEF BusAddr
<1>8. lower = x - aligned_addr(x, AxiBytes) /\ aligned_addr(x, AxiBytes) \in Int
  <2>1. lower = x % AxiBytes /\ x % AxiBytes \in Int
    BY <1>2, <1>4, <1>7, Divided DEF beat_lower_byte
  <2>2. aligned_addr(x, AxiBytes) = x - (x % AxiBytes)
    BY DEF aligned_addr
  <2> QED BY <2>1, <2>2
<1>9. Room(b, n) = upper - lower + 1
  BY <1>7 DEF Room
<1>10. Room(b, n) = s + n * w + w - x /\ Room(b, n) \in Nat \ {0}
  <2>1. PICK y \in Int, m \in Int : y = aligned_addr(x, AxiBytes) /\ m = n * w
    BY <1>3, <1>8
  <2>2. y + upper = s + m + w - 1 /\ lower = x - y
    BY <1>6, <1>7, <1>8, <2>1
  <2>3. upper - lower + 1 = s + m + w - x /\ upper - lower + 1 \in Nat \ {0}
    BY <1>2, <1>7, <2>2
  <2> QED BY <1>9, <2>1, <2>3
<1>11. beat_addr(b, n + 1) = x + Room(b, n) /\ a <= x
  <2>1. PICK m \in Int, m1 \in Int, room \in Int :
            m = n * w /\ m1 = (n + 1) * w /\ m1 = m + w /\ room = Room(b, n)
    BY <1>2, <1>3, <1>10
  <2>2. beat_addr(b, n + 1) = s + m1 /\ room = s + m + w - x
    BY <1>5, <1>10, <2>1
  <2>3. beat_addr(b, n + 1) = x + room
    BY <1>2, <2>1, <2>2
  <2>4. n # 0 => w <= m
    BY <1>3, <2>1
  <2>5. x = IF n = 0 THEN a ELSE s + m
    BY <1>4, <2>1
  <2>6. a <= x
    BY <1>1, <1>2, <2>4, <2>5
  <2> QED BY <2>1, <2>3, <2>6
<1>12. a % w = 0 => s = a
  BY <1>1, <1>2, MultipleFacts
<1>13. a % w = 0 => Room(b, n) = w /\ x = a + n * w
  <2>1. n = 0 => n * w = 0
    BY <1>2
  <2> QED BY <1>2, <1>3, <1>4, <1>10, <1>12, <2>1
<1> QED BY <1>1, <1>4, <1>5, <1>10, <1>11, <1>13

\* From the first byte of a burst to the last.
LEMMA GapFacts ==
    ASSUME NEW b, b.addr \in Int, b.size \in Sizes, b.len \in Nat
    PROVE  /\ Gap(b) = beat_addr(b, b.len) + Room(b, b.len) - b.addr
           /\ Gap(b) = beat_addr(b, b.len + 1) - b.addr
           /\ Gap(b) \in Nat \ {0}
           /\ b.addr % b.size = 0 => Gap(b) = (b.len + 1) * b.size
<1>1. PICK l \in Nat : l = b.len
  OBVIOUS
<1>2. /\ beat_addr(b, l) \in Int /\ Room(b, l) \in Nat \ {0}
      /\ beat_addr(b, l + 1) = beat_addr(b, l) + Room(b, l)
      /\ beat_addr(b, l + 1) = aligned_addr(b.addr, b.size) + (l + 1) * b.size
      /\ b.addr <= beat_addr(b, l)
  BY BeatBytesInRow
<1>3. b.addr % b.size = 0 => aligned_addr(b.addr, b.size) = b.addr
  <2>1. b.size \in Nat \ {0}
    BY SizeFacts
  <2> QED BY <2>1, MultipleFacts
<1>4. (l + 1) * b.size \in Int
  <2>1. b.size \in Nat \ {0}
    BY SizeFacts
  <2> QED BY <2>1, Times1
<1>5. Gap(b) = aligned_addr(b.addr, b.size) + (l + 1) * b.size - b.addr
  BY <1>1 DEF Gap
<1>6. PICK g \in Int, x \in Int, room \in Nat \ {0} :
          /\ x = beat_addr(b, l) /\ room = Room(b, l) /\ g = x + room - b.addr
          /\ beat_addr(b, l + 1) = x + room /\ b.addr <= x
  BY <1>2
<1>7. Gap(b) = g
  <2>1. Gap(b) = beat_addr(b, l + 1) - b.addr
    <3>1. PICK e \in Int : e = (l + 1) * b.size
      BY <1>4
    <3>4. aligned_addr(b.addr, b.size) \in Int
      BY SizeFacts, Aligned
    <3>2. Gap(b) = aligned_addr(b.addr, b.size) + e - b.addr
      BY <1>5, <3>1
    <3>3. beat_addr(b, l + 1) = aligned_addr(b.addr, b.size) + e
      BY <1>2, <3>1
    <3> QED BY <3>2, <3>3, <3>4
  <2> QED BY <1>6, <2>1
<1>8. g \in Nat \ {0}
  BY <1>6
<1>9. b.addr % b.size = 0 => Gap(b) = (l + 1) * b.size
  BY <1>3, <1>4, <1>5
<1> QED BY <1>1, <1>6, <1>7, <1>8, <1>9

LEMMA BeatsAscend ==
    ASSUME NEW b, b.addr \in Int, b.size \in Sizes, NEW m \in Nat, NEW n \in Nat, m <= n
    PROVE  beat_addr(b, m) <= beat_addr(b, n)
<1>0. b.size \in Nat \ {0}
  BY SizeFacts
<1>1. CASE m = n
  <2>1. beat_addr(b, m) \in Int
    BY BeatBytesInRow
  <2> QED BY <1>1, <2>1
<1>2. CASE m = 0
  BY <1>2, BeatBytesInRow DEF beat_addr
<1>3. CASE 0 < m /\ m < n
  <2>1. PICK j \in Nat, k \in Nat : m = j + 1 /\ n = k + 1 /\ j <= k
    <3>1. m - 1 \in Nat /\ n - 1 \in Nat /\ m = (m - 1) + 1 /\ n = (n - 1) + 1 /\ m - 1 <= n - 1
      BY <1>3
    <3> QED BY <3>1
  <2>2. /\ beat_addr(b, j + 1) = aligned_addr(b.addr, b.size) + (j + 1) * b.size
        /\ beat_addr(b, k + 1) = aligned_addr(b.addr, b.size) + (k + 1) * b.size
    BY BeatBytesInRow
  <2>3. (j + 1) * b.size <= (k + 1) * b.size
        /\ (j + 1) * b.size \in Int /\ (k + 1) * b.size \in Int
    BY <1>0, <2>1, Times1
  <2>4. aligned_addr(b.addr, b.size) \in Int
    BY <1>0, Aligned
  <2> QED BY <2>1, <2>2, <2>3, <2>4
<1> QED BY <1>1, <1>2, <1>3

\* The stretch of a countable access is exactly the beats of its burst.
LEMMA StretchCounts ==
    ASSUME NEW a \in Int, NEW bytes \in Nat \ {0}, NEW w \in Sizes,
           NEW s, s = Stretch(a, bytes, w),
           a % w = 0 \/ (a % w) + bytes <= MaxBeats * w
    PROVE  /\ s.next \in Int /\ s.end = s.next - 1 /\ s.start = aligned_addr(a, w)
           /\ IsMultiple(s.next, w)
           /\ a < s.next /\ s.next - w < a + bytes
           /\ Beats(s, w) \in 1..MaxBeats /\ Beats(s, w) * w = s.next - s.start
<1>0. w \in Nat \ {0} /\ MaxBeats \in Nat \ {0}
  BY SizeFacts, AxiAssumption
<1>1. PICK start \in Int : /\ start = aligned_addr(a, w) /\ start <= a /\ a < start + w
                           /\ IsMultiple(start, w) /\ start = a - (a % w)
  BY <1>0, Aligned, MultipleFacts DEF aligned_addr
<1>2. PICK L \in Int : L = MaxBeats * w /\ w <= L /\ IsMultiple(L, w)
  <2>1. 1 * w <= MaxBeats * w /\ MaxBeats * w \in Int
    BY <1>0, Times1
  <2>2. IsMultiple(MaxBeats * w, w)
    BY <1>0, MultipleFacts, MultipleTimes
  <2> QED BY <1>0, <2>1, <2>2
<1>3. PICK next \in Int : next = IF bytes >= L THEN aligned_addr(a + L, w)
                                 ELSE aligned_addr(a + bytes - 1, w) + w
  <2>1. PICK x \in Int, y \in Int : x = a + L /\ y = a + bytes - 1
    OBVIOUS
  <2>2. aligned_addr(x, w) \in Int /\ aligned_addr(y, w) \in Int
    BY <1>0, Aligned
  <2> QED BY <1>0, <2>1, <2>2
<1>4. /\ IsMultiple(next, w) /\ start < next /\ next <= start + L /\ next - w < a + bytes
  <2>1. CASE bytes >= L
    <3>1. IsMultiple(start + L, w)
      BY <1>0, <1>1, <1>2, MultipleSum
    <3>2. PICK q \in Int, z \in Int : z = start + L /\ z = q * w
      BY <3>1 DEF IsMultiple
    <3>3. aligned_addr(a + L, w) = z
      <4>1. PICK x \in Int : x = a + L /\ z <= x /\ x < z + w
        BY <1>0, <1>1, <3>2
      <4>2. q * w <= x /\ x < q * w + w
        BY <3>2, <4>1
      <4>3. aligned_addr(x, w) = q * w
        BY <1>0, <3>2, <4>1, <4>2, OneAligned
      <4> QED BY <3>2, <4>1, <4>3
    <3>4. next = start + L
      BY <1>3, <2>1, <3>2, <3>3
    <3> QED BY <1>0, <1>1, <1>2, <2>1, <3>1, <3>4
  <2>2. CASE bytes < L
    <3>1. PICK y \in Int, z \in Int : /\ y = a + bytes - 1 /\ z = aligned_addr(y, w)
                                      /\ z <= y /\ y < z + w /\ IsMultiple(z, w)
      <4>1. PICK y \in Int : y = a + bytes - 1
        OBVIOUS
      <4> QED BY <1>0, <4>1, Aligned, MultipleFacts
    <3>2. next = z + w
      BY <1>3, <2>2, <3>1
    <3>3. IsMultiple(next, w)
      BY <1>0, <3>1, <3>2, MultipleFacts, MultipleSum
    <3>4. PICK m \in Int : m = a % w /\ start = a - m
      <4>1. a % w \in Int
        BY <1>0, Divided
      <4> QED BY <1>1, <4>1
    <3>5. m + bytes <= L
      BY <1>2, <2>2, <3>4
    <3>6. z < start + L
      BY <3>1, <3>4, <3>5
    <3>7. z + w <= start + L
      <4>1. PICK x \in Int : x = start + L
        OBVIOUS
      <4>2. IsMultiple(x, w)
        BY <1>0, <1>1, <1>2, <4>1, MultipleSum
      <4> QED BY <1>0, <3>1, <3>6, <4>1, <4>2, MultipleSum
    <3> QED BY <1>0, <1>1, <3>1, <3>2, <3>3, <3>7
  <2> QED BY <1>2, <2>1, <2>2
<1>5. PICK page \in Int : page = (Page(start) + 1) * PageBytes /\ start < page
                          /\ IsMultiple(page, w)
                          /\ (Page(start) # Page(next - 1) => page < next)
  <2>1. PICK q \in Int : start = q * w
    BY <1>1 DEF IsMultiple
  <2>2. /\ Page(start) \in Int /\ (Page(start) + 1) * PageBytes \in Int
        /\ Page(start) * PageBytes <= start
        /\ start + w <= (Page(start) + 1) * PageBytes
        /\ \A x \in Int : /\ Page(start) * PageBytes <= x
                          /\ x < (Page(start) + 1) * PageBytes
                          => Page(x) = Page(start)
        /\ \E z \in Int : (Page(start) + 1) * PageBytes = z * w
    BY <2>1, PageBorder
  <2>3. PICK p \in Int, page \in Int : p = Page(start) * PageBytes
                                       /\ page = (Page(start) + 1) * PageBytes
    BY <2>2, PageFacts, Times1
  <2>4. IsMultiple(page, w)
    BY <2>2, <2>3 DEF IsMultiple
  <2>5. start < page
    BY <1>0, <2>2, <2>3
  <2>6. Page(start) # Page(next - 1) => page < next
    <3>1. PICK x \in Int : x = next - 1 /\ start <= x
      BY <1>4
    <3>2. x < page => Page(x) = Page(start)
      <4>1. p <= start
        BY <2>2, <2>3
      <4>2. p <= x
        BY <3>1, <4>1
      <4> QED BY <2>2, <2>3, <4>2
    <3> QED BY <3>1, <3>2
  <2> QED BY <2>3, <2>4, <2>5, <2>6
<1>6. PICK n \in Int : /\ s = [start |-> start, end |-> n - 1, next |-> n]
                       /\ IsMultiple(n, w) /\ start < n /\ n <= start + L
                       /\ n - w < a + bytes
  <2>1. s = IF Page(start) = Page(next - 1)
            THEN [start |-> start, end |-> next - 1, next |-> next]
            ELSE [start |-> start, end |-> page - 1, next |-> page]
    <3>1. next = IF bytes >= MaxBeats * w
                 THEN aligned_addr(a + MaxBeats * w, w)
                 ELSE aligned_addr(a + bytes - 1, w) + w
      BY <1>2, <1>3
    <3> QED BY <1>1, <1>5, <3>1 DEF Stretch
  <2>2. CASE Page(start) = Page(next - 1)
    BY <1>4, <2>1, <2>2
  <2>3. CASE Page(start) # Page(next - 1)
    <3>1. page < next
      BY <1>5, <2>3
    <3>2. page <= start + L /\ page - w < a + bytes
      BY <1>0, <1>4, <3>1
    <3> QED BY <1>5, <2>1, <2>3, <3>2
  <2> QED BY <2>2, <2>3
<1>7. a < n
  <2>1. start + w <= n
    BY <1>0, <1>1, <1>6, MultipleSum
  <2> QED BY <1>0, <1>1, <2>1
<1>8. Beats(s, w) \in 1..MaxBeats /\ Beats(s, w) * w = n - start
  <2>1. IsMultiple(n - start, w)
    BY <1>0, <1>1, <1>6, MultipleSum
  <2>2. PICK k \in Int : n - start = k * w
    BY <2>1 DEF IsMultiple
  <2>3. PICK d \in Int : d = k * w /\ d = n - start /\ 0 < d /\ d <= L
    BY <1>6, <2>2
  <2>4. 1 <= k
    <3>1. k <= 0 => k * w <= 0 * w
      BY <1>0, Times1
    <3>2. 0 * w = 0
      BY <1>0
    <3> QED BY <2>3, <3>1, <3>2
  <2>5. k <= MaxBeats
    <3>1. MaxBeats < k => MaxBeats * w + w <= k * w
      BY <1>0, Times1
    <3> QED BY <1>0, <1>2, <2>3, <3>1
  <2>6. (n - 1 - start) \div w = k - 1
    <3>1. (k - 1) * w = d - w /\ (k - 1) * w \in Int
      BY <1>0, <2>3, Times1
    <3>2. w - 1 \in 0..(w - 1) /\ k - 1 \in Int
      BY <1>0
    <3>3. ((k - 1) * w + (w - 1)) \div w = k - 1
      BY <1>0, <3>2, OneQuotient
    <3>4. n - 1 - start = (k - 1) * w + (w - 1)
      BY <1>0, <2>3, <3>1
    <3> QED BY <3>3, <3>4
  <2>7. Beats(s, w) = Least(MaxBeats, k)
    <3>1. s.end = n - 1 /\ s.start = start
      BY <1>6
    <3>2. (s.end - s.start) \div w + 1 = k
      BY <2>6, <3>1
    <3> QED BY <3>2 DEF Beats
  <2>8. Beats(s, w) = k
    BY <1>0, <2>5, <2>7 DEF Least
  <2> QED BY <1>0, <2>2, <2>4, <2>5, <2>8
<1> QED BY <1>1, <1>6, <1>7, <1>8

-----------------------------------------------------------------------------
(***************************************************************************)
(* The instructions a unit has yet to issue, q[1] to q[c], are those of    *)
(* its direction in the program g from instruction F to n.  P bytes of F   *)
(* are moved; w words of the first of them are complete, ib bytes of it    *)
(* are in the others, vp of these are moved.                               *)
(***************************************************************************)
Holds(g, q, c, ib, vp, dir, F, P, n) ==
    /\ \A k \in 1..c : q[k].id \in F..n /\ q[k] = g[q[k].id] /\ is_load(q[k].op) = dir
    /\ \A j \in 1..c, k \in 1..c : j < k => q[j].id < q[k].id
    /\ \A m \in F..n : is_load(g[m].op) = dir => \E k \in 1..c : q[k].id = m
    /\ c # 0 => \E w \in Nat : /\ VectorBytes(q[1]) - ib = w * VrfBytes
                               /\ w * VrfBytes + vp = IF q[1].id = F THEN P ELSE 0

\* The first of them is F, if F has their direction.
LEMMA HoldsFirst ==
    ASSUME NEW g, NEW q, NEW c \in Nat, NEW ib, NEW vp, NEW dir, NEW F \in Nat, NEW P, NEW n \in Nat,
           Holds(g, q, c, ib, vp, dir, F, P, n), F <= n, is_load(g[F].op) = dir
    PROVE  /\ c # 0 /\ q[1].id = F /\ q[1] = g[F]
           /\ \E w \in Nat : VectorBytes(q[1]) - ib = w * VrfBytes /\ w * VrfBytes + vp = P
<1>1. F \in F..n
  OBVIOUS
<1>2. PICK k \in 1..c : q[k].id = F
  BY <1>1 DEF Holds
<1>3. 1 \in 1..c /\ c # 0
  OBVIOUS
<1>4. q[1].id \in F..n /\ q[1] = g[q[1].id]
  BY <1>3 DEF Holds
<1>5. 1 < k => q[1].id < q[k].id
  BY <1>3 DEF Holds
<1>6. q[1].id = F
  <2>1. CASE k = 1
    BY <1>2, <2>1
  <2>2. CASE 1 < k
    BY <1>2, <1>4, <1>5, <2>2
  <2> QED BY <2>1, <2>2
<1>7. \E w \in Nat : VectorBytes(q[1]) - ib = w * VrfBytes /\ w * VrfBytes + vp = P
  BY <1>3, <1>6 DEF Holds
<1> QED BY <1>3, <1>4, <1>6, <1>7

\* An instruction of the other direction is passed.
LEMMA HoldsOther ==
    ASSUME NEW g, NEW q, NEW c \in Nat, NEW ib, NEW vp, NEW dir, NEW F \in Nat, NEW P, NEW n \in Nat,
           Holds(g, q, c, ib, vp, dir, F, P, n), F <= n => is_load(g[F].op) # dir
    PROVE  /\ \A P2 : Holds(g, q, c, ib, vp, dir, F, P2, n)
           /\ Holds(g, q, c, ib, vp, dir, F + 1, 0, n)
<1>1. ASSUME NEW k \in 1..c PROVE q[k].id # F /\ q[k].id \in (F + 1)..n
  <2>1. q[k].id \in F..n /\ q[k] = g[q[k].id] /\ is_load(q[k].op) = dir
    BY DEF Holds
  <2>2. q[k].id # F
    BY <2>1
  <2> QED BY <2>1, <2>2
<1>2. c # 0 => \E w \in Nat : VectorBytes(q[1]) - ib = w * VrfBytes /\ w * VrfBytes + vp = 0
  <2>1. c # 0 => 1 \in 1..c
    OBVIOUS
  <2> QED BY <1>1, <2>1 DEF Holds
<1>3. c # 0 => q[1].id # F
  BY <1>1
<1>4. ASSUME NEW P2 PROVE Holds(g, q, c, ib, vp, dir, F, P2, n)
  BY <1>2, <1>3 DEF Holds
<1>5. \A m \in (F + 1)..n : m \in F..n
  OBVIOUS
<1>6. Holds(g, q, c, ib, vp, dir, F + 1, 0, n)
  <2>1. \A k \in 1..c : q[k].id \in (F + 1)..n /\ q[k] = g[q[k].id]
                        /\ is_load(q[k].op) = dir
    BY <1>1 DEF Holds
  <2>2. \A j \in 1..c, k \in 1..c : j < k => q[j].id < q[k].id
    BY DEF Holds
  <2>3. \A m \in (F + 1)..n : is_load(g[m].op) = dir => \E k \in 1..c : q[k].id = m
    BY <1>5 DEF Holds
  <2> QED BY <1>2, <2>1, <2>2, <2>3 DEF Holds
<1> QED BY <1>4, <1>6

\* Instruction F is issued.
LEMMA HoldsIssued ==
    ASSUME NEW g, NEW q, NEW c \in Nat, NEW ib, NEW vp, NEW dir, NEW F \in Nat, NEW P, NEW n \in Nat,
           Holds(g, q, c, ib, vp, dir, F, P, n), F <= n, is_load(g[F].op) = dir,
           NEW q2, \A k \in 1..(c - 1) : q2[k] = q[k + 1],
           NEW ib2, c # 1 => ib2 = VectorBytes(q[2]) /\ VectorBytes(q[2]) \in Nat
    PROVE  Holds(g, q2, c - 1, ib2, 0, dir, F + 1, 0, n)
<1>1. c # 0 /\ q[1].id = F
  <2>1. c # 0 /\ q[1].id = F /\ q[1] = g[F]
        /\ \E w \in Nat : VectorBytes(q[1]) - ib = w * VrfBytes /\ w * VrfBytes + vp = P
    BY HoldsFirst
  <2> QED BY <2>1
<1>2. ASSUME NEW k \in 1..(c - 1)
      PROVE  /\ k + 1 \in 1..c /\ q2[k] = q[k + 1]
             /\ q2[k].id \in (F + 1)..n /\ q2[k] = g[q2[k].id] /\ is_load(q2[k].op) = dir
  <2>1. k + 1 \in 1..c /\ 1 \in 1..c /\ 1 < k + 1
    BY <1>1
  <2>2. q[k + 1].id \in F..n /\ q[k + 1] = g[q[k + 1].id] /\ is_load(q[k + 1].op) = dir
    BY <2>1 DEF Holds
  <2>3. q[1].id < q[k + 1].id
    BY <2>1 DEF Holds
  <2>4. q[k + 1].id \in (F + 1)..n
    BY <1>1, <2>2, <2>3
  <2> QED BY <2>1, <2>2, <2>4
<1>3. ASSUME NEW j \in 1..(c - 1), NEW k \in 1..(c - 1), j < k PROVE q2[j].id < q2[k].id
  <2>1. j + 1 \in 1..c /\ k + 1 \in 1..c /\ j + 1 < k + 1
    BY <1>3
  <2>2. q[j + 1].id < q[k + 1].id
    BY <2>1 DEF Holds
  <2> QED BY <1>2, <2>2
<1>4. ASSUME NEW m \in (F + 1)..n, is_load(g[m].op) = dir
      PROVE  \E k \in 1..(c - 1) : q2[k].id = m
  <2>1. m \in F..n /\ m # F
    OBVIOUS
  <2>2. PICK k \in 1..c : q[k].id = m
    BY <1>4, <2>1 DEF Holds
  <2>3. k # 1
    BY <1>1, <2>1, <2>2
  <2>4. k - 1 \in 1..(c - 1) /\ (k - 1) + 1 = k
    BY <2>3
  <2> QED BY <1>2, <2>2, <2>4
<1>5. c - 1 # 0 => \E w \in Nat : /\ VectorBytes(q2[1]) - ib2 = w * VrfBytes
                                  /\ w * VrfBytes + 0 = IF q2[1].id = F + 1 THEN 0 ELSE 0
  <2>1. SUFFICES ASSUME c - 1 # 0
                 PROVE  VectorBytes(q2[1]) - ib2 = 0 * VrfBytes /\ 0 * VrfBytes + 0 = 0
    <3>1. 0 \in Nat
      OBVIOUS
    <3> QED BY <3>1
  <2>2. 1 \in 1..(c - 1) /\ c # 1
    BY <1>1, <2>1
  <2>3. q2[1] = q[2]
    BY <1>2, <2>2
  <2>4. VrfBytes \in Nat
    BY UnitsAssumption
  <2> QED BY <2>2, <2>3, <2>4
<1> QED BY <1>2, <1>3, <1>4, <1>5 DEF Holds

\* An instruction is accepted.
LEMMA HoldsAccepted ==
    ASSUME NEW g, NEW q, NEW c \in Nat, NEW ib, NEW vp, NEW dir, NEW F \in Nat, NEW P, NEW n \in Nat,
           Holds(g, q, c, ib, vp, dir, F, P, n), F <= n + 1, F = n + 1 => P = 0,
           NEW i, i = g[n + 1], i.id = n + 1, is_load(i.op) = dir,
           VectorBytes(i) \in Nat,
           NEW q2, \A k \in 1..c : q2[k] = q[k], q2[c + 1] = i,
           NEW ib2, ib2 = IF c = 0 THEN VectorBytes(i) ELSE ib,
           c = 0 => vp = 0
    PROVE  Holds(g, q2, c + 1, ib2, vp, dir, F, P, n + 1)
<1>1. ASSUME NEW k \in 1..(c + 1)
      PROVE  /\ q2[k].id \in F..(n + 1) /\ q2[k] = g[q2[k].id] /\ is_load(q2[k].op) = dir
             /\ k # c + 1 => k \in 1..c /\ q2[k] = q[k] /\ q2[k].id <= n
  <2>1. CASE k = c + 1
    BY <2>1
  <2>2. CASE k # c + 1
    <3>1. k \in 1..c
      BY <2>2
    <3>2. q[k].id \in F..n /\ q[k] = g[q[k].id] /\ is_load(q[k].op) = dir
      BY <3>1 DEF Holds
    <3> QED BY <3>1, <3>2
  <2> QED BY <2>1, <2>2
<1>2. ASSUME NEW j \in 1..(c + 1), NEW k \in 1..(c + 1), j < k PROVE q2[j].id < q2[k].id
  <2>1. j # c + 1
    BY <1>2
  <2>2. j \in 1..c /\ q2[j] = q[j] /\ q2[j].id <= n /\ q2[j].id \in F..(n + 1)
    BY <1>1, <2>1
  <2>3. CASE k = c + 1
    <3>1. q2[k].id = n + 1
      BY <2>3
    <3> QED BY <2>2, <3>1
  <2>4. CASE k # c + 1
    <3>1. k \in 1..c /\ q2[k] = q[k]
      BY <1>1, <2>4
    <3>2. q[j].id < q[k].id
      BY <1>2, <2>2, <3>1 DEF Holds
    <3> QED BY <2>2, <3>1, <3>2
  <2> QED BY <2>3, <2>4
<1>3. ASSUME NEW m \in F..(n + 1), is_load(g[m].op) = dir
      PROVE  \E k \in 1..(c + 1) : q2[k].id = m
  <2>1. CASE m = n + 1
    <3>1. c + 1 \in 1..(c + 1)
      OBVIOUS
    <3> QED BY <2>1, <3>1
  <2>2. CASE m # n + 1
    <3>1. m \in F..n
      BY <2>2
    <3>2. PICK k \in 1..c : q[k].id = m
      BY <1>3, <3>1 DEF Holds
    <3>3. k \in 1..(c + 1)
      OBVIOUS
    <3> QED BY <3>2, <3>3
  <2> QED BY <2>1, <2>2
<1>4. \E w \in Nat : /\ VectorBytes(q2[1]) - ib2 = w * VrfBytes
                     /\ w * VrfBytes + vp = IF q2[1].id = F THEN P ELSE 0
  <2>1. CASE c = 0
    <3>1. q2[1] = i /\ ib2 = VectorBytes(i) /\ vp = 0
      BY <2>1
    <3>2. VrfBytes \in Nat /\ 0 \in Nat
      BY UnitsAssumption
    <3>3. VectorBytes(q2[1]) - ib2 = 0 * VrfBytes /\ 0 * VrfBytes + vp = 0
      BY <3>1, <3>2
    <3>4. q2[1].id = F => P = 0
      BY <3>1
    <3> QED BY <3>2, <3>3, <3>4
  <2>2. CASE c # 0
    <3>1. 1 \in 1..c
      BY <2>2
    <3>2. q2[1] = q[1] /\ ib2 = ib
      BY <2>2, <3>1
    <3> QED BY <2>2, <3>2 DEF Holds
  <2> QED BY <2>1, <2>2
<1> QED BY <1>1, <1>2, <1>3, <1>4 DEF Holds

\* An instruction of the other direction is broadcast.
LEMMA HoldsBroadcast ==
    ASSUME NEW g, NEW q, NEW c \in Nat, NEW ib, NEW vp, NEW dir, NEW F \in Nat, NEW P, NEW n \in Nat,
           Holds(g, q, c, ib, vp, dir, F, P, n), is_load(g[n + 1].op) # dir
    PROVE  Holds(g, q, c, ib, vp, dir, F, P, n + 1)
<1>1. \A k \in 1..c : q[k].id \in F..(n + 1) /\ q[k] = g[q[k].id] /\ is_load(q[k].op) = dir
  <2> SUFFICES ASSUME NEW k \in 1..c
               PROVE  q[k].id \in F..(n + 1) /\ q[k] = g[q[k].id] /\ is_load(q[k].op) = dir
    OBVIOUS
  <2>1. q[k].id \in F..n /\ q[k] = g[q[k].id] /\ is_load(q[k].op) = dir
    BY DEF Holds
  <2> QED BY <2>1
<1>2. ASSUME NEW m \in F..(n + 1), is_load(g[m].op) = dir
      PROVE  \E k \in 1..c : q[k].id = m
  <2>1. m \in F..n
    BY <1>2
  <2> QED BY <1>2, <2>1 DEF Holds
<1> QED BY <1>1, <1>2 DEF Holds

\* Bytes are moved: with n2 more bytes the instruction is at its end, or not.
LEMMA HoldsMoved ==
    ASSUME NEW g, NEW q, NEW c \in Nat, NEW ib, NEW vp, NEW dir, NEW F \in Nat, NEW P, NEW n \in Nat,
           Holds(g, q, c, ib, vp, dir, F, P, n), F <= n, is_load(g[F].op) = dir,
           NEW ib2, NEW vp2, NEW P2,
           \E w \in Nat : VectorBytes(g[F]) - ib2 = w * VrfBytes /\ w * VrfBytes + vp2 = P2
    PROVE  Holds(g, q, c, ib2, vp2, dir, F, P2, n)
<1>1. c # 0 /\ q[1].id = F /\ q[1] = g[F]
      /\ \E w \in Nat : VectorBytes(q[1]) - ib = w * VrfBytes /\ w * VrfBytes + vp = P
  BY HoldsFirst
<1> QED BY <1>1 DEF Holds

\* n bytes are moved to a word of which vp bytes are moved, after w others: ib bytes
\* of the T of the instruction are in this word or come after it.
WordStep(T, ib, vp, P, w, room, n, ends, ib2, vp2) ==
    /\ T \in Nat /\ ib \in Nat /\ vp \in Nat /\ P \in Int /\ w \in Nat /\ room \in Nat \ {0}
    /\ T - ib = w * VrfBytes /\ w * VrfBytes + vp = P
    /\ vp < VrfBytes /\ vp < ib
    /\ n = Least(room, Least(ib, VrfBytes) - vp)
    /\ ends \in BOOLEAN /\ (ends <=> vp + n = VrfBytes \/ vp + n = ib)
    /\ ib2 = IF ends THEN Floor0(ib - VrfBytes) ELSE ib
    /\ vp2 = IF ends THEN 0 ELSE vp + n

\* The bytes of a word, of the instruction, and of a beat.
LEMMA WordCounts ==
    ASSUME NEW T, NEW ib, NEW vp, NEW P, NEW w, NEW room, NEW n, NEW ends, NEW ib2, NEW vp2,
           WordStep(T, ib, vp, P, w, room, n, ends, ib2, vp2)
    PROVE  /\ n \in Nat \ {0} /\ n <= room /\ P + n <= T
           /\ ib2 = 0 <=> P + n = T
           /\ ib2 = 0 => vp2 = 0
           /\ n = room \/ ends
           /\ ib2 # 0 => \E z \in Nat : T - ib2 = z * VrfBytes /\ z * VrfBytes + vp2 = P + n
<1>01. /\ T \in Nat /\ ib \in Nat /\ vp \in Nat /\ P \in Int /\ w \in Nat /\ room \in Nat \ {0}
       /\ T - ib = w * VrfBytes /\ w * VrfBytes + vp = P
       /\ vp < VrfBytes /\ vp < ib
  BY DEF WordStep
<1>02. /\ n = Least(room, Least(ib, VrfBytes) - vp)
       /\ ends \in BOOLEAN /\ (ends <=> vp + n = VrfBytes \/ vp + n = ib)
       /\ ib2 = IF ends THEN Floor0(ib - VrfBytes) ELSE ib
       /\ vp2 = IF ends THEN 0 ELSE vp + n
  BY DEF WordStep
<1>0. PICK V \in Nat \ {0} : V = VrfBytes
  BY UnitsAssumption
<1>1. PICK W \in Nat : W = w * V /\ (w + 1) * V = W + V
  <2>1. w * V \in Nat
    BY <1>01, Product
  <2> QED BY <1>01, <2>1, Times1
<1>2. n \in Nat \ {0} /\ n <= room /\ vp + n <= V /\ vp + n <= ib /\ (n = room \/ ends)
  BY <1>0, <1>01, <1>02 DEF Least
<1>3. T - ib = W /\ W + vp = P
  BY <1>0, <1>01, <1>1
<1>4. P + n <= T
  BY <1>01, <1>2, <1>3
<1>5. CASE ~ends
  <2>1. ib2 = ib /\ vp2 = vp + n /\ vp + n # ib
    BY <1>02, <1>5
  <2>2. ib2 # 0 /\ P + n # T
    BY <1>01, <1>2, <1>3, <2>1
  <2>3. T - ib2 = w * VrfBytes /\ w * VrfBytes + vp2 = P + n
    BY <1>0, <1>01, <1>1, <1>2, <1>3, <2>1
  <2> QED BY <1>01, <1>2, <1>4, <1>5, <2>1, <2>2, <2>3
<1>6. CASE ends
  <2>1. ib2 = Floor0(ib - V) /\ vp2 = 0
    BY <1>0, <1>02, <1>6
  <2>2. ib2 = IF ib <= V THEN 0 ELSE ib - V
    BY <1>0, <1>01, <2>1 DEF Floor0
  <2>3. ib2 = 0 <=> vp + n = ib
    BY <1>0, <1>01, <1>02, <1>2, <1>6, <2>2
  <2>4. ib2 = 0 <=> P + n = T
    BY <1>01, <1>2, <1>3, <2>3
  <2>5. ib2 # 0 => vp + n = V /\ ib2 = ib - V
    BY <1>0, <1>01, <1>02, <1>2, <1>6, <2>2, <2>3
  <2>6. ib2 # 0 => T - ib2 = (w + 1) * VrfBytes /\ (w + 1) * VrfBytes + vp2 = P + n
    BY <1>0, <1>01, <1>1, <1>2, <1>3, <2>1, <2>5
  <2>7. w + 1 \in Nat
    BY <1>01
  <2> QED BY <1>2, <1>4, <2>1, <2>4, <2>6, <2>7
<1> QED BY <1>02, <1>5, <1>6

\* Where beat j of a burst begins, if the burst begins with byte p of its access.
Off(b, p, j) == p + (beat_addr(b, j) - b.addr)

\* From beat to beat, to the end of the burst or of the access.
LEMMA BeatCounts ==
    ASSUME NEW b \in Bursts, NEW p \in Nat, NEW T \in Nat, Off(b, p, b.len) < T,
           NEW j \in Nat, j <= b.len, NEW r \in Nat, r < Room(b, j),
           NEW n \in Nat, n <= Room(b, j) - r, Off(b, p, j) + r + n <= T
    PROVE  /\ Off(b, p, j) \in Nat /\ p <= Off(b, p, j) /\ Off(b, p, 0) = p
           /\ Room(b, j) \in Nat \ {0}
           /\ Gap(b) \in Nat \ {0}
           /\ r + n = Room(b, j) /\ j < b.len =>
                 Off(b, p, j) + r + n = Off(b, p, j + 1) /\ Off(b, p, j) + r + n < T
           /\ Off(b, p, j) + r + n = T => j = b.len /\ p + Gap(b) >= T
           /\ r + n = Room(b, j) /\ j = b.len => Off(b, p, j) + r + n = p + Gap(b)
<1>0. b.addr \in Int /\ b.size \in Sizes /\ b.len \in Nat
  BY AxiAssumption DEF Bursts
<1>1. PICK x \in Int, y \in Int, room \in Nat \ {0}, a \in Int :
          /\ x = beat_addr(b, j) /\ room = Room(b, j) /\ a = b.addr
          /\ y = beat_addr(b, j + 1) /\ y = x + room /\ a <= x
  <2>1. /\ beat_addr(b, j) \in Int /\ Room(b, j) \in Nat \ {0}
        /\ beat_addr(b, j + 1) = beat_addr(b, j) + Room(b, j)
        /\ b.addr <= beat_addr(b, j)
    BY <1>0, BeatBytesInRow
  <2> QED BY <1>0, <2>1
<1>2. PICK l \in Nat, z \in Int, g \in Nat \ {0} :
          /\ l = b.len /\ z = beat_addr(b, l) /\ g = Gap(b)
          /\ g = z + Room(b, l) - a
  <2>1. beat_addr(b, b.len) \in Int
    BY <1>0, BeatBytesInRow
  <2>2. Gap(b) \in Nat \ {0} /\ Gap(b) = beat_addr(b, b.len) + Room(b, b.len) - b.addr
    BY <1>0, GapFacts
  <2> QED BY <1>0, <1>1, <2>1, <2>2
<1>3. Off(b, p, j) = p + (x - a) /\ Off(b, p, j + 1) = p + (y - a) /\ Off(b, p, l) = p + (z - a)
  BY <1>1, <1>2 DEF Off
<1>4. Off(b, p, 0) = p
  BY <1>0 DEF Off, beat_addr
<1>5. j < l => y <= z
  <2>1. j < l => j + 1 <= l /\ j + 1 \in Nat
    OBVIOUS
  <2> QED BY <1>0, <1>1, <1>2, <2>1, BeatsAscend
<1>6. j = l => g = y - a
  BY <1>1, <1>2
<1>7. p + (z - a) < T
  BY <1>2, <1>3
<1>8. PICK P \in Int : P = Off(b, p, j) + r + n /\ P = p + (x - a) + r + n /\ P <= T
                       /\ r + n <= room
  BY <1>1, <1>3
<1>9. r + n = room => P = p + (y - a)
  BY <1>1, <1>8
<1>10. P <= p + (y - a)
  BY <1>1, <1>8
<1>11. j < l => p + (y - a) < T
  BY <1>1, <1>5, <1>7
<1>12. P = T => j = l
  BY <1>2, <1>10, <1>11
<1>13. P = T => p + g >= T
  BY <1>1, <1>6, <1>10, <1>12
<1>14. r + n = room /\ j = l => P = p + g
  BY <1>1, <1>6, <1>9
<1> QED BY <1>1, <1>2, <1>3, <1>4, <1>8, <1>9, <1>11, <1>12, <1>13, <1>14

\* Where a unit is in its burst and in its word, once n bytes are moved.
SameIssue(u, q) == u.issue_cnt = q.issue_cnt /\ u.vinsn = q.vinsn
InWords2(u, T, P) ==
    \E w \in Nat : T - u.issue_bytes = w * VrfBytes /\ w * VrfBytes + u.vrf_pnt = P
NextIssued(u, q) ==
    /\ u.issue_cnt = q.issue_cnt - 1 /\ u.vinsn = q.vinsn
    /\ u.issue_bytes = IF q.issue_cnt > 1
                       THEN VectorBytes(q.vinsn[Len(q.vinsn) - q.issue_cnt + 2]) ELSE 0

\* No beat is wider than a word.
LEMMA RoomInWord ==
    ASSUME NEW b \in Bursts, NEW n \in Nat
    PROVE  Room(b, n) <= VrfBytes
<1>0. b.addr \in Int /\ b.size \in Sizes
  BY DEF Bursts
<1>1. PICK x \in 0..(AxiBytes - 1), y \in 0..(AxiBytes - 1) :
          x = beat_lower_byte(b, n) /\ y = beat_upper_byte(b, n) /\ x <= y
  BY <1>0, BeatLimits
<1>2. AxiBytes \in Nat \ {0} /\ VrfBytes \in Nat \ {0}
  BY AxiAssumption, UnitsAssumption
<1>3. AxiBytes <= VrfBytes
  <2>1. PICK a \in Nat \ {0} : VrfBytes = a * AxiBytes
    BY VrfWords
  <2>2. 1 * AxiBytes <= a * AxiBytes
    BY <1>2, Times1
  <2> QED BY <1>2, <2>1, <2>2
<1> QED BY <1>1, <1>2, <1>3 DEF Room

\* What a read does to the positions and the counts of the load unit.
Effect(q, b, r, unmasked, n, ends, taken) ==
    LET ib == IF ends THEN Floor0(q.issue_bytes - VrfBytes) ELSE q.issue_bytes
        l  == IF taken THEN (q.len + 1) % MaxBeats ELSE q.len
    IN  /\ n = IF unmasked
               THEN Least(Room(b, q.len) - q.r_pnt, Least(q.issue_bytes, VrfBytes) - q.vrf_pnt)
               ELSE 0
        /\ ends <=> q.vrf_pnt + n = VrfBytes \/ q.vrf_pnt + n = q.issue_bytes
        /\ taken <=> q.r_pnt + n = Room(b, q.len) \/ ib = 0
        /\ r.taken <=> taken
        /\ r.popped <=> l = (b.len + 1) % MaxBeats
        /\ r.unit.len = IF r.popped THEN 0 ELSE l
        /\ r.unit.r_pnt = IF r.popped \/ taken THEN 0 ELSE q.r_pnt + n
        /\ r.unit.vrf_pnt = IF ends THEN 0 ELSE q.vrf_pnt + n
        /\ r.unit.vinsn = q.vinsn
        /\ ib # 0 => r.unit.issue_cnt = q.issue_cnt /\ r.unit.issue_bytes = ib
        /\ ib = 0 => NextIssued(r.unit, q)

LEMMA ReadEffect ==
    ASSUME NEW q, LoadKept(q), q.issue_cnt # 0, NEW b \in Bursts, InBeat(q, b),
           NEW unmasked \in BOOLEAN,
           NEW data, NEW mask, NEW r, r = ReadBeat(q, b, data, unmasked, mask)
    PROVE  \E n, ends, taken : /\ n \in Nat /\ ends \in BOOLEAN /\ taken \in BOOLEAN
                               /\ Effect(q, b, r, unmasked, n, ends, taken)
<1>1. PICK lower \in Int, upper \in Int, room \in Nat \ {0}, j \in Nat :
          /\ lower = beat_lower_byte(b, q.len) /\ upper = beat_upper_byte(b, q.len)
          /\ room = Room(b, q.len) /\ j = q.len /\ j \in 0..(MaxBeats - 1)
  <2>1. b.addr \in Int /\ b.size \in Sizes /\ q.len \in 0..(MaxBeats - 1)
    BY DEF Bursts, LoadKept, LoadTyped, UnitTyped
  <2>2. q.len \in Nat
    BY <2>1, AxiAssumption
  <2>3. /\ beat_lower_byte(b, q.len) \in Int /\ beat_upper_byte(b, q.len) \in Int
    BY <2>1, <2>2, BeatLimits, AxiAssumption
  <2>4. Room(b, q.len) \in Nat \ {0}
    BY <2>1, <2>2, BeatBytesInRow
  <2> QED BY <2>1, <2>2, <2>3, <2>4
<1>2. upper - lower + 1 = room
  BY <1>1 DEF Room
<1>3. PICK rp \in Nat : rp = q.r_pnt /\ rp < room
  BY <1>1 DEF LoadKept, LoadTyped, InBeat
<1>4. PICK n : n = Moves(q, unmasked, upper - lower - q.r_pnt + 1)
  OBVIOUS
<1>5. PICK word, taken, c, s, t, e : Parts(q, b, lower, upper, n, r, word, taken, c, s, t, e)
  BY <1>1, <1>4, ReadParts
<1>6. /\ taken \in BOOLEAN /\ c = Copied(q, n, word) /\ s = NextWord(Enqueue(c))
      /\ t = (IF taken THEN NextBeat(s) ELSE s) /\ e = EndBurst(t, b)
  BY <1>5 DEF Parts
<1>7. /\ taken <=> c.r_pnt = upper - lower + 1 \/ s.issue_bytes = 0
      /\ r.unit = IF e.issue_bytes = 0 THEN FinishIssue(e) ELSE e
      /\ r.popped = BurstEnds(t, b)
      /\ r.taken <=> taken
  BY <1>5 DEF Parts
<1>8. PICK vp \in Nat, left \in Nat, v \in Nat \ {0} :
          vp = q.vrf_pnt /\ left = q.issue_bytes /\ v = VrfBytes /\ vp < v /\ vp < left
  BY UnitsAssumption DEF LoadKept, LoadTyped, UnitTyped, InWord
<1>9. /\ n = IF unmasked
             THEN Least(Room(b, q.len) - q.r_pnt, Least(q.issue_bytes, VrfBytes) - q.vrf_pnt)
             ELSE 0
      /\ n \in Nat
  <2>1. upper - lower - rp + 1 = room - rp
    BY <1>1, <1>2, <1>3
  <2>2. CASE unmasked
    <3>1. n = ValidBytes(q, room - rp)
      BY <1>3, <1>4, <2>1, <2>2 DEF Moves, Loads
    <3>2. n = Least(room - rp, Least(left, v) - vp)
      BY <1>8, <3>1 DEF ValidBytes
    <3>3. n \in Nat
      BY <1>3, <1>8, <3>2 DEF Least
    <3> QED BY <1>1, <1>3, <1>8, <2>2, <3>2, <3>3
  <2>3. CASE ~unmasked
    BY <1>4, <2>3 DEF Moves, Loads
  <2> QED BY <2>2, <2>3
<1>10. PICK ends \in BOOLEAN : ends <=> WordEnds(c)
  OBVIOUS
<1>11. LoadTyped(q) /\ UnitTyped(q)
  BY DEF LoadKept, LoadTyped
<1>12. PICK ib : ib = IF ends THEN Floor0(q.issue_bytes - VrfBytes) ELSE q.issue_bytes
  OBVIOUS
<1>13. /\ DOMAIN s = LoadFields /\ s.vinsn = q.vinsn /\ s.issue_cnt = q.issue_cnt
       /\ s.len = q.len /\ s.r_pnt = q.r_pnt + n /\ c.r_pnt = q.r_pnt + n
       /\ ends <=> q.vrf_pnt + n = VrfBytes \/ q.vrf_pnt + n = q.issue_bytes
       /\ s.vrf_pnt = (IF ends THEN 0 ELSE q.vrf_pnt + n) /\ s.issue_bytes = ib
  BY <1>6, <1>9, <1>10, <1>11, <1>12, Stored
<1>14. PICK l : l = IF taken THEN (q.len + 1) % MaxBeats ELSE q.len
  OBVIOUS
<1>15. /\ DOMAIN t = LoadFields /\ t.len = l /\ t.r_pnt = (IF taken THEN 0 ELSE q.r_pnt + n)
       /\ t.vinsn = q.vinsn /\ t.issue_cnt = q.issue_cnt
       /\ t.vrf_pnt = s.vrf_pnt /\ t.issue_bytes = ib
  <2>1. CASE taken
    <3>1. t = [s EXCEPT !.r_pnt = 0, !.len = (@ + 1) % MaxBeats]
      BY <1>6, <2>1 DEF NextBeat
    <3> QED BY <1>13, <1>14, <2>1, <3>1 DEF LoadFields
  <2>2. CASE ~taken
    BY <1>6, <1>13, <1>14, <2>2
  <2> QED BY <1>6, <2>1, <2>2
<1>16. r.popped <=> l = (b.len + 1) % MaxBeats
  BY <1>7, <1>15 DEF BurstEnds
<1>17. /\ DOMAIN e = LoadFields /\ e.len = (IF r.popped THEN 0 ELSE l)
       /\ e.r_pnt = (IF r.popped \/ taken THEN 0 ELSE q.r_pnt + n)
       /\ e.vinsn = q.vinsn /\ e.issue_cnt = q.issue_cnt
       /\ e.vrf_pnt = s.vrf_pnt /\ e.issue_bytes = ib
  <2>1. CASE r.popped
    <3>1. e = [t EXCEPT !.len = 0, !.r_pnt = 0]
      BY <1>6, <1>7, <2>1 DEF EndBurst
    <3> QED BY <1>15, <2>1, <3>1 DEF LoadFields
  <2>2. CASE ~r.popped
    <3>1. e = t
      BY <1>6, <1>7, <2>2 DEF EndBurst
    <3> QED BY <1>15, <2>2, <3>1
  <2> QED BY <2>1, <2>2
<1>18. CASE ib = 0
  <2>1. r.unit = [e EXCEPT !.issue_cnt = @ - 1,
                           !.issue_bytes = IF e.issue_cnt > 1
                              THEN VectorBytes(e.vinsn[Len(e.vinsn) - e.issue_cnt + 2])
                              ELSE 0]
    BY <1>7, <1>17, <1>18 DEF FinishIssue
  <2>2. /\ r.unit.len = e.len /\ r.unit.r_pnt = e.r_pnt /\ r.unit.vinsn = q.vinsn
        /\ r.unit.vrf_pnt = e.vrf_pnt /\ r.unit.issue_cnt = q.issue_cnt - 1
        /\ r.unit.issue_bytes = IF q.issue_cnt > 1
                              THEN VectorBytes(q.vinsn[Len(q.vinsn) - q.issue_cnt + 2])
                              ELSE 0
    BY <1>17, <2>1 DEF LoadFields
  <2>3. NextIssued(r.unit, q)
    BY <2>2 DEF NextIssued
  <2>4. Effect(q, b, r, unmasked, n, ends, taken)
    BY <1>1, <1>2, <1>7, <1>9, <1>12, <1>13, <1>14, <1>16, <1>17, <1>18, <2>2, <2>3 DEF Effect
  <2> QED BY <1>6, <1>9, <2>4
<1>19. CASE ib # 0
  <2>1. r.unit = e
    BY <1>7, <1>17, <1>19
  <2>2. Effect(q, b, r, unmasked, n, ends, taken)
    BY <1>1, <1>2, <1>7, <1>9, <1>12, <1>13, <1>14, <1>16, <1>17, <1>19, <2>1 DEF Effect
  <2> QED BY <1>6, <1>9, <2>2
<1> QED BY <1>18, <1>19

\* A read of the load unit: it goes on in the burst, or it is through with it, at
\* the end of the instruction or before.
LEMMA ReadCounts ==
    ASSUME NEW q, LoadKept(q), q.issue_cnt # 0, NEW b \in Bursts,
           NEW p \in Nat, NEW T \in Nat, Off(b, p, b.len) < T,
           q.len <= b.len, InBeat(q, b),
           NEW P \in Int, P = Off(b, p, q.len) + q.r_pnt, InWords2(q, T, P),
           NEW unmasked \in BOOLEAN, b.len = MaxBeats - 1 => p = 0 /\ unmasked,
           NEW data, NEW mask, NEW r, r = ReadBeat(q, b, data, unmasked, mask),
           NEW u, u = r.unit
    PROVE  \E Q \in Nat :
             \/ /\ ~r.popped /\ Q < T /\ SameIssue(u, q) /\ InWords2(u, T, Q)
                /\ u.len <= b.len /\ Q = Off(b, p, u.len) + u.r_pnt
                /\ \/ ~r.taken /\ u.len = q.len
                   \/ r.taken /\ q.len # b.len /\ u.len = q.len + 1
             \/ /\ r.popped /\ r.taken /\ q.len = b.len /\ u.len = 0 /\ u.r_pnt = 0
                /\ Q < T /\ SameIssue(u, q) /\ InWords2(u, T, Q) /\ Q = p + Gap(b)
             \/ /\ r.popped /\ r.taken /\ q.len = b.len /\ u.len = 0 /\ u.r_pnt = 0
                /\ p + Gap(b) >= T /\ NextIssued(u, q) /\ u.vrf_pnt = 0
<1>1. PICK room \in Nat \ {0}, j \in Nat, l \in Nat, M \in Nat \ {0} :
          /\ room = Room(b, q.len) /\ j = q.len /\ l = b.len /\ M = MaxBeats
          /\ j <= l /\ l < M /\ room <= VrfBytes
  <2>1. b.addr \in Int /\ b.size \in Sizes /\ q.len \in 0..(MaxBeats - 1)
        /\ b.len \in 0..(MaxBeats - 1)
    BY DEF Bursts, LoadKept, LoadTyped, UnitTyped
  <2>2. q.len \in Nat /\ b.len \in Nat /\ MaxBeats \in Nat \ {0} /\ b.len < MaxBeats
    BY <2>1, AxiAssumption
  <2>4. Room(b, q.len) \in Nat \ {0}
    BY <2>1, <2>2, BeatBytesInRow
  <2>5. Room(b, q.len) <= VrfBytes
    BY <2>2, RoomInWord
  <2> QED BY <2>2, <2>4, <2>5
<1>2. PICK rp \in Nat : rp = q.r_pnt /\ rp < room
  BY <1>1 DEF LoadKept, LoadTyped, InBeat
<1>3. PICK vp \in Nat, ib \in Nat, V \in Nat \ {0} :
          vp = q.vrf_pnt /\ ib = q.issue_bytes /\ V = VrfBytes /\ vp < V /\ vp < ib
  BY UnitsAssumption DEF LoadKept, LoadTyped, UnitTyped, InWord
<1>4. PICK w \in Nat : T - ib = w * VrfBytes /\ w * VrfBytes + vp = P
  BY <1>3 DEF InWords2
<1>5. PICK W \in Nat : W = w * V /\ T - ib = W /\ W + vp = P /\ (w = 0 => W = 0)
                       /\ (w # 0 => W >= V)
  <2>1. w * V \in Nat
    BY Product
  <2>2. w # 0 => 1 * V <= w * V /\ 1 * V = V
    BY Times1
  <2>3. w = 0 => w * V = 0
    BY Times1
  <2> QED BY <1>3, <1>4, <2>1, <2>2, <2>3
<1>6. PICK n, ends, taken : /\ n \in Nat /\ ends \in BOOLEAN /\ taken \in BOOLEAN
                            /\ Effect(q, b, r, unmasked, n, ends, taken)
  BY ReadEffect
<1>7. PICK ib2 : ib2 = IF ends THEN Floor0(ib - V) ELSE ib
  OBVIOUS
<1>8. PICK k : k = IF taken THEN (j + 1) % MaxBeats ELSE j
  OBVIOUS
<1>9. /\ n = (IF unmasked THEN Least(room - rp, Least(ib, V) - vp) ELSE 0)
      /\ ends <=> vp + n = V \/ vp + n = ib
      /\ taken <=> rp + n = room \/ ib2 = 0
      /\ r.taken <=> taken
      /\ r.popped <=> k = (l + 1) % MaxBeats
      /\ u.len = (IF r.popped THEN 0 ELSE k)
  BY <1>1, <1>2, <1>3, <1>6, <1>7, <1>8 DEF Effect
<1>10. /\ u.r_pnt = (IF r.popped \/ taken THEN 0 ELSE rp + n)
       /\ u.vrf_pnt = (IF ends THEN 0 ELSE vp + n)
       /\ u.vinsn = q.vinsn
       /\ ib2 # 0 => u.issue_cnt = q.issue_cnt /\ u.issue_bytes = ib2
       /\ ib2 = 0 => NextIssued(u, q)
  BY <1>2, <1>3, <1>6, <1>7 DEF Effect
<1>11. PICK vp2 : vp2 = IF ends THEN 0 ELSE vp + n
  OBVIOUS
<1>12. /\ n <= room - rp /\ P + n <= T /\ (ib2 = 0 <=> P + n = T) /\ (ib2 = 0 => vp2 = 0)
       /\ ib2 # 0 => \E z \in Nat : T - ib2 = z * VrfBytes /\ z * VrfBytes + vp2 = P + n
       /\ unmasked => n = room - rp \/ ends
  <2>1. CASE unmasked
    <3>0. PICK rest \in Nat \ {0} : rest = room - rp
      BY <1>2
    <3>1. n = Least(rest, Least(ib, VrfBytes) - vp)
      BY <1>2, <1>3, <1>9, <2>1, <3>0
    <3>2. ends <=> vp + n = VrfBytes \/ vp + n = ib
      BY <1>3, <1>9
    <3>3. ib2 = (IF ends THEN Floor0(ib - VrfBytes) ELSE ib) /\ vp < VrfBytes
      BY <1>3, <1>7
    <3>4. /\ n <= rest /\ P + n <= T
          /\ ib2 = 0 <=> P + n = T
          /\ ib2 = 0 => vp2 = 0
          /\ n = rest \/ ends
          /\ ib2 # 0 => \E z \in Nat : T - ib2 = z * VrfBytes /\ z * VrfBytes + vp2 = P + n
      <4>1. WordStep(T, ib, vp, P, w, rest, n, ends, ib2, vp2)
        BY <1>3, <1>4, <1>6, <1>11, <3>1, <3>2, <3>3 DEF WordStep
      <4> QED BY <4>1, WordCounts
    <3> QED BY <3>0, <3>4
  <2>2. CASE ~unmasked
    <3>1. n = 0 /\ ~ends /\ ib2 = ib /\ vp2 = vp /\ ib # 0
      BY <1>3, <1>7, <1>9, <1>11, <2>2
    <3>2. P + n = P /\ P < T
      BY <1>3, <1>5, <3>1
    <3> QED BY <1>2, <1>4, <2>2, <3>1, <3>2
  <2> QED BY <2>1, <2>2
<1>13. PICK Q \in Int, o \in Int : Q = P + n /\ o = Off(b, p, j) /\ P = o + rp /\ Q = o + rp + n
  <2>1. Off(b, p, j) \in Nat
    <3>1. 0 \in Nat /\ 0 <= Room(b, j) - rp /\ Off(b, p, j) + rp + 0 <= T
      BY <1>1, <1>2, <1>3, <1>5
    <3> QED BY <1>1, <1>2, <3>1, BeatCounts
  <2>2. P = Off(b, p, j) + rp
    BY <1>1, <1>2
  <2> QED BY <1>2, <1>6, <2>1, <2>2
<1>14. /\ o \in Nat
       /\ rp + n = room /\ j < l => Q = Off(b, p, j + 1) /\ Q < T
       /\ Q = T => j = l /\ p + Gap(b) >= T
       /\ rp + n = room /\ j = l => Q = p + Gap(b)
  <2>1. n <= Room(b, j) - rp /\ Off(b, p, j) + rp + n <= T /\ rp < Room(b, j) /\ j <= b.len
    BY <1>1, <1>2, <1>12, <1>13
  <2>2. /\ Off(b, p, j) \in Nat
        /\ rp + n = Room(b, j) /\ j < b.len =>
              Off(b, p, j) + rp + n = Off(b, p, j + 1) /\ Off(b, p, j) + rp + n < T
        /\ Off(b, p, j) + rp + n = T => j = b.len /\ p + Gap(b) >= T
        /\ rp + n = Room(b, j) /\ j = b.len => Off(b, p, j) + rp + n = p + Gap(b)
    BY <1>6, <2>1, BeatCounts
  <2> QED BY <1>1, <1>13, <2>2
<1>15. Q \in Nat /\ Q <= T
  BY <1>2, <1>6, <1>12, <1>13, <1>14
<1>16. ib2 # 0 => Q < T /\ SameIssue(u, q) /\ InWords2(u, T, Q)
  <2> SUFFICES ASSUME ib2 # 0 PROVE Q < T /\ SameIssue(u, q) /\ InWords2(u, T, Q)
    OBVIOUS
  <2>1. u.issue_bytes = ib2 /\ u.vrf_pnt = vp2 /\ SameIssue(u, q)
    BY <1>10, <1>11 DEF SameIssue
  <2>2. InWords2(u, T, Q)
    BY <1>12, <1>13, <2>1 DEF InWords2
  <2>3. Q # T
    BY <1>12, <1>13
  <2> QED BY <1>15, <2>1, <2>2, <2>3
<1>17. (l + 1) % MaxBeats = (IF l + 1 = M THEN 0 ELSE l + 1)
       /\ (j + 1) % MaxBeats = (IF j + 1 = M THEN 0 ELSE j + 1)
  <2>1. l \in 0..(MaxBeats - 1) /\ j \in 0..(MaxBeats - 1)
    BY <1>1
  <2> QED BY <1>1, <2>1, LenWraps
<1>18. CASE ~taken
  <2>1. ib2 # 0 /\ rp + n # room /\ k = j
    BY <1>8, <1>9, <1>18
  <2>2. ~r.popped
    <3> SUFFICES ASSUME r.popped PROVE FALSE
      OBVIOUS
    <3>1. l + 1 = M /\ j = 0
      BY <1>1, <1>9, <1>17, <2>1
    <3>2. p = 0 /\ unmasked
      BY <1>1, <3>1
    <3>3. o = 0
      <4>1. Off(b, p, 0) = p
        BY <3>1, <1>1, <1>13 DEF Off, beat_addr, Bursts
      <4> QED BY <1>13, <3>1, <3>2, <4>1
    <3>4. W + vp = rp
      BY <1>5, <1>13, <3>3
    <3>5. W = 0 /\ vp = rp
      BY <1>1, <1>2, <1>3, <1>5, <3>4
    <3>6. n = Least(room - rp, Least(ib, V) - rp) /\ n # room - rp
      BY <1>2, <1>9, <2>1, <3>2, <3>5
    <3>7. ib < room /\ rp + n = ib
      BY <1>1, <1>2, <1>3, <3>6 DEF Least
    <3>8. ends /\ ib2 = Floor0(ib - V)
      BY <1>7, <1>9, <3>5, <3>7
    <3>9. ib2 = 0
      BY <1>1, <1>3, <3>7, <3>8 DEF Floor0
    <3> QED BY <2>1, <3>9
  <2>3. u.len = j /\ u.r_pnt = rp + n
    BY <1>9, <1>10, <1>18, <2>1, <2>2
  <2>4. Q = Off(b, p, u.len) + u.r_pnt
    BY <1>2, <1>6, <1>13, <2>3
  <2>5. ~r.taken /\ u.len = q.len /\ u.len <= b.len
    BY <1>1, <1>9, <1>18, <2>3
  <2> QED BY <1>15, <1>16, <2>1, <2>2, <2>4, <2>5
<1>19. CASE taken /\ j < l
  <2>1. k = j + 1
    BY <1>1, <1>8, <1>17, <1>19
  <2>2. ~r.popped
    BY <1>1, <1>9, <1>17, <1>19, <2>1
  <2>3. ib2 # 0
    BY <1>12, <1>13, <1>14, <1>19
  <2>4. rp + n = room
    BY <1>9, <1>19, <2>3
  <2>5. u.len = j + 1 /\ u.r_pnt = 0
    BY <1>9, <1>10, <1>19, <2>1, <2>2
  <2>6. Q = Off(b, p, u.len) + u.r_pnt
    BY <1>13, <1>14, <1>19, <2>4, <2>5
  <2>7. r.taken /\ q.len # b.len /\ u.len = q.len + 1 /\ u.len <= b.len
    BY <1>1, <1>9, <1>19, <2>5
  <2> QED BY <1>15, <1>16, <2>2, <2>3, <2>6, <2>7
<1>20. CASE taken /\ j = l
  <2>1. r.popped
    BY <1>8, <1>9, <1>20
  <2>2. r.taken /\ q.len = b.len /\ u.len = 0 /\ u.r_pnt = 0
    BY <1>1, <1>9, <1>10, <1>20, <2>1
  <2>3. CASE ib2 = 0
    <3>1. Q = T /\ p + Gap(b) >= T
      BY <1>12, <1>13, <1>14, <2>3
    <3>2. NextIssued(u, q) /\ u.vrf_pnt = 0
      BY <1>10, <1>11, <1>12, <2>3
    <3> QED BY <1>15, <2>1, <2>2, <3>1, <3>2
  <2>4. CASE ib2 # 0
    <3>1. Q = p + Gap(b)
      BY <1>9, <1>14, <1>20, <2>4
    <3> QED BY <1>15, <1>16, <2>1, <2>2, <2>4, <3>1
  <2> QED BY <2>3, <2>4
<1> QED BY <1>1, <1>18, <1>19, <1>20

\* What a beat sent does to the positions and the counts of the store unit.
SentEffect(q, b, w, f, n, ends) ==
    LET ib == IF ends THEN Floor0(q.issue_bytes - VrfBytes) ELSE q.issue_bytes
        l  == (q.len + 1) % MaxBeats
    IN  /\ n = Least(Room(b, q.len), Least(q.issue_bytes, VrfBytes) - q.vrf_pnt)
        /\ ends <=> q.vrf_pnt + n = VrfBytes \/ q.vrf_pnt + n = q.issue_bytes
        /\ w.popped <=> l = (b.len + 1) % MaxBeats
        /\ f.len = IF w.popped THEN 0 ELSE l
        /\ f.vrf_pnt = IF ends THEN 0 ELSE q.vrf_pnt + n
        /\ f.vinsn = q.vinsn
        /\ ib # 0 => f.issue_cnt = q.issue_cnt /\ f.issue_bytes = ib
        /\ ib = 0 => NextIssued(f, q)

LEMMA WriteEffect ==
    ASSUME NEW q, StoreTyped(q), InWord(q), q.issue_cnt # 0, NEW b \in Bursts,
           NEW w, w = WriteBeat(q, b), NEW f, f = FinishStore(w.unit, q)
    PROVE  \E n, ends : n \in Nat /\ ends \in BOOLEAN /\ SentEffect(q, b, w, f, n, ends)
<1> DEFINE n == ValidBytes(q, Room(b, q.len))
           s == [q EXCEPT !.vrf_pnt = @ + n, !.len = (@ + 1) % MaxBeats]
           last == BurstEnds(s, b)
           t == IF last THEN [s EXCEPT !.len = 0] ELSE s
           u == NextWord(t)
<1>1. w.unit = u /\ w.popped = last
  BY DEF WriteBeat, Room
<1>2. PICK l : l = (q.len + 1) % MaxBeats
  OBVIOUS
<1>3. /\ DOMAIN s = StoreFields /\ s.vrf_pnt = q.vrf_pnt + n /\ s.len = l
      /\ s.vinsn = q.vinsn /\ s.issue_cnt = q.issue_cnt /\ s.issue_bytes = q.issue_bytes
      /\ s.issue_pnt = q.issue_pnt
  BY <1>2 DEF StoreTyped, StoreFields
<1>4. last <=> l = (b.len + 1) % MaxBeats
  BY <1>3 DEF BurstEnds
<1> HIDE DEF s, last
<1>5. /\ DOMAIN t = StoreFields /\ t.vrf_pnt = q.vrf_pnt + n /\ t.len = (IF last THEN 0 ELSE l)
      /\ t.vinsn = q.vinsn /\ t.issue_cnt = q.issue_cnt /\ t.issue_bytes = q.issue_bytes
      /\ t.issue_pnt = q.issue_pnt
  BY <1>3 DEF StoreFields
<1> HIDE DEF t
<1>6. PICK ends \in BOOLEAN : ends <=> WordEnds(t)
  OBVIOUS
<1>7. ends <=> q.vrf_pnt + n = VrfBytes \/ q.vrf_pnt + n = q.issue_bytes
  BY <1>5, <1>6 DEF WordEnds
<1>8. PICK ib : ib = IF ends THEN Floor0(q.issue_bytes - VrfBytes) ELSE q.issue_bytes
  OBVIOUS
<1>9. /\ DOMAIN u = StoreFields /\ u.vrf_pnt = (IF ends THEN 0 ELSE q.vrf_pnt + n)
      /\ u.len = t.len
      /\ u.vinsn = q.vinsn /\ u.issue_cnt = q.issue_cnt /\ u.issue_bytes = ib
      /\ u.issue_pnt = q.issue_pnt
  <2>1. CASE ends
    <3>1. u = [t EXCEPT !.vrf_pnt = 0, !.issue_bytes = Floor0(@ - VrfBytes)]
      BY <1>6, <2>1 DEF NextWord
    <3> QED BY <1>5, <1>8, <2>1, <3>1 DEF StoreFields
  <2>2. CASE ~ends
    <3>1. u = t
      BY <1>6, <2>2 DEF NextWord
    <3> QED BY <1>5, <1>8, <2>2, <3>1
  <2> QED BY <2>1, <2>2
<1> HIDE DEF u
<1>10. n \in Nat /\ n = Least(Room(b, q.len), Least(q.issue_bytes, VrfBytes) - q.vrf_pnt)
  <2>1. n = Least(Room(b, q.len), Least(q.issue_bytes, VrfBytes) - q.vrf_pnt)
    BY DEF ValidBytes
  <2>2. PICK vp \in Nat, left \in Nat, v \in Nat \ {0} :
            vp = q.vrf_pnt /\ left = q.issue_bytes /\ v = VrfBytes /\ vp < v /\ vp < left
    BY UnitsAssumption DEF StoreTyped, UnitTyped, InWord
  <2>3. PICK room \in Nat \ {0} : room = Room(b, q.len)
    <3>1. b.addr \in Int /\ b.size \in Sizes /\ q.len \in 0..(MaxBeats - 1)
      BY DEF Bursts, StoreTyped, UnitTyped
    <3>2. q.len \in Nat
      BY <3>1, AxiAssumption
    <3> QED BY <3>1, <3>2, BeatBytesInRow
  <2> QED BY <2>1, <2>2, <2>3 DEF Least
<1> HIDE DEF n
<1>11. PICK N : N = n
  OBVIOUS
<1>12. CASE ib = 0
  <2>1. f = [FinishIssue(u) EXCEPT !.issue_pnt = (@ + 1) % StoreDepth]
    BY <1>1, <1>9, <1>12 DEF FinishStore
  <2>2. PICK g : g = FinishIssue(u)
    OBVIOUS
  <2>3. g = [u EXCEPT !.issue_cnt = @ - 1,
                      !.issue_bytes = IF u.issue_cnt > 1
                              THEN VectorBytes(u.vinsn[Len(u.vinsn) - u.issue_cnt + 2])
                              ELSE 0]
    BY <2>2 DEF FinishIssue
  <2>4. /\ DOMAIN g = StoreFields /\ g.len = u.len /\ g.vinsn = q.vinsn
        /\ g.vrf_pnt = u.vrf_pnt /\ g.issue_cnt = q.issue_cnt - 1
        /\ g.issue_bytes = IF q.issue_cnt > 1
                              THEN VectorBytes(q.vinsn[Len(q.vinsn) - q.issue_cnt + 2])
                              ELSE 0
    BY <1>9, <2>3 DEF StoreFields
  <2>5. f = [g EXCEPT !.issue_pnt = (@ + 1) % StoreDepth]
    BY <2>1, <2>2
  <2>6. /\ f.len = g.len /\ f.vinsn = g.vinsn /\ f.vrf_pnt = g.vrf_pnt
        /\ f.issue_cnt = g.issue_cnt /\ f.issue_bytes = g.issue_bytes
    BY <2>4, <2>5 DEF StoreFields
  <2>7. NextIssued(f, q)
    BY <2>4, <2>6 DEF NextIssued
  <2>8. SentEffect(q, b, w, f, N, ends)
    BY <1>1, <1>2, <1>4, <1>5, <1>7, <1>8, <1>9, <1>10, <1>11, <1>12, <2>4, <2>6, <2>7
       DEF SentEffect
  <2> QED BY <1>10, <1>11, <2>8
<1>13. CASE ib # 0
  <2>1. f = u
    BY <1>1, <1>9, <1>13 DEF FinishStore
  <2>2. SentEffect(q, b, w, f, N, ends)
    BY <1>1, <1>2, <1>4, <1>5, <1>7, <1>8, <1>9, <1>10, <1>11, <1>13, <2>1 DEF SentEffect
  <2> QED BY <1>10, <1>11, <2>2
<1> QED BY <1>12, <1>13

\* The beats of an aligned burst do not straddle the words of the lanes.
LEMMA BeatsInWords ==
    ASSUME NEW size \in Sizes, NEW P \in Int, IsMultiple(P, size),
           NEW w \in Nat, NEW vp \in Nat, w * VrfBytes + vp = P, vp < VrfBytes
    PROVE  vp + size <= VrfBytes
<1>1. size \in Nat \ {0} /\ AxiBytes \in Nat \ {0}
  BY SizeFacts
<1>2. PICK V \in Nat \ {0} : V = VrfBytes
  BY UnitsAssumption
<1>3. IsMultiple(V, size)
  <2>1. PICK a \in Nat \ {0} : VrfBytes = a * AxiBytes
    BY VrfWords
  <2>2. PICK k \in Nat \ {0} : AxiBytes = k * size
    BY SizeFacts
  <2>3. V = (a * k) * size /\ a * k \in Int
    BY <1>1, <1>2, <2>1, <2>2, Associates, Times1
  <2> QED BY <2>3 DEF IsMultiple
<1>4. PICK W \in Int : W = w * V
  BY <1>2, Product
<1>5. IsMultiple(W, size)
  BY <1>1, <1>2, <1>3, <1>4, MultipleTimes
<1>6. vp = P - W
  BY <1>2, <1>4
<1>7. IsMultiple(vp, size)
  BY <1>1, <1>5, <1>6, MultipleSum
<1> QED BY <1>1, <1>2, <1>3, <1>7, MultipleSum

\* A beat the store unit sends: it goes on in the burst, or it is through with it, at
\* the end of the instruction or before.
LEMMA WriteCounts ==
    ASSUME NEW q, StoreTyped(q), InWord(q), q.issue_cnt # 0, NEW b \in Bursts,
           NEW p \in Nat, NEW T \in Nat, Off(b, p, b.len) < T,
           q.len <= b.len, b.addr % b.size = 0, p % b.size = 0,
           NEW P \in Int, P = Off(b, p, q.len), InWords2(q, T, P),
           NEW w, w = WriteBeat(q, b), NEW f, f = FinishStore(w.unit, q)
    PROVE  \E Q \in Nat :
             \/ /\ ~w.popped /\ Q < T /\ SameIssue(f, q) /\ InWords2(f, T, Q)
                /\ q.len # b.len /\ f.len = q.len + 1 /\ f.len <= b.len /\ Q = Off(b, p, f.len)
             \/ /\ w.popped /\ q.len = b.len /\ f.len = 0
                /\ Q < T /\ SameIssue(f, q) /\ InWords2(f, T, Q) /\ Q = p + Gap(b)
             \/ /\ w.popped /\ q.len = b.len /\ f.len = 0
                /\ p + Gap(b) >= T /\ NextIssued(f, q) /\ f.vrf_pnt = 0
<1>0. b.addr \in Int /\ b.size \in Sizes /\ q.len \in 0..(MaxBeats - 1)
      /\ b.len \in 0..(MaxBeats - 1) /\ b.size \in Nat \ {0}
  BY SizeFacts DEF Bursts, StoreTyped, UnitTyped
<1>1. PICK room \in Nat \ {0}, j \in Nat, l \in Nat, M \in Nat \ {0} :
          /\ room = Room(b, j) /\ j = q.len /\ l = b.len /\ M = MaxBeats
          /\ j <= l /\ l < M /\ room = b.size /\ beat_addr(b, j) = b.addr + j * b.size
  <2>2. q.len \in Nat /\ b.len \in Nat /\ MaxBeats \in Nat \ {0} /\ b.len < MaxBeats
    BY <1>0, AxiAssumption
  <2>4. Room(b, q.len) \in Nat \ {0} /\ Room(b, q.len) = b.size
        /\ beat_addr(b, q.len) = b.addr + q.len * b.size
    BY <1>0, <2>2, BeatBytesInRow
  <2> QED BY <2>2, <2>4
<1>3. PICK vp \in Nat, ib \in Nat, V \in Nat \ {0} :
          vp = q.vrf_pnt /\ ib = q.issue_bytes /\ V = VrfBytes /\ vp < V /\ vp < ib
  BY UnitsAssumption DEF StoreTyped, UnitTyped, InWord
<1>4. PICK z \in Nat : T - ib = z * VrfBytes /\ z * VrfBytes + vp = P
  BY <1>3 DEF InWords2
<1>5. PICK n, ends : n \in Nat /\ ends \in BOOLEAN /\ SentEffect(q, b, w, f, n, ends)
  BY WriteEffect
<1>6. PICK ib2 : ib2 = IF ends THEN Floor0(ib - V) ELSE ib
  OBVIOUS
<1>7. /\ n = Least(room, Least(ib, V) - vp)
      /\ ends <=> vp + n = V \/ vp + n = ib
      /\ w.popped <=> (j + 1) % MaxBeats = (l + 1) % MaxBeats
      /\ f.len = IF w.popped THEN 0 ELSE (j + 1) % MaxBeats
  BY <1>1, <1>3, <1>5, <1>6 DEF SentEffect
<1>8. PICK vp2 : vp2 = IF ends THEN 0 ELSE vp + n
  OBVIOUS
<1>9. /\ f.vrf_pnt = vp2 /\ f.vinsn = q.vinsn
      /\ ib2 # 0 => f.issue_cnt = q.issue_cnt /\ f.issue_bytes = ib2
      /\ ib2 = 0 => NextIssued(f, q)
  BY <1>3, <1>5, <1>6, <1>8 DEF SentEffect
<1>10. /\ n <= room /\ P + n <= T /\ (ib2 = 0 <=> P + n = T) /\ (ib2 = 0 => vp2 = 0)
       /\ ib2 # 0 => \E y \in Nat : T - ib2 = y * VrfBytes /\ y * VrfBytes + vp2 = P + n
       /\ n = room \/ ends
  <2>1. WordStep(T, ib, vp, P, z, room, n, ends, ib2, vp2)
    BY <1>3, <1>4, <1>5, <1>6, <1>7, <1>8 DEF WordStep
  <2> QED BY <2>1, WordCounts
<1>11. vp + room <= V
  <2>1. PICK x \in Int : x = j * b.size
    BY <1>0, Times1
  <2>2. P = p + x
    BY <1>0, <1>1, <2>1 DEF Off
  <2>3. IsMultiple(p, room) /\ IsMultiple(x, room)
    <3>1. IsMultiple(p, b.size)
      BY <1>0, MultipleFacts
    <3>2. IsMultiple(j * b.size, b.size)
      <4>1. b.size \in Int /\ IsMultiple(b.size, b.size) /\ j \in Int
        BY <1>0, MultipleFacts
      <4> QED BY <1>0, <4>1, MultipleTimes
    <3> QED BY <1>1, <2>1, <3>1, <3>2
  <2>4. IsMultiple(P, b.size)
    <3>1. IsMultiple(p + x, room)
      <4>1. p \in Int /\ x \in Int /\ room \in Nat \ {0}
        OBVIOUS
      <4> QED BY <2>3, <4>1, MultipleSum
    <3> QED BY <1>1, <2>2, <3>1
  <2> QED BY <1>0, <1>1, <1>3, <1>4, <2>4, BeatsInWords
<1>12. ib2 # 0 => n = room
  <2> SUFFICES ASSUME ib2 # 0, n # room PROVE FALSE
    OBVIOUS
  <2>1. n < room /\ ends /\ vp + n # V
    <3>1. n < room
      BY <1>5, <1>10
    <3>2. vp + n # V
      BY <1>5, <1>11, <3>1
    <3>3. ends
      BY <1>10
    <3> QED BY <3>1, <3>2, <3>3
  <2>2. vp + n = ib /\ ib < V
    BY <1>1, <1>3, <1>5, <1>7, <1>11, <2>1
  <2>3. ib2 = 0
    BY <1>3, <1>6, <2>1, <2>2 DEF Floor0
  <2> QED BY <2>3
<1>13. PICK Q \in Int, o \in Int : Q = P + n /\ o = Off(b, p, j) /\ P = o /\ Q = o + 0 + n
  BY <1>1, <1>5
<1>14. /\ o \in Nat
       /\ n = room /\ j < l => Q = Off(b, p, j + 1) /\ Q < T
       /\ Q = T => j = l /\ p + Gap(b) >= T
       /\ n = room /\ j = l => Q = p + Gap(b)
  <2>1. n <= Room(b, j) - 0 /\ Off(b, p, j) + 0 + n <= T /\ 0 < Room(b, j) /\ j <= b.len
        /\ 0 \in Nat
    BY <1>1, <1>5, <1>10, <1>13
  <2>2. /\ Off(b, p, j) \in Nat
        /\ 0 + n = Room(b, j) /\ j < b.len =>
              Off(b, p, j) + 0 + n = Off(b, p, j + 1) /\ Off(b, p, j) + 0 + n < T
        /\ Off(b, p, j) + 0 + n = T => j = b.len /\ p + Gap(b) >= T
        /\ 0 + n = Room(b, j) /\ j = b.len => Off(b, p, j) + 0 + n = p + Gap(b)
    BY <1>5, <2>1, BeatCounts
  <2> QED BY <1>1, <1>5, <1>13, <2>2
<1>15. Q \in Nat /\ Q <= T
  BY <1>5, <1>10, <1>13, <1>14
<1>16. ib2 # 0 => Q < T /\ SameIssue(f, q) /\ InWords2(f, T, Q)
  <2> SUFFICES ASSUME ib2 # 0 PROVE Q < T /\ SameIssue(f, q) /\ InWords2(f, T, Q)
    OBVIOUS
  <2>1. f.issue_bytes = ib2 /\ f.vrf_pnt = vp2 /\ SameIssue(f, q)
    BY <1>9 DEF SameIssue
  <2>2. InWords2(f, T, Q)
    BY <1>10, <1>13, <2>1 DEF InWords2
  <2>3. Q # T
    BY <1>10, <1>13
  <2> QED BY <1>15, <2>1, <2>2, <2>3
<1>17. (l + 1) % MaxBeats = (IF l + 1 = M THEN 0 ELSE l + 1)
       /\ (j + 1) % MaxBeats = (IF j + 1 = M THEN 0 ELSE j + 1)
  <2>1. l \in 0..(MaxBeats - 1) /\ j \in 0..(MaxBeats - 1)
    BY <1>1
  <2> QED BY <1>1, <2>1, LenWraps
<1>18. CASE j < l
  <2>1. ~w.popped /\ f.len = j + 1
    BY <1>1, <1>7, <1>17, <1>18
  <2>2. ib2 # 0
    BY <1>10, <1>13, <1>14, <1>18
  <2>3. Q = Off(b, p, f.len)
    BY <1>12, <1>14, <1>18, <2>1, <2>2
  <2>4. q.len # b.len /\ f.len = q.len + 1 /\ f.len <= b.len
    BY <1>1, <1>18, <2>1
  <2> QED BY <1>15, <1>16, <2>1, <2>2, <2>3, <2>4
<1>19. CASE j = l
  <2>1. w.popped /\ q.len = b.len /\ f.len = 0
    BY <1>1, <1>7, <1>19
  <2>2. CASE ib2 = 0
    <3>1. Q = T /\ p + Gap(b) >= T
      BY <1>10, <1>13, <1>14, <2>2
    <3>2. NextIssued(f, q) /\ f.vrf_pnt = 0
      BY <1>9, <1>10, <2>2
    <3> QED BY <1>15, <2>1, <3>1, <3>2
  <2>3. CASE ib2 # 0
    <3>1. Q = p + Gap(b)
      BY <1>12, <1>14, <1>19, <2>3
    <3> QED BY <1>15, <1>16, <2>1, <2>3, <3>1
  <2> QED BY <2>2, <2>3
<1> QED BY <1>1, <1>18, <1>19

\* The instructions a unit has yet to issue, in order.
Pend(u) == [k \in 1..u.issue_cnt |-> u.vinsn[Len(u.vinsn) - u.issue_cnt + k]]
UnitHolds(g, u, dir, F, P, n) ==
    Holds(g, Pend(u), u.issue_cnt, u.issue_bytes, u.vrf_pnt, dir, F, P, n)

\* Two states of a unit that agree in what it has yet to issue.
SamePlace(u, q) == /\ u.issue_cnt = q.issue_cnt /\ u.issue_bytes = q.issue_bytes
                   /\ u.vrf_pnt = q.vrf_pnt /\ Pend(u) = Pend(q)

LEMMA PendFacts ==
    ASSUME NEW u, UnitTyped(u)
    PROVE  /\ u.issue_cnt \in Nat
           /\ u.issue_cnt # 0 => Pend(u)[1] = Issued(u)
           /\ \A k \in 1..u.issue_cnt : VectorBytes(Pend(u)[k]) \in Nat \ {0}
<1>1. PICK n \in Nat, c \in Nat : n = Len(u.vinsn) /\ c = u.issue_cnt /\ c <= n
  BY DEF UnitTyped
<1>2. ASSUME NEW k \in 1..c PROVE Pend(u)[k] = u.vinsn[n - c + k] /\ n - c + k \in 1..n
  BY <1>1 DEF Pend
<1>3. c # 0 => Pend(u)[1] = Issued(u)
  <2>1. c # 0 => 1 \in 1..c
    OBVIOUS
  <2>2. Issued(u) = u.vinsn[n - c + 1]
    BY <1>1 DEF Issued
  <2> QED BY <1>2, <2>1, <2>2
<1>4. \A k \in 1..n : VectorBytes(u.vinsn[k]) \in Nat \ {0}
  BY <1>1, UnitBytes
<1> QED BY <1>1, <1>2, <1>3, <1>4

LEMMA PlaceSame ==
    ASSUME NEW g, NEW u, NEW q, SamePlace(u, q), NEW dir, NEW F, NEW P, NEW n,
           UnitHolds(g, q, dir, F, P, n)
    PROVE  UnitHolds(g, u, dir, F, P, n)
BY DEF UnitHolds, SamePlace

\* The first of them is F, if F has the direction of the unit.
LEMMA UnitFirst ==
    ASSUME NEW g, NEW u, UnitTyped(u), NEW dir, NEW F \in Nat, NEW P, NEW n \in Nat,
           UnitHolds(g, u, dir, F, P, n), F <= n, is_load(g[F].op) = dir
    PROVE  /\ u.issue_cnt # 0 /\ Issued(u) = g[F] /\ Issued(u).id = F
           /\ InWords2(u, VectorBytes(g[F]), P)
<1>1. PICK q, c, ib, vp : /\ c \in Nat /\ q = Pend(u) /\ c = u.issue_cnt /\ ib = u.issue_bytes
                      /\ vp = u.vrf_pnt
  BY PendFacts
<1>2. Holds(g, q, c, ib, vp, dir, F, P, n)
  BY <1>1 DEF UnitHolds
<1>3. /\ c # 0 /\ q[1].id = F /\ q[1] = g[F]
      /\ \E w \in Nat : VectorBytes(q[1]) - ib = w * VrfBytes /\ w * VrfBytes + vp = P
  <2>1. c \in Nat
    BY <1>1
  <2> QED BY <1>2, <2>1, HoldsFirst
<1>4. q[1] = Issued(u)
  BY <1>1, <1>3, PendFacts
<1> QED BY <1>1, <1>3, <1>4 DEF InWords2

LEMMA UnitOther ==
    ASSUME NEW g, NEW u, UnitTyped(u), NEW dir, NEW F \in Nat, NEW P, NEW n \in Nat,
           UnitHolds(g, u, dir, F, P, n), F <= n => is_load(g[F].op) # dir
    PROVE  /\ \A P2 : UnitHolds(g, u, dir, F, P2, n)
           /\ UnitHolds(g, u, dir, F + 1, 0, n)
<1>1. PICK q, c, ib, vp : /\ c \in Nat /\ q = Pend(u) /\ c = u.issue_cnt /\ ib = u.issue_bytes
                      /\ vp = u.vrf_pnt
  BY PendFacts
<1>2. Holds(g, q, c, ib, vp, dir, F, P, n)
  BY <1>1 DEF UnitHolds
<1>3. /\ \A P2 : Holds(g, q, c, ib, vp, dir, F, P2, n)
      /\ Holds(g, q, c, ib, vp, dir, F + 1, 0, n)
  BY <1>1, <1>2, HoldsOther
<1> QED BY <1>1, <1>3 DEF UnitHolds

LEMMA UnitMoved ==
    ASSUME NEW g, NEW q, UnitTyped(q), NEW dir, NEW F \in Nat, NEW P, NEW n \in Nat,
           UnitHolds(g, q, dir, F, P, n), F <= n, is_load(g[F].op) = dir,
           NEW u, SameIssue(u, q), NEW Q, InWords2(u, VectorBytes(g[F]), Q)
    PROVE  UnitHolds(g, u, dir, F, Q, n)
<1>1. PICK d, c, ib, vp : /\ c \in Nat /\ d = Pend(q) /\ c = q.issue_cnt /\ ib = q.issue_bytes
                      /\ vp = q.vrf_pnt
  BY PendFacts
<1>2. Holds(g, d, c, ib, vp, dir, F, P, n)
  BY <1>1 DEF UnitHolds
<1>3. Pend(u) = d /\ u.issue_cnt = c
  BY <1>1 DEF SameIssue, Pend
<1>4. PICK ib2, vp2 : ib2 = u.issue_bytes /\ vp2 = u.vrf_pnt
  OBVIOUS
<1>5. \E w \in Nat : VectorBytes(g[F]) - ib2 = w * VrfBytes /\ w * VrfBytes + vp2 = Q
  BY <1>4 DEF InWords2
<1>6. Holds(g, d, c, ib2, vp2, dir, F, Q, n)
  BY <1>1, <1>2, <1>5, HoldsMoved
<1> QED BY <1>3, <1>4, <1>6 DEF UnitHolds

LEMMA UnitIssued ==
    ASSUME NEW g, NEW q, UnitTyped(q), NEW dir, NEW F \in Nat, NEW P, NEW n \in Nat,
           UnitHolds(g, q, dir, F, P, n), F <= n, is_load(g[F].op) = dir,
           NEW u, NextIssued(u, q), u.vrf_pnt = 0
    PROVE  UnitHolds(g, u, dir, F + 1, 0, n)
<1>1. PICK d, c, ib, vp, l :
          /\ c \in Nat /\ l \in Nat /\ d = Pend(q) /\ c = q.issue_cnt /\ ib = q.issue_bytes
          /\ vp = q.vrf_pnt /\ l = Len(q.vinsn) /\ c <= l
  BY PendFacts DEF UnitTyped
<1>2. Holds(g, d, c, ib, vp, dir, F, P, n)
  BY <1>1 DEF UnitHolds
<1>3. c # 0
  BY <1>1, UnitFirst
<1>4. PICK d2, ib2 : d2 = Pend(u) /\ ib2 = u.issue_bytes
  OBVIOUS
<1>5. u.issue_cnt = c - 1 /\ u.vinsn = q.vinsn
      /\ ib2 = IF c > 1 THEN VectorBytes(q.vinsn[l - c + 2]) ELSE 0
  BY <1>1, <1>4 DEF NextIssued
<1>6. ASSUME NEW k \in 1..(c - 1) PROVE d2[k] = d[k + 1]
  <2>1. d2[k] = q.vinsn[l - (c - 1) + k]
    BY <1>1, <1>4, <1>5 DEF Pend
  <2>2. k + 1 \in 1..c
    BY <1>1, <1>3
  <2>3. d[k + 1] = q.vinsn[l - c + (k + 1)]
    BY <1>1, <2>2 DEF Pend
  <2>4. l - (c - 1) + k = l - c + (k + 1)
    <3>1. k \in Int /\ c \in Int /\ l \in Int
      BY <1>1
    <3> QED BY <3>1
  <2> QED BY <2>1, <2>3, <2>4
<1>7. c # 1 => ib2 = VectorBytes(d[2]) /\ VectorBytes(d[2]) \in Nat
  <2> SUFFICES ASSUME c # 1 PROVE ib2 = VectorBytes(d[2]) /\ VectorBytes(d[2]) \in Nat
    OBVIOUS
  <2>1. 2 \in 1..c /\ c > 1
    BY <1>1, <1>3
  <2>2. d[2] = q.vinsn[l - c + 2]
    BY <1>1, <2>1 DEF Pend
  <2>3. VectorBytes(d[2]) \in Nat
    BY <1>1, <2>1, PendFacts
  <2> QED BY <1>5, <2>1, <2>2, <2>3
<1>8. Holds(g, d2, c - 1, ib2, 0, dir, F + 1, 0, n)
  <2>1. c \in Nat
    BY <1>1
  <2> QED BY <1>2, <1>6, <1>7, <2>1, HoldsIssued
<1> QED BY <1>4, <1>5, <1>8 DEF UnitHolds

\* Accepting an instruction: at the end of the queue.
LEMMA UnitAccepted ==
    ASSUME NEW g, NEW q, UnitTyped(q), InWord(q), NEW dir, NEW F \in Nat, NEW P, NEW n \in Nat,
           UnitHolds(g, q, dir, F, P, n), F <= n + 1, F = n + 1 => P = 0,
           NEW i, i = g[n + 1], i.id = n + 1, is_load(i.op) = dir, VectorBytes(i) \in Nat,
           NEW u, u.vinsn = Append(q.vinsn, i), u.issue_cnt = q.issue_cnt + 1,
           u.issue_bytes = IF q.issue_cnt = 0 THEN VectorBytes(i) ELSE q.issue_bytes,
           u.vrf_pnt = q.vrf_pnt
    PROVE  UnitHolds(g, u, dir, F, P, n + 1)
<1>1. PICK d, c, ib, vp, l :
          /\ c \in Nat /\ l \in Nat /\ d = Pend(q) /\ c = q.issue_cnt /\ ib = q.issue_bytes
          /\ vp = q.vrf_pnt /\ l = Len(q.vinsn) /\ c <= l
  BY PendFacts DEF UnitTyped
<1>2. Holds(g, d, c, ib, vp, dir, F, P, n)
  BY <1>1 DEF UnitHolds
<1>3. PICK d2, ib2 : d2 = Pend(u) /\ ib2 = u.issue_bytes
  OBVIOUS
<1>4. /\ Len(u.vinsn) = l + 1 /\ u.vinsn[l + 1] = i
      /\ \A k \in 1..l : u.vinsn[k] = q.vinsn[k]
  <2>1. PICK v : v = q.vinsn /\ v \in Seq(AllInsns)
    BY DEF UnitTyped
  <2> QED BY <1>1, <2>1
<1>5. u.issue_cnt = c + 1 /\ ib2 = IF c = 0 THEN VectorBytes(i) ELSE ib
  BY <1>1, <1>3
<1>6. ASSUME NEW k \in 1..(c + 1) PROVE d2[k] = u.vinsn[l - c + k]
  <2>1. d2[k] = u.vinsn[(l + 1) - (c + 1) + k]
    BY <1>3, <1>4, <1>5 DEF Pend
  <2>2. (l + 1) - (c + 1) + k = l - c + k
    <3>1. k \in Int /\ c \in Int /\ l \in Int
      BY <1>1
    <3> QED BY <3>1
  <2> QED BY <2>1, <2>2
<1>7. d2[c + 1] = i
  <2>1. c + 1 \in 1..(c + 1) /\ l - c + (c + 1) = l + 1
    <3>1. c \in Nat /\ l \in Nat
      BY <1>1
    <3> QED BY <3>1
  <2> QED BY <1>4, <1>6, <2>1
<1>8. ASSUME NEW k \in 1..c PROVE d2[k] = d[k]
  <2>1. k \in 1..(c + 1) /\ l - c + k \in 1..l
    <3>1. c \in Nat /\ l \in Nat /\ c <= l
      BY <1>1
    <3>2. k \in Nat /\ 1 <= k /\ k <= c
      BY <3>1
    <3> QED BY <3>1, <3>2
  <2>2. d[k] = q.vinsn[l - c + k]
    BY <1>1 DEF Pend
  <2> QED BY <1>4, <1>6, <2>1, <2>2
<1>9. c = 0 => vp = 0
  BY <1>1 DEF InWord
<1>10. Holds(g, d2, c + 1, ib2, vp, dir, F, P, n + 1)
  <2>1. c \in Nat
    BY <1>1
  <2>2. ib2 = IF c = 0 THEN VectorBytes(i) ELSE ib
    BY <1>5
  <2>3. (\A k \in 1..c : d2[k] = d[k]) /\ d2[c + 1] = i
    BY <1>7, <1>8
  <2> QED BY <1>2, <1>9, <2>1, <2>2, <2>3, HoldsAccepted
<1> QED BY <1>1, <1>3, <1>5, <1>10 DEF UnitHolds

LEMMA UnitBroadcast ==
    ASSUME NEW g, NEW q, UnitTyped(q), NEW dir, NEW F \in Nat, NEW P, NEW n \in Nat,
           UnitHolds(g, q, dir, F, P, n), is_load(g[n + 1].op) # dir
    PROVE  UnitHolds(g, q, dir, F, P, n + 1)
<1>1. PICK d, c, ib, vp : /\ c \in Nat /\ d = Pend(q) /\ c = q.issue_cnt /\ ib = q.issue_bytes
                      /\ vp = q.vrf_pnt
  BY PendFacts
<1>2. Holds(g, d, c, ib, vp, dir, F, P, n)
  BY <1>1 DEF UnitHolds
<1>3. Holds(g, d, c, ib, vp, dir, F, P, n + 1)
  BY <1>1, <1>2, HoldsBroadcast
<1> QED BY <1>1, <1>3 DEF UnitHolds

-----------------------------------------------------------------------------
(***************************************************************************)
(* A burst that begins with byte p of its instruction in the program g, of *)
(* which n instructions are broadcast.  It ends the instruction, or        *)
(* another one goes on where it ends.                                      *)
(***************************************************************************)
Total(g, b) == VectorBytes(g[b.insn])
Ends(g, b, p) == p + Gap(b) >= Total(g, b)
ThenInsn(g, b, p) == IF Ends(g, b, p) THEN b.insn + 1 ELSE b.insn
ThenByte(g, b, p) == IF Ends(g, b, p) THEN 0 ELSE p + Gap(b)

Placed(g, b, p, n) ==
    /\ b.insn \in 1..n /\ p \in Nat
    /\ b.is_load = is_load(g[b.insn].op)
    /\ Off(b, p, b.len) < Total(g, b)
    /\ ~b.is_load => b.addr % b.size = 0 /\ p % b.size = 0
    /\ b.is_load /\ b.len = MaxBeats - 1 => p = 0 /\ ~g[b.insn].masked

(***************************************************************************)
(* The bursts of c, at the bytes pos, follow one another, the last one up  *)
(* to byte B of instruction R, where the next one is going to begin.       *)
(***************************************************************************)
StartInsn(c, R, k) == IF k <= Len(c) THEN c[k].insn ELSE R
StartByte(c, pos, B, k) == IF k <= Len(c) THEN pos[k] ELSE B

Chained(g, c, pos, R, B, n) ==
    \A k \in 1..Len(c) :
        /\ Placed(g, c[k], pos[k], n)
        /\ ThenInsn(g, c[k], pos[k]) = StartInsn(c, R, k + 1)
        /\ ThenByte(g, c[k], pos[k]) = StartByte(c, pos, B, k + 1)

\* The byte the units stand at.
Front(c, pos, l, s, B) ==
    IF c = <<>> THEN B
    ELSE IF c[1].is_load THEN Off(c[1], pos[1], l.len) + l.r_pnt
    ELSE Off(c[1], pos[1], s.len)

(***************************************************************************)
(* The commands c, the load unit l and the store unit s agree on what is   *)
(* moved and what is not.                                                  *)
(***************************************************************************)
Agree(g, c, pos, l, s, R, B, n) ==
    /\ Chained(g, c, pos, R, B, n)
    /\ UnitHolds(g, l, TRUE, StartInsn(c, R, 1), Front(c, pos, l, s, B), n)
    /\ UnitHolds(g, s, FALSE, StartInsn(c, R, 1), Front(c, pos, l, s, B), n)

Ledger(g, c, l, s, R, B, n) ==
    \E pos \in [1..Len(c) -> Nat] : Agree(g, c, pos, l, s, R, B, n)

OneWay(c) == (\A k \in 1..Len(c) : c[k].is_load) \/ (\A k \in 1..Len(c) : ~c[k].is_load)
Sized(g, n) == \A m \in 1..n : VectorBytes(g[m]) \in Nat \ {0}

\* What is left of the bursts when the first one is through.
After(c, pos, d, pos2) == d = Tail(c) /\ pos2 = [k \in 1..Len(d) |-> pos[k + 1]]

AtStart(b, l, s) == /\ b.is_load => l.len = 0 /\ l.r_pnt = 0
                    /\ ~b.is_load => s.len = 0

\* The first burst is through: the next one is at its first byte, which is byte P of
\* instruction F.
Through(g, c, pos, d, pos2, R, B, n, l, s, F, P) ==
    /\ c \in Seq(Bursts) /\ c # <<>> /\ OneWay(c) /\ Chained(g, c, pos, R, B, n)
    /\ After(c, pos, d, pos2) /\ AtStart(c[1], l, s)
    /\ F = ThenInsn(g, c[1], pos[1]) /\ P = ThenByte(g, c[1], pos[1])

Follows(g, d, pos, R, B, n, l, s, F, P) ==
    /\ pos \in [1..Len(d) -> Nat] /\ Chained(g, d, pos, R, B, n)
    /\ StartInsn(d, R, 1) = F /\ Front(d, pos, l, s, B) = P

LEMMA NextFront ==
    ASSUME NEW g, NEW c, NEW pos, NEW d, NEW pos2, NEW R, NEW B, NEW n, NEW l, NEW s,
           NEW F, NEW P, Through(g, c, pos, d, pos2, R, B, n, l, s, F, P)
    PROVE  Follows(g, d, pos2, R, B, n, l, s, F, P)
<1>01. /\ c \in Seq(Bursts) /\ c # <<>> /\ OneWay(c) /\ Chained(g, c, pos, R, B, n)
       /\ After(c, pos, d, pos2) /\ AtStart(c[1], l, s)
       /\ F = ThenInsn(g, c[1], pos[1]) /\ P = ThenByte(g, c[1], pos[1])
  BY DEF Through
<1>0. d = Tail(c) /\ pos2 = [k \in 1..Len(d) |-> pos[k + 1]]
  BY <1>01 DEF After
<1>1. PICK m \in Nat : /\ m = Len(d) /\ Len(c) = m + 1 /\ d \in Seq(Bursts)
                       /\ \A k \in 1..m : d[k] = c[k + 1]
  <2>1. /\ Len(c) \in Nat \ {0} /\ Tail(c) \in Seq(Bursts) /\ Len(Tail(c)) = Len(c) - 1
        /\ \A k \in 1..Len(Tail(c)) : Tail(c)[k] = c[k + 1]
    BY <1>01, TailFacts
  <2>2. Len(d) \in Nat /\ Len(c) = Len(d) + 1
    BY <1>0, <2>1
  <2> QED BY <1>0, <2>1, <2>2
<1>2. ASSUME NEW k \in 1..m
      PROVE  /\ k + 1 \in 1..Len(c) /\ d[k] = c[k + 1] /\ pos2[k] = pos[k + 1]
             /\ Placed(g, d[k], pos2[k], n) /\ pos2[k] \in Nat
             /\ ThenInsn(g, d[k], pos2[k]) = StartInsn(c, R, (k + 1) + 1)
             /\ ThenByte(g, d[k], pos2[k]) = StartByte(c, pos, B, (k + 1) + 1)
  <2>1. k + 1 \in 1..Len(c) /\ d[k] = c[k + 1] /\ pos2[k] = pos[k + 1]
    BY <1>0, <1>1
  <2>2. /\ Placed(g, c[k + 1], pos[k + 1], n)
        /\ ThenInsn(g, c[k + 1], pos[k + 1]) = StartInsn(c, R, (k + 1) + 1)
        /\ ThenByte(g, c[k + 1], pos[k + 1]) = StartByte(c, pos, B, (k + 1) + 1)
    BY <1>01, <2>1 DEF Chained
  <2> QED BY <2>1, <2>2 DEF Placed
<1>3. ASSUME NEW k \in 1..(m + 1)
      PROVE  /\ StartInsn(c, R, k + 1) = StartInsn(d, R, k)
             /\ StartByte(c, pos, B, k + 1) = StartByte(d, pos2, B, k)
  <2>1. CASE k = m + 1
    <3>1. ~(k + 1 <= Len(c)) /\ ~(k <= Len(d))
      BY <1>1, <2>1
    <3> QED BY <3>1 DEF StartInsn, StartByte
  <2>2. CASE k # m + 1
    <3>1. k \in 1..m /\ k + 1 <= Len(c) /\ k <= Len(d)
      BY <1>1, <2>2
    <3> QED BY <1>2, <3>1 DEF StartInsn, StartByte
  <2> QED BY <2>1, <2>2
<1>4. Chained(g, d, pos2, R, B, n)
  <2>1. ASSUME NEW k \in 1..m
        PROVE  /\ Placed(g, d[k], pos2[k], n)
               /\ ThenInsn(g, d[k], pos2[k]) = StartInsn(d, R, k + 1)
               /\ ThenByte(g, d[k], pos2[k]) = StartByte(d, pos2, B, k + 1)
    <3>1. k + 1 \in 1..(m + 1)
      OBVIOUS
    <3> QED BY <1>2, <1>3, <3>1
  <2> QED BY <1>1, <2>1 DEF Chained
<1>5. pos2 \in [1..Len(d) -> Nat]
  BY <1>0, <1>1, <1>2
<1>6. 1 \in 1..(m + 1) /\ 1 \in 1..Len(c)
  BY <1>1
<1>7. /\ ThenInsn(g, c[1], pos[1]) = StartInsn(c, R, 1 + 1)
      /\ ThenByte(g, c[1], pos[1]) = StartByte(c, pos, B, 1 + 1)
  BY <1>01, <1>6 DEF Chained
<1>8. /\ StartInsn(d, R, 1) = ThenInsn(g, c[1], pos[1])
      /\ StartByte(d, pos2, B, 1) = ThenByte(g, c[1], pos[1])
  BY <1>3, <1>6, <1>7
<1>9. Front(d, pos2, l, s, B) = StartByte(d, pos2, B, 1)
  <2>1. CASE m = 0
    <3>1. d = <<>> /\ ~(1 <= Len(d))
      <4>1. Len(d) = 0 /\ d \in Seq(Bursts)
        BY <1>1, <2>1
      <4> QED BY <4>1, NoneLeft
    <3> QED BY <3>1 DEF Front, StartByte
  <2>2. CASE m # 0
    <3>1. d # <<>> /\ 1 <= Len(d) /\ 1 \in 1..m
      BY <1>1, <2>2
    <3>2. d[1] \in Bursts /\ d[1] = c[2] /\ pos2[1] \in Nat
      BY <1>1, <1>2, <3>1
    <3>3. d[1].is_load = c[1].is_load
      <4>1. 2 \in 1..Len(c)
        BY <1>1, <3>1
      <4>2. d[1].is_load \in BOOLEAN /\ c[1].is_load \in BOOLEAN
        <5>1. c[1] \in Bursts
          BY <1>01, <1>6
        <5> QED BY <3>2, <5>1 DEF Bursts
      <4> QED BY <1>01, <1>6, <3>2, <4>1, <4>2 DEF OneWay
    <3>4. d[1].addr \in Int
      BY <3>2 DEF Bursts
    <3>5. Off(d[1], pos2[1], 0) = pos2[1]
      <4>1. PICK p, b : p \in Nat /\ p = pos2[1] /\ b = d[1]
        BY <3>2
      <4>2. Off(b, p, 0) = p
        <5>1. b.addr \in Int /\ p \in Nat
          BY <3>4, <4>1
        <5>2. beat_addr(b, 0) = b.addr
          BY DEF beat_addr
        <5> QED BY <5>1, <5>2 DEF Off
      <4> QED BY <4>1, <4>2
    <3>6. CASE c[1].is_load
      <4>1. Front(d, pos2, l, s, B) = Off(d[1], pos2[1], 0) + 0
        BY <1>01, <3>1, <3>3, <3>6 DEF AtStart, Front
      <4> QED BY <3>1, <3>2, <3>5, <4>1 DEF StartByte
    <3>7. CASE ~c[1].is_load
      <4>1. Front(d, pos2, l, s, B) = Off(d[1], pos2[1], 0)
        BY <1>01, <3>1, <3>3, <3>7 DEF AtStart, Front
      <4> QED BY <3>1, <3>5, <4>1 DEF StartByte
    <3> QED BY <3>6, <3>7
  <2> QED BY <2>1, <2>2
<1> QED BY <1>01, <1>4, <1>5, <1>8, <1>9 DEF Follows

\* The first burst, and who is to move it.
LEMMA FirstBurst ==
    ASSUME NEW g, NEW c \in Seq(Bursts), c # <<>>, NEW pos, NEW R, NEW B, NEW n \in Nat,
           Chained(g, c, pos, R, B, n), Sized(g, n)
    PROVE  /\ c[1] \in Bursts /\ c[1].is_load \in BOOLEAN
           /\ c[1].insn \in Nat /\ c[1].insn <= n /\ StartInsn(c, R, 1) = c[1].insn
           /\ Total(g, c[1]) \in Nat \ {0} /\ pos[1] \in Nat
           /\ Off(c[1], pos[1], c[1].len) < Total(g, c[1])
           /\ c[1].is_load = is_load(g[c[1].insn].op)
           /\ ~c[1].is_load => c[1].addr % c[1].size = 0 /\ pos[1] % c[1].size = 0
           /\ c[1].is_load /\ c[1].len = MaxBeats - 1 => pos[1] = 0 /\ ~g[c[1].insn].masked
<1>1. 1 \in 1..Len(c) /\ 1 <= Len(c) /\ c[1] \in Bursts
  BY TailFacts
<1>2. Placed(g, c[1], pos[1], n)
  BY <1>1 DEF Chained
<1>3. c[1].insn \in 1..n
  BY <1>2 DEF Placed
<1>4. VectorBytes(g[c[1].insn]) \in Nat \ {0}
  BY <1>3 DEF Sized
<1>5. Total(g, c[1]) \in Nat \ {0}
  BY <1>4 DEF Total
<1>6. c[1].insn \in Nat /\ c[1].insn <= n /\ StartInsn(c, R, 1) = c[1].insn
  BY <1>1, <1>3 DEF StartInsn
<1>7. c[1].is_load \in BOOLEAN
  BY <1>1 DEF Bursts
<1> QED BY <1>1, <1>2, <1>5, <1>6, <1>7 DEF Placed

\* The load unit l is to read a beat of the first burst.
ToRead(g, c, l, s, R, B, n) ==
    /\ c \in Seq(Bursts) /\ c # <<>> /\ OneWay(c) /\ c[1].is_load
    /\ LoadKept(l) /\ InBeat(l, c[1]) /\ l.len <= c[1].len /\ UnitTyped(s)
    /\ n \in Nat /\ Sized(g, n) /\ Ledger(g, c, l, s, R, B, n)
    /\ l.issue_cnt # 0

\* The beat it reads.
BeatRead(c, l, b, unmasked, data, mask, r, u, d) ==
    /\ b = c[1] /\ unmasked \in BOOLEAN /\ (~Issued(l).masked => unmasked)
    /\ r = ReadBeat(l, b, data, unmasked, mask) /\ u = r.unit
    /\ d = IF r.popped THEN Tail(c) ELSE c

\* Reading a beat keeps the ledger.
LEMMA LedgerRead ==
    ASSUME NEW g, NEW c, NEW l, NEW s, NEW R, NEW B, NEW n, ToRead(g, c, l, s, R, B, n),
           NEW b, NEW unmasked, NEW data, NEW mask, NEW r, NEW u, NEW d,
           BeatRead(c, l, b, unmasked, data, mask, r, u, d)
    PROVE  /\ Ledger(g, d, u, s, R, B, n)
           /\ r.popped => r.taken /\ l.len = b.len /\ u.len = 0 /\ u.r_pnt = 0
           /\ ~r.popped => /\ u.len <= b.len
                           /\ \/ ~r.taken /\ u.len = l.len
                              \/ r.taken /\ l.len # b.len /\ u.len = l.len + 1
<1>01. /\ c \in Seq(Bursts) /\ c # <<>> /\ OneWay(c) /\ c[1].is_load
       /\ LoadKept(l) /\ InBeat(l, c[1]) /\ l.len <= c[1].len /\ UnitTyped(s)
       /\ n \in Nat /\ Sized(g, n) /\ Ledger(g, c, l, s, R, B, n)
       /\ l.issue_cnt # 0
  BY DEF ToRead
<1>02. /\ b = c[1] /\ unmasked \in BOOLEAN /\ (~Issued(l).masked => unmasked)
       /\ r = ReadBeat(l, b, data, unmasked, mask) /\ u = r.unit
       /\ d = IF r.popped THEN Tail(c) ELSE c
  BY DEF BeatRead
<1>1. PICK pos \in [1..Len(c) -> Nat] : Agree(g, c, pos, l, s, R, B, n)
  BY <1>01 DEF Ledger
<1>2. Chained(g, c, pos, R, B, n)
  BY <1>1 DEF Agree
<1>3. PICK p, F, T : b = c[1] /\ p = pos[1] /\ F = c[1].insn /\ T = Total(g, c[1])
  BY <1>02
<1>4. /\ b \in Bursts /\ p \in Nat /\ T \in Nat \ {0} /\ F \in Nat /\ F <= n
      /\ StartInsn(c, R, 1) = F /\ Off(b, p, b.len) < T
      /\ is_load(g[F].op) = TRUE /\ T = VectorBytes(g[F])
      /\ b.len = MaxBeats - 1 => p = 0 /\ ~g[F].masked
  <2>1. /\ c[1] \in Bursts /\ c[1].insn \in Nat /\ c[1].insn <= n
        /\ StartInsn(c, R, 1) = c[1].insn
        /\ Total(g, c[1]) \in Nat \ {0} /\ pos[1] \in Nat
        /\ Off(c[1], pos[1], c[1].len) < Total(g, c[1])
        /\ c[1].is_load = is_load(g[c[1].insn].op)
        /\ c[1].is_load /\ c[1].len = MaxBeats - 1 => pos[1] = 0 /\ ~g[c[1].insn].masked
        /\ c[1].is_load \in BOOLEAN
    BY <1>01, <1>2, FirstBurst
  <2>2. c[1].is_load = TRUE
    BY <1>01, <2>1
  <2> QED BY <1>3, <2>1, <2>2 DEF Total
<1>5. PICK P : P = Off(b, p, l.len) + l.r_pnt
  OBVIOUS
<1>6. UnitHolds(g, l, TRUE, F, P, n) /\ UnitHolds(g, s, FALSE, F, P, n)
  <2>1. Front(c, pos, l, s, B) = P
    BY <1>01, <1>3, <1>5 DEF Front
  <2> QED BY <1>1, <1>4, <2>1 DEF Agree
<1>7. UnitTyped(l) /\ l.len \in Nat /\ l.r_pnt \in Nat /\ l.len <= b.len
  BY <1>01, <1>3, AxiAssumption DEF LoadKept, LoadTyped, UnitTyped
<1>8. Issued(l) = g[F] /\ InWords2(l, T, P)
  <2>1. /\ l.issue_cnt # 0 /\ Issued(l) = g[F] /\ Issued(l).id = F
        /\ InWords2(l, VectorBytes(g[F]), P)
    <3>1. UnitTyped(l) /\ F \in Nat /\ n \in Nat /\ F <= n
      BY <1>01, <1>4, <1>7
    <3>2. UnitHolds(g, l, TRUE, F, P, n) /\ is_load(g[F].op) = TRUE
      BY <1>4, <1>6
    <3> QED BY <3>1, <3>2, UnitFirst
  <2> QED BY <1>4, <2>1
<1>9. P \in Int
  <2>1. b.addr \in Int /\ b.size \in Sizes
    BY <1>4 DEF Bursts
  <2>2. beat_addr(b, l.len) \in Int
    BY <1>7, <2>1, BeatBytesInRow
  <2>3. Off(b, p, l.len) \in Int
    BY <1>4, <2>1, <2>2 DEF Off
  <2> QED BY <1>5, <1>7, <2>3
<1>10. PICK Q \in Nat :
         \/ /\ ~r.popped /\ Q < T /\ SameIssue(u, l) /\ InWords2(u, T, Q)
            /\ u.len <= b.len /\ Q = Off(b, p, u.len) + u.r_pnt
            /\ \/ ~r.taken /\ u.len = l.len
               \/ r.taken /\ l.len # b.len /\ u.len = l.len + 1
         \/ /\ r.popped /\ r.taken /\ l.len = b.len /\ u.len = 0 /\ u.r_pnt = 0
            /\ Q < T /\ SameIssue(u, l) /\ InWords2(u, T, Q) /\ Q = p + Gap(b)
         \/ /\ r.popped /\ r.taken /\ l.len = b.len /\ u.len = 0 /\ u.r_pnt = 0
            /\ p + Gap(b) >= T /\ NextIssued(u, l) /\ u.vrf_pnt = 0
  <2>1. b.len = MaxBeats - 1 => p = 0 /\ unmasked
    BY <1>02, <1>4, <1>8
  <2>2. InBeat(l, b) /\ r = ReadBeat(l, b, data, unmasked, mask) /\ T \in Nat
    BY <1>01, <1>02, <1>3, <1>4
  <2>3. LoadKept(l) /\ l.issue_cnt # 0 /\ l.len <= b.len /\ u = r.unit
    BY <1>01, <1>02, <1>3
  <2>4. P = Off(b, p, l.len) + l.r_pnt /\ InWords2(l, T, P)
    BY <1>5, <1>8
  <2>5. b \in Bursts /\ p \in Nat /\ Off(b, p, b.len) < T /\ unmasked \in BOOLEAN
    BY <1>02, <1>4
  <2> QED BY <1>9, <2>1, <2>2, <2>3, <2>4, <2>5, ReadCounts
<1>11. \A P2 : UnitHolds(g, s, FALSE, F, P2, n)
  BY <1>01, <1>4, <1>6, UnitOther
<1>12. UnitHolds(g, s, FALSE, F + 1, 0, n)
  BY <1>01, <1>4, <1>6, UnitOther
<1>13. CASE /\ ~r.popped /\ Q < T /\ SameIssue(u, l) /\ InWords2(u, T, Q)
            /\ u.len <= b.len /\ Q = Off(b, p, u.len) + u.r_pnt
            /\ \/ ~r.taken /\ u.len = l.len
               \/ r.taken /\ l.len # b.len /\ u.len = l.len + 1
  <2>1. d = c
    BY <1>02, <1>13
  <2>2. UnitHolds(g, u, TRUE, F, Q, n)
    BY <1>01, <1>4, <1>6, <1>7, <1>13, UnitMoved
  <2>3. Front(c, pos, u, s, B) = Q
    BY <1>01, <1>3, <1>13 DEF Front
  <2>4. Agree(g, d, pos, u, s, R, B, n)
    BY <1>2, <1>4, <1>11, <2>1, <2>2, <2>3 DEF Agree
  <2>5. Ledger(g, d, u, s, R, B, n)
    BY <2>1, <2>4 DEF Ledger
  <2> QED BY <1>3, <1>13, <2>5
<1>14. ASSUME r.popped, u.len = 0, u.r_pnt = 0,
              NEW F2, NEW P2, F2 = ThenInsn(g, b, p), P2 = ThenByte(g, b, p),
              UnitHolds(g, u, TRUE, F2, P2, n), UnitHolds(g, s, FALSE, F2, P2, n)
       PROVE  Ledger(g, d, u, s, R, B, n)
  <2>1. PICK pos2 : After(c, pos, d, pos2)
    <3>1. d = Tail(c)
      BY <1>02, <1>14
    <3> QED BY <3>1 DEF After
  <2>3. Follows(g, d, pos2, R, B, n, u, s, F2, P2)
    <3>1. AtStart(c[1], u, s)
      BY <1>01, <1>14 DEF AtStart
    <3>2. Through(g, c, pos, d, pos2, R, B, n, u, s, F2, P2)
      BY <1>01, <1>2, <1>3, <1>14, <2>1, <3>1 DEF Through
    <3> QED BY <3>2, NextFront
  <2>4. Agree(g, d, pos2, u, s, R, B, n)
    BY <1>14, <2>3 DEF Agree, Follows
  <2> QED BY <2>3, <2>4 DEF Ledger, Follows
<1>15. CASE /\ r.popped /\ r.taken /\ l.len = b.len /\ u.len = 0 /\ u.r_pnt = 0
            /\ Q < T /\ SameIssue(u, l) /\ InWords2(u, T, Q) /\ Q = p + Gap(b)
  <2>1. UnitHolds(g, u, TRUE, F, Q, n)
    BY <1>01, <1>4, <1>6, <1>7, <1>15, UnitMoved
  <2>2. F = ThenInsn(g, b, p) /\ Q = ThenByte(g, b, p)
    <3>1. ~Ends(g, b, p)
      BY <1>3, <1>4, <1>15 DEF Ends
    <3> QED BY <1>3, <1>15, <3>1 DEF ThenInsn, ThenByte
  <2>3. Ledger(g, d, u, s, R, B, n)
    BY <1>11, <1>14, <1>15, <2>1, <2>2
  <2> QED BY <1>3, <1>15, <2>3
<1>16. CASE /\ r.popped /\ r.taken /\ l.len = b.len /\ u.len = 0 /\ u.r_pnt = 0
            /\ p + Gap(b) >= T /\ NextIssued(u, l) /\ u.vrf_pnt = 0
  <2>1. UnitHolds(g, u, TRUE, F + 1, 0, n)
    BY <1>01, <1>4, <1>6, <1>7, <1>16, UnitIssued
  <2>2. F + 1 = ThenInsn(g, b, p) /\ 0 = ThenByte(g, b, p)
    <3>1. Ends(g, b, p)
      BY <1>3, <1>4, <1>16 DEF Ends
    <3> QED BY <1>3, <1>16, <3>1 DEF ThenInsn, ThenByte
  <2>3. Ledger(g, d, u, s, R, B, n)
    BY <1>12, <1>14, <1>16, <2>1, <2>2
  <2> QED BY <1>3, <1>16, <2>3
<1> QED BY <1>10, <1>13, <1>15, <1>16

\* The store unit s is to send a beat of the first burst.
ToWrite(g, c, l, s, R, B, n) ==
    /\ c \in Seq(Bursts) /\ c # <<>> /\ OneWay(c) /\ ~c[1].is_load
    /\ StoreTyped(s) /\ InWord(s) /\ s.len <= c[1].len
    /\ UnitTyped(l) /\ l.len = 0 /\ l.r_pnt = 0
    /\ n \in Nat /\ Sized(g, n) /\ Ledger(g, c, l, s, R, B, n)
    /\ s.issue_cnt # 0

\* The beat it sends.
BeatSent(c, s, b, w, f, d) ==
    /\ b = c[1] /\ w = WriteBeat(s, b) /\ f = FinishStore(w.unit, s)
    /\ d = IF w.popped THEN Tail(c) ELSE c

\* Sending a beat keeps the ledger.
LEMMA LedgerWrite ==
    ASSUME NEW g, NEW c, NEW l, NEW s, NEW R, NEW B, NEW n, ToWrite(g, c, l, s, R, B, n),
           NEW b, NEW w, NEW f, NEW d, BeatSent(c, s, b, w, f, d)
    PROVE  /\ Ledger(g, d, l, f, R, B, n)
           /\ w.popped => s.len = b.len /\ f.len = 0
           /\ ~w.popped => s.len # b.len /\ f.len = s.len + 1 /\ f.len <= b.len
<1>01. /\ c \in Seq(Bursts) /\ c # <<>> /\ OneWay(c) /\ ~c[1].is_load
       /\ StoreTyped(s) /\ InWord(s) /\ s.len <= c[1].len
       /\ UnitTyped(l) /\ l.len = 0 /\ l.r_pnt = 0
       /\ n \in Nat /\ Sized(g, n) /\ Ledger(g, c, l, s, R, B, n)
       /\ s.issue_cnt # 0
  BY DEF ToWrite
<1>02. /\ b = c[1] /\ w = WriteBeat(s, b) /\ f = FinishStore(w.unit, s)
       /\ d = IF w.popped THEN Tail(c) ELSE c
  BY DEF BeatSent
<1>1. PICK pos \in [1..Len(c) -> Nat] : Agree(g, c, pos, l, s, R, B, n)
  BY <1>01 DEF Ledger
<1>2. Chained(g, c, pos, R, B, n)
  BY <1>1 DEF Agree
<1>3. PICK p, F, T : b = c[1] /\ p = pos[1] /\ F = c[1].insn /\ T = Total(g, c[1])
  BY <1>02
<1>4. /\ b \in Bursts /\ p \in Nat /\ T \in Nat \ {0} /\ F \in Nat /\ F <= n
      /\ StartInsn(c, R, 1) = F /\ Off(b, p, b.len) < T
      /\ is_load(g[F].op) = FALSE /\ T = VectorBytes(g[F])
      /\ b.addr % b.size = 0 /\ p % b.size = 0
  <2>1. /\ c[1] \in Bursts /\ c[1].insn \in Nat /\ c[1].insn <= n
        /\ StartInsn(c, R, 1) = c[1].insn
        /\ Total(g, c[1]) \in Nat \ {0} /\ pos[1] \in Nat
        /\ Off(c[1], pos[1], c[1].len) < Total(g, c[1])
        /\ c[1].is_load = is_load(g[c[1].insn].op)
        /\ ~c[1].is_load => c[1].addr % c[1].size = 0 /\ pos[1] % c[1].size = 0
        /\ c[1].is_load \in BOOLEAN
    BY <1>01, <1>2, FirstBurst
  <2>2. c[1].is_load = FALSE
    BY <1>01, <2>1
  <2> QED BY <1>3, <2>1, <2>2 DEF Total
<1>5. PICK P : P = Off(b, p, s.len)
  OBVIOUS
<1>6. UnitHolds(g, l, TRUE, F, P, n) /\ UnitHolds(g, s, FALSE, F, P, n)
  <2>1. Front(c, pos, l, s, B) = P
    BY <1>01, <1>3, <1>5 DEF Front
  <2> QED BY <1>1, <1>4, <2>1 DEF Agree
<1>7. UnitTyped(s) /\ s.len \in Nat /\ s.len <= b.len
  BY <1>01, <1>3, AxiAssumption DEF StoreTyped, UnitTyped
<1>8. InWords2(s, T, P)
  <2>1. /\ s.issue_cnt # 0 /\ Issued(s) = g[F] /\ Issued(s).id = F
        /\ InWords2(s, VectorBytes(g[F]), P)
    <3>1. UnitTyped(s) /\ F \in Nat /\ n \in Nat /\ F <= n
      BY <1>01, <1>4, <1>7
    <3>2. UnitHolds(g, s, FALSE, F, P, n) /\ is_load(g[F].op) = FALSE
      BY <1>4, <1>6
    <3> QED BY <3>1, <3>2, UnitFirst
  <2> QED BY <1>4, <2>1
<1>9. P \in Int
  <2>1. b.addr \in Int /\ b.size \in Sizes
    BY <1>4 DEF Bursts
  <2>2. beat_addr(b, s.len) \in Int
    BY <1>7, <2>1, BeatBytesInRow
  <2> QED BY <1>4, <1>5, <2>1, <2>2 DEF Off
<1>10. PICK Q \in Nat :
         \/ /\ ~w.popped /\ Q < T /\ SameIssue(f, s) /\ InWords2(f, T, Q)
            /\ s.len # b.len /\ f.len = s.len + 1 /\ f.len <= b.len /\ Q = Off(b, p, f.len)
         \/ /\ w.popped /\ s.len = b.len /\ f.len = 0
            /\ Q < T /\ SameIssue(f, s) /\ InWords2(f, T, Q) /\ Q = p + Gap(b)
         \/ /\ w.popped /\ s.len = b.len /\ f.len = 0
            /\ p + Gap(b) >= T /\ NextIssued(f, s) /\ f.vrf_pnt = 0
  <2>1. w = WriteBeat(s, b) /\ f = FinishStore(w.unit, s) /\ T \in Nat
    BY <1>02, <1>4
  <2>2. StoreTyped(s) /\ InWord(s) /\ s.issue_cnt # 0
    BY <1>01
  <2> QED BY <1>4, <1>5, <1>7, <1>8, <1>9, <2>1, <2>2, WriteCounts
<1>11. \A P2 : UnitHolds(g, l, TRUE, F, P2, n)
  BY <1>01, <1>4, <1>6, UnitOther
<1>12. UnitHolds(g, l, TRUE, F + 1, 0, n)
  BY <1>01, <1>4, <1>6, UnitOther
<1>13. CASE /\ ~w.popped /\ Q < T /\ SameIssue(f, s) /\ InWords2(f, T, Q)
            /\ s.len # b.len /\ f.len = s.len + 1 /\ f.len <= b.len /\ Q = Off(b, p, f.len)
  <2>1. d = c
    BY <1>02, <1>13
  <2>2. UnitHolds(g, f, FALSE, F, Q, n)
    BY <1>01, <1>4, <1>6, <1>7, <1>13, UnitMoved
  <2>3. Front(c, pos, l, f, B) = Q
    BY <1>01, <1>3, <1>13 DEF Front
  <2>4. Agree(g, d, pos, l, f, R, B, n)
    BY <1>2, <1>4, <1>11, <2>1, <2>2, <2>3 DEF Agree
  <2>5. Ledger(g, d, l, f, R, B, n)
    BY <2>1, <2>4 DEF Ledger
  <2> QED BY <1>3, <1>13, <2>5
<1>14. ASSUME w.popped, f.len = 0,
              NEW F2, NEW P2, F2 = ThenInsn(g, b, p), P2 = ThenByte(g, b, p),
              UnitHolds(g, f, FALSE, F2, P2, n), UnitHolds(g, l, TRUE, F2, P2, n)
       PROVE  Ledger(g, d, l, f, R, B, n)
  <2>1. PICK pos2 : After(c, pos, d, pos2)
    <3>1. d = Tail(c)
      BY <1>02, <1>14
    <3> QED BY <3>1 DEF After
  <2>3. Follows(g, d, pos2, R, B, n, l, f, F2, P2)
    <3>1. AtStart(c[1], l, f)
      BY <1>01, <1>14 DEF AtStart
    <3>2. Through(g, c, pos, d, pos2, R, B, n, l, f, F2, P2)
      BY <1>01, <1>2, <1>3, <1>14, <2>1, <3>1 DEF Through
    <3> QED BY <3>2, NextFront
  <2>4. Agree(g, d, pos2, l, f, R, B, n)
    BY <1>14, <2>3 DEF Agree, Follows
  <2> QED BY <2>3, <2>4 DEF Ledger, Follows
<1>15. CASE /\ w.popped /\ s.len = b.len /\ f.len = 0
            /\ Q < T /\ SameIssue(f, s) /\ InWords2(f, T, Q) /\ Q = p + Gap(b)
  <2>1. UnitHolds(g, f, FALSE, F, Q, n)
    BY <1>01, <1>4, <1>6, <1>7, <1>15, UnitMoved
  <2>2. F = ThenInsn(g, b, p) /\ Q = ThenByte(g, b, p)
    <3>1. ~Ends(g, b, p)
      BY <1>3, <1>4, <1>15 DEF Ends
    <3> QED BY <1>3, <1>15, <3>1 DEF ThenInsn, ThenByte
  <2>3. Ledger(g, d, l, f, R, B, n)
    BY <1>11, <1>14, <1>15, <2>1, <2>2
  <2> QED BY <1>3, <1>15, <2>3
<1>16. CASE /\ w.popped /\ s.len = b.len /\ f.len = 0
            /\ p + Gap(b) >= T /\ NextIssued(f, s) /\ f.vrf_pnt = 0
  <2>1. UnitHolds(g, f, FALSE, F + 1, 0, n)
    BY <1>01, <1>4, <1>6, <1>7, <1>16, UnitIssued
  <2>2. F + 1 = ThenInsn(g, b, p) /\ 0 = ThenByte(g, b, p)
    <3>1. Ends(g, b, p)
      BY <1>3, <1>4, <1>16 DEF Ends
    <3> QED BY <1>3, <1>16, <3>1 DEF ThenInsn, ThenByte
  <2>3. Ledger(g, d, l, f, R, B, n)
    BY <1>12, <1>14, <1>16, <2>1, <2>2
  <2> QED BY <1>3, <1>16, <2>3
<1> QED BY <1>10, <1>13, <1>15, <1>16

\* A step that moves nothing.
LEMMA LedgerSame ==
    ASSUME NEW g, NEW c, NEW l, NEW s, NEW R, NEW B, NEW n, Ledger(g, c, l, s, R, B, n),
           NEW l2, SamePlace(l2, l), c # <<>> => l2.len = l.len /\ l2.r_pnt = l.r_pnt,
           NEW s2, SamePlace(s2, s), c # <<>> => s2.len = s.len
    PROVE  Ledger(g, c, l2, s2, R, B, n)
<1>1. PICK pos \in [1..Len(c) -> Nat] : Agree(g, c, pos, l, s, R, B, n)
  BY DEF Ledger
<1>2. Front(c, pos, l2, s2, B) = Front(c, pos, l, s, B)
  BY DEF Front
<1>3. \A dir, F, P : UnitHolds(g, l, dir, F, P, n) => UnitHolds(g, l2, dir, F, P, n)
  BY PlaceSame
<1>4. \A dir, F, P : UnitHolds(g, s, dir, F, P, n) => UnitHolds(g, s2, dir, F, P, n)
  BY PlaceSame
<1>5. Agree(g, c, pos, l2, s2, R, B, n)
  BY <1>1, <1>2, <1>3, <1>4 DEF Agree
<1> QED BY <1>5 DEF Ledger

LEMMA PlacedMore ==
    ASSUME NEW g, NEW b, NEW p, NEW n \in Nat, Placed(g, b, p, n)
    PROVE  Placed(g, b, p, n + 1)
<1>1. b.insn \in 1..(n + 1)
  <2>1. b.insn \in 1..n
    BY DEF Placed
  <2> QED BY <2>1
<1> QED BY <1>1 DEF Placed

\* What a unit becomes when it accepts instruction i.
Accepts(u, q, i) ==
    /\ u.vinsn = Append(q.vinsn, i) /\ u.issue_cnt = q.issue_cnt + 1
    /\ u.issue_bytes = IF q.issue_cnt = 0 THEN VectorBytes(i) ELSE q.issue_bytes
    /\ u.vrf_pnt = q.vrf_pnt

Accepting(l, s, l2, s2, i) ==
    /\ l2.len = l.len /\ l2.r_pnt = l.r_pnt /\ s2.len = s.len
    /\ \/ is_load(i.op) /\ Accepts(l2, l, i) /\ s2 = s
       \/ ~is_load(i.op) /\ Accepts(s2, s, i) /\ l2 = l

\* Broadcasting an instruction keeps the ledger: nothing of it is requested.
LEMMA LedgerAccept ==
    ASSUME NEW g, NEW c \in Seq(Bursts), NEW l, UnitTyped(l), InWord(l),
           NEW s, UnitTyped(s), InWord(s), NEW n \in Nat, NEW R, R = n + 1,
           Ledger(g, c, l, s, R, 0, n),
           NEW i, i = g[n + 1], i.id = n + 1, VectorBytes(i) \in Nat,
           NEW l2, NEW s2, Accepting(l, s, l2, s2, i)
    PROVE  Ledger(g, c, l2, s2, R, 0, n + 1)
<1>1. PICK pos \in [1..Len(c) -> Nat] : Agree(g, c, pos, l, s, R, 0, n)
  BY DEF Ledger
<1>2. Chained(g, c, pos, R, 0, n)
  BY <1>1 DEF Agree
<1>3. Chained(g, c, pos, R, 0, n + 1)
  BY <1>2, PlacedMore DEF Chained
<1>4. PICK F, P : F = StartInsn(c, R, 1) /\ P = Front(c, pos, l, s, 0)
  OBVIOUS
<1>5. UnitHolds(g, l, TRUE, F, P, n) /\ UnitHolds(g, s, FALSE, F, P, n)
  BY <1>1, <1>4 DEF Agree
<1>6. F \in Nat /\ F <= n + 1 /\ (F = n + 1 => P = 0)
  <2>1. CASE c = <<>>
    <3>1. Len(c) = 0 /\ ~(1 <= Len(c))
      BY <2>1
    <3> QED BY <1>4, <2>1, <3>1 DEF StartInsn, Front
  <2>2. CASE c # <<>>
    <3>1. 1 \in 1..Len(c) /\ 1 <= Len(c)
      BY <2>2, TailFacts
    <3>2. c[1].insn \in 1..n
      BY <1>2, <3>1 DEF Chained, Placed
    <3>3. F = c[1].insn
      BY <1>4, <3>1 DEF StartInsn
    <3> QED BY <3>2, <3>3
  <2> QED BY <2>1, <2>2
<1>7. Front(c, pos, l2, s2, 0) = P
  BY <1>4 DEF Front, Accepting
<1>8. UnitHolds(g, l2, TRUE, F, P, n + 1) /\ UnitHolds(g, s2, FALSE, F, P, n + 1)
  <2>1. CASE is_load(i.op) /\ Accepts(l2, l, i) /\ s2 = s
    <3>1. is_load(i.op) = TRUE
      BY <2>1 DEF is_load
    <3>2. /\ l2.vinsn = Append(l.vinsn, i) /\ l2.issue_cnt = l.issue_cnt + 1
          /\ l2.issue_bytes = IF l.issue_cnt = 0 THEN VectorBytes(i) ELSE l.issue_bytes
          /\ l2.vrf_pnt = l.vrf_pnt
      BY <2>1 DEF Accepts
    <3>3. UnitHolds(g, l2, TRUE, F, P, n + 1)
      BY <1>5, <1>6, <3>1, <3>2, UnitAccepted
    <3>4. UnitHolds(g, s, FALSE, F, P, n + 1)
      <4>1. is_load(g[n + 1].op) # FALSE
        BY <3>1
      <4> QED BY <1>5, <1>6, <4>1, UnitBroadcast
    <3> QED BY <2>1, <3>3, <3>4
  <2>2. CASE ~is_load(i.op) /\ Accepts(s2, s, i) /\ l2 = l
    <3>1. is_load(i.op) = FALSE
      BY <2>2 DEF is_load
    <3>2. /\ s2.vinsn = Append(s.vinsn, i) /\ s2.issue_cnt = s.issue_cnt + 1
          /\ s2.issue_bytes = IF s.issue_cnt = 0 THEN VectorBytes(i) ELSE s.issue_bytes
          /\ s2.vrf_pnt = s.vrf_pnt
      BY <2>2 DEF Accepts
    <3>3. UnitHolds(g, s2, FALSE, F, P, n + 1)
      BY <1>5, <1>6, <3>1, <3>2, UnitAccepted
    <3>4. UnitHolds(g, l, TRUE, F, P, n + 1)
      <4>1. is_load(g[n + 1].op) # TRUE
        BY <3>1
      <4> QED BY <1>5, <1>6, <4>1, UnitBroadcast
    <3> QED BY <2>2, <3>3, <3>4
  <2> QED BY <2>1, <2>2 DEF Accepting
<1>9. Agree(g, c, pos, l2, s2, R, 0, n + 1)
  BY <1>3, <1>4, <1>7, <1>8 DEF Agree
<1> QED BY <1>9 DEF Ledger

\* A new burst b, of the bytes from B on of instruction R.
LEMMA LedgerRequest ==
    ASSUME NEW g, NEW c \in Seq(Bursts), NEW l, NEW s, NEW R, NEW B, NEW n,
           Ledger(g, c, l, s, R, B, n), c = <<>> => l.len = 0 /\ l.r_pnt = 0 /\ s.len = 0,
           NEW b \in Bursts, Placed(g, b, B, n), b.insn = R, NEW d, d = Append(c, b),
           NEW R2, R2 = ThenInsn(g, b, B), NEW B2, B2 = ThenByte(g, b, B)
    PROVE  Ledger(g, d, l, s, R2, B2, n)
<1>1. PICK pos \in [1..Len(c) -> Nat] : Agree(g, c, pos, l, s, R, B, n)
  BY DEF Ledger
<1>2. Chained(g, c, pos, R, B, n)
  BY <1>1 DEF Agree
<1>3. PICK m \in Nat : /\ m = Len(c) /\ Len(d) = m + 1 /\ d \in Seq(Bursts)
                       /\ d[m + 1] = b /\ \A k \in 1..m : d[k] = c[k]
  <2>1. /\ Len(c) \in Nat /\ Append(c, b) \in Seq(Bursts) /\ Len(Append(c, b)) = Len(c) + 1
        /\ Append(c, b)[Len(c) + 1] = b /\ \A k \in 1..Len(c) : Append(c, b)[k] = c[k]
    BY AppendFacts
  <2> QED BY <2>1
<1>4. B \in Nat
  BY DEF Placed
<1>5. PICK pos2 : pos2 = [k \in 1..(m + 1) |-> IF k <= m THEN pos[k] ELSE B]
  OBVIOUS
<1>6. pos2 \in [1..Len(d) -> Nat]
  BY <1>1, <1>3, <1>4, <1>5
<1>7. ASSUME NEW k \in 1..m PROVE d[k] = c[k] /\ pos2[k] = pos[k] /\ k <= m /\ k <= m + 1
  BY <1>3, <1>5
<1>8. d[m + 1] = b /\ pos2[m + 1] = B
  BY <1>3, <1>5
<1>9. ASSUME NEW k \in 1..(m + 1)
      PROVE  StartInsn(d, R2, k) = StartInsn(c, R, k)
             /\ StartByte(d, pos2, B2, k) = StartByte(c, pos, B, k)
  <2>1. CASE k = m + 1
    <3>1. k <= Len(d) /\ ~(k <= Len(c))
      BY <1>3, <2>1
    <3> QED BY <1>8, <2>1, <3>1 DEF StartInsn, StartByte
  <2>2. CASE k # m + 1
    <3>1. k \in 1..m /\ k <= Len(c) /\ k <= Len(d)
      BY <1>3, <2>2
    <3> QED BY <1>7, <3>1 DEF StartInsn, StartByte
  <2> QED BY <2>1, <2>2
<1>10. StartInsn(d, R2, (m + 1) + 1) = R2 /\ StartByte(d, pos2, B2, (m + 1) + 1) = B2
  <2>1. ~((m + 1) + 1 <= Len(d))
    BY <1>3
  <2> QED BY <2>1 DEF StartInsn, StartByte
<1>11. Chained(g, d, pos2, R2, B2, n)
  <2>1. ASSUME NEW k \in 1..(m + 1)
        PROVE  /\ Placed(g, d[k], pos2[k], n)
               /\ ThenInsn(g, d[k], pos2[k]) = StartInsn(d, R2, k + 1)
               /\ ThenByte(g, d[k], pos2[k]) = StartByte(d, pos2, B2, k + 1)
    <3>1. CASE k = m + 1
      BY <1>8, <1>10, <3>1
    <3>2. CASE k # m + 1
      <4>1. k \in 1..m /\ k \in 1..Len(c) /\ k + 1 \in 1..(m + 1)
        BY <1>3, <3>2
      <4>2. /\ Placed(g, c[k], pos[k], n)
            /\ ThenInsn(g, c[k], pos[k]) = StartInsn(c, R, k + 1)
            /\ ThenByte(g, c[k], pos[k]) = StartByte(c, pos, B, k + 1)
        BY <1>2, <4>1 DEF Chained
      <4> QED BY <1>7, <1>9, <4>1, <4>2
    <3> QED BY <3>1, <3>2
  <2> QED BY <1>3, <2>1 DEF Chained
<1>12. StartInsn(d, R2, 1) = StartInsn(c, R, 1)
  <2>1. 1 \in 1..(m + 1)
    OBVIOUS
  <2> QED BY <1>9, <2>1
<1>13. d # <<>>
  <2>1. Len(d) # 0
    BY <1>3
  <2> QED BY <2>1
<1>14. Front(d, pos2, l, s, B2) = Front(c, pos, l, s, B)
  <2>1. CASE c = <<>>
    <3>1. m = 0 /\ l.len = 0 /\ l.r_pnt = 0 /\ s.len = 0
      BY <1>3, <2>1
    <3>2. d[1] = b /\ pos2[1] = B
      BY <1>8, <3>1
    <3>3. PICK o \in Nat : o = Off(b, B, 0) /\ o = B
      <4>1. b.addr \in Int
        BY DEF Bursts
      <4>2. Off(b, B, 0) = B
        <5>1. beat_addr(b, 0) = b.addr
          BY DEF beat_addr
        <5> QED BY <1>4, <4>1, <5>1 DEF Off
      <4> QED BY <1>4, <4>2
    <3>4. Front(c, pos, l, s, B) = B
      BY <2>1 DEF Front
    <3>5. Front(d, pos2, l, s, B2) = IF b.is_load THEN o + 0 ELSE o
      BY <1>13, <3>1, <3>2, <3>3 DEF Front
    <3> QED BY <3>3, <3>4, <3>5
  <2>2. CASE c # <<>>
    <3>1. 1 \in 1..m
      BY <1>3, <2>2, TailFacts
    <3>2. d[1] = c[1] /\ pos2[1] = pos[1]
      BY <1>7, <3>1
    <3> QED BY <1>13, <2>2, <3>2 DEF Front
  <2> QED BY <2>1, <2>2
<1>15. Agree(g, d, pos2, l, s, R2, B2, n)
  BY <1>1, <1>11, <1>12, <1>14 DEF Agree
<1> QED BY <1>6, <1>15 DEF Ledger

-----------------------------------------------------------------------------
(***************************************************************************)
(* The units are in step with memory: the commands c are the bursts x that *)
(* memory reads or the bursts y that it takes, and bt counts the beats of  *)
(* the first of them as the units do.                                      *)
(***************************************************************************)
Channels(c, x, y) ==
    \/ x = c /\ y = <<>> /\ \A k \in 1..Len(c) : c[k].is_load
    \/ y = c /\ x = <<>> /\ \A k \in 1..Len(c) : ~c[k].is_load

AtHead(c, l, s) ==
    /\ c = <<>> \/ ~c[1].is_load => l.len = 0 /\ l.r_pnt = 0
    /\ c = <<>> \/ c[1].is_load => s.len = 0
    /\ c # <<>> => l.len <= c[1].len /\ s.len <= c[1].len

InStep(c, x, y, bt, l, s) ==
    Channels(c, x, y) /\ AtHead(c, l, s) /\ bt = [ar |-> l.len, aw |-> s.len]

LEMMA BurstLen == \A b \in Bursts : b.len \in Nat /\ 0 <= b.len
<1> SUFFICES ASSUME NEW b \in Bursts PROVE b.len \in Nat /\ 0 <= b.len
  OBVIOUS
<1>1. b.len \in 0..(MaxBeats - 1)
  BY DEF Bursts
<1> QED BY <1>1, AxiAssumption

LEMMA ChannelsTail ==
    ASSUME NEW c \in Seq(Bursts), c # <<>>, NEW x, NEW y, Channels(c, x, y)
    PROVE  /\ OneWay(c)
           /\ c[1].is_load => x = c /\ y = <<>> /\ Channels(Tail(c), Tail(c), y)
           /\ ~c[1].is_load => y = c /\ x = <<>> /\ Channels(Tail(c), x, Tail(c))
           /\ Tail(c) \in Seq(Bursts) /\ (Tail(c) # <<>> => Tail(c)[1] \in Bursts)
<1>1. PICK d : /\ d = Tail(c) /\ d \in Seq(Bursts) /\ Len(c) = Len(d) + 1 /\ Len(d) \in Nat
               /\ \A k \in 1..Len(d) : d[k] = c[k + 1]
  <2>1. /\ Len(c) \in Nat \ {0} /\ Tail(c) \in Seq(Bursts) /\ Len(Tail(c)) = Len(c) - 1
        /\ \A k \in 1..Len(Tail(c)) : Tail(c)[k] = c[k + 1]
    BY TailFacts
  <2>2. Len(Tail(c)) \in Nat /\ Len(c) = Len(Tail(c)) + 1
    BY <2>1
  <2> QED BY <2>1, <2>2
<1>2. ASSUME NEW k \in 1..Len(d) PROVE k + 1 \in 1..Len(c) /\ d[k] = c[k + 1]
  BY <1>1
<1>3. 1 \in 1..Len(c)
  BY <1>1
<1>4. d # <<>> => d[1] \in Bursts
  BY <1>1, TailFacts
<1>5. CASE x = c /\ y = <<>> /\ \A k \in 1..Len(c) : c[k].is_load
  <2>1. \A k \in 1..Len(d) : d[k].is_load
    BY <1>2, <1>5
  <2>2. c[1].is_load
    BY <1>3, <1>5
  <2> QED BY <1>1, <1>4, <1>5, <2>1, <2>2 DEF Channels, OneWay
<1>6. CASE y = c /\ x = <<>> /\ \A k \in 1..Len(c) : ~c[k].is_load
  <2>1. \A k \in 1..Len(d) : ~d[k].is_load
    BY <1>2, <1>6
  <2>2. ~c[1].is_load
    BY <1>3, <1>6
  <2> QED BY <1>1, <1>4, <1>6, <2>1, <2>2 DEF Channels, OneWay
<1> QED BY <1>5, <1>6 DEF Channels

\* A beat is read on both sides.
LEMMA ReadInStep ==
    ASSUME NEW c \in Seq(Bursts), c # <<>>, c[1].is_load, NEW x, NEW y, NEW bt,
           NEW l, NEW s, InStep(c, x, y, bt, l, s), NEW u, NEW popped, NEW taken,
           popped => taken /\ l.len = c[1].len /\ u.len = 0 /\ u.r_pnt = 0,
           ~popped => /\ u.len <= c[1].len
                      /\ \/ ~taken /\ u.len = l.len
                         \/ taken /\ l.len # c[1].len /\ u.len = l.len + 1,
           NEW d, d = IF popped THEN Tail(c) ELSE c,
           NEW x2, x2 = IF taken /\ bt.ar = Head(x).len THEN Tail(x) ELSE x,
           NEW bt2, bt2 = IF ~taken THEN bt
                          ELSE [bt EXCEPT !.ar = IF @ = Head(x).len THEN 0 ELSE @ + 1]
    PROVE  InStep(d, x2, y, bt2, u, s)
<1>1. Channels(c, x, y) /\ AtHead(c, l, s) /\ bt = [ar |-> l.len, aw |-> s.len]
  BY DEF InStep
<1>2. /\ x = c /\ y = <<>> /\ Channels(Tail(c), Tail(c), y)
      /\ Tail(c) # <<>> => Tail(c)[1] \in Bursts
  BY <1>1, ChannelsTail
<1>3. Head(x) = c[1] /\ bt.ar = l.len /\ bt.aw = s.len /\ s.len = 0
  BY <1>1, <1>2, TailFacts DEF AtHead
<1>4. CASE popped
  <2>1. taken /\ l.len = c[1].len /\ u.len = 0 /\ u.r_pnt = 0 /\ d = Tail(c)
    BY <1>4
  <2>2. x2 = Tail(c)
    BY <1>2, <1>3, <2>1
  <2>3. bt2 = [ar |-> u.len, aw |-> s.len]
    <3>1. bt2 = [bt EXCEPT !.ar = IF bt.ar = Head(x).len THEN 0 ELSE bt.ar + 1]
      BY <1>1, <2>1
    <3>2. bt2 = [bt EXCEPT !.ar = 0]
      BY <1>3, <2>1, <3>1
    <3> QED BY <1>1, <2>1, <3>2
  <2>4. AtHead(d, u, s)
    <3>2. Tail(c) # <<>> => 0 <= Tail(c)[1].len
      BY <1>2, BurstLen
    <3> QED BY <1>3, <2>1, <3>2 DEF AtHead
  <2> QED BY <1>2, <2>1, <2>2, <2>3, <2>4 DEF InStep
<1>5. CASE ~popped
  <2>1. d = c /\ u.len <= c[1].len
    BY <1>5
  <2>2. AtHead(d, u, s)
    BY <1>1, <1>3, <2>1 DEF AtHead
  <2>3. CASE ~taken /\ u.len = l.len
    <3>1. x2 = c /\ bt2 = [ar |-> u.len, aw |-> s.len]
      BY <1>1, <1>2, <2>3
    <3> QED BY <1>1, <1>2, <2>1, <2>2, <3>1 DEF InStep
  <2>4. CASE taken /\ l.len # c[1].len /\ u.len = l.len + 1
    <3>1. x2 = c
      BY <1>2, <1>3, <2>4
    <3>2. bt2 = [ar |-> u.len, aw |-> s.len]
      <4>1. bt2 = [bt EXCEPT !.ar = IF bt.ar = Head(x).len THEN 0 ELSE bt.ar + 1]
        BY <1>1, <2>4
      <4>2. bt2 = [bt EXCEPT !.ar = l.len + 1]
        BY <1>3, <2>4, <4>1
      <4> QED BY <1>1, <2>4, <4>2
    <3> QED BY <1>1, <1>2, <2>1, <2>2, <3>1, <3>2 DEF InStep
  <2> QED BY <1>5, <2>3, <2>4
<1> QED BY <1>4, <1>5

\* A beat is sent and taken.
BeatTaken(c, y, bt, s, f, popped, d, y2, bt2) ==
    /\ c \in Seq(Bursts) /\ c # <<>> /\ ~c[1].is_load
    /\ popped => s.len = c[1].len /\ f.len = 0
    /\ ~popped => s.len # c[1].len /\ f.len = s.len + 1 /\ f.len <= c[1].len
    /\ d = IF popped THEN Tail(c) ELSE c
    /\ y2 = IF bt.aw = Head(y).len THEN Tail(y) ELSE y
    /\ bt2 = [bt EXCEPT !.aw = IF bt.aw = Head(y).len THEN 0 ELSE bt.aw + 1]

LEMMA WriteInStep ==
    ASSUME NEW c, NEW x, NEW y, NEW bt, NEW l, NEW s, InStep(c, x, y, bt, l, s),
           NEW f, NEW popped, NEW d, NEW y2, NEW bt2,
           BeatTaken(c, y, bt, s, f, popped, d, y2, bt2)
    PROVE  InStep(d, x, y2, bt2, l, f)
<1>01. /\ c \in Seq(Bursts) /\ c # <<>> /\ ~c[1].is_load
       /\ popped => s.len = c[1].len /\ f.len = 0
       /\ ~popped => s.len # c[1].len /\ f.len = s.len + 1 /\ f.len <= c[1].len
  BY DEF BeatTaken
<1>02. /\ d = IF popped THEN Tail(c) ELSE c
       /\ y2 = IF bt.aw = Head(y).len THEN Tail(y) ELSE y
       /\ bt2 = [bt EXCEPT !.aw = IF bt.aw = Head(y).len THEN 0 ELSE bt.aw + 1]
  BY DEF BeatTaken
<1>1. Channels(c, x, y) /\ AtHead(c, l, s) /\ bt = [ar |-> l.len, aw |-> s.len]
  BY DEF InStep
<1>2. /\ y = c /\ x = <<>> /\ Channels(Tail(c), x, Tail(c))
      /\ Tail(c) # <<>> => Tail(c)[1] \in Bursts
  BY <1>01, <1>1, ChannelsTail
<1>3. Head(y) = c[1] /\ bt.ar = l.len /\ bt.aw = s.len /\ l.len = 0 /\ l.r_pnt = 0
  BY <1>01, <1>1, <1>2, TailFacts DEF AtHead
<1>4. CASE popped
  <2>1. s.len = c[1].len /\ f.len = 0 /\ d = Tail(c)
    BY <1>01, <1>02, <1>4
  <2>2. y2 = Tail(c)
    BY <1>02, <1>2, <1>3, <2>1
  <2>3. bt2 = [ar |-> l.len, aw |-> f.len]
    <3>1. bt2 = [bt EXCEPT !.aw = 0]
      BY <1>02, <1>3, <2>1
    <3> QED BY <1>1, <2>1, <3>1
  <2>4. AtHead(d, l, f)
    <3>2. Tail(c) # <<>> => 0 <= Tail(c)[1].len
      BY <1>2, BurstLen
    <3> QED BY <1>01, <1>3, <2>1, <3>2 DEF AtHead
  <2> QED BY <1>2, <2>1, <2>2, <2>3, <2>4 DEF InStep
<1>5. CASE ~popped
  <2>1. d = c /\ s.len # c[1].len /\ f.len = s.len + 1 /\ f.len <= c[1].len
    BY <1>01, <1>02, <1>5
  <2>2. AtHead(d, l, f)
    BY <1>01, <1>1, <1>3, <2>1 DEF AtHead
  <2>3. y2 = c
    BY <1>02, <1>2, <1>3, <2>1
  <2>4. bt2 = [ar |-> l.len, aw |-> f.len]
    <3>1. bt2 = [bt EXCEPT !.aw = s.len + 1]
      BY <1>02, <1>3, <2>1
    <3> QED BY <1>1, <2>1, <3>1
  <2> QED BY <1>1, <1>2, <2>1, <2>2, <2>3, <2>4 DEF InStep
<1> QED BY <1>4, <1>5

\* What stays in place while results, answers and instructions go by.
SameCounts(w, u) == /\ w.issue_cnt = u.issue_cnt /\ w.issue_bytes = u.issue_bytes
                    /\ w.vrf_pnt = u.vrf_pnt

LEMMA TailPlace ==
    ASSUME NEW u, UnitTyped(u), NEW w, UnitTyped(w), SameCounts(w, u),
           w.vinsn = u.vinsn \/ (u.vinsn # <<>> /\ w.vinsn = Tail(u.vinsn))
    PROVE  SamePlace(w, u)
<1>1. PICK v, c, l : /\ c \in Nat /\ l \in Nat /\ v = u.vinsn /\ c = u.issue_cnt /\ l = Len(v)
                     /\ v \in Seq(AllInsns)
  BY DEF UnitTyped
<1>2. w.issue_cnt = c /\ c \in 0..Len(w.vinsn)
  BY <1>1 DEF SameCounts, UnitTyped
<1>3. CASE w.vinsn = u.vinsn
  BY <1>1, <1>2, <1>3 DEF SamePlace, SameCounts, Pend
<1>4. CASE u.vinsn # <<>> /\ w.vinsn = Tail(u.vinsn)
  <2>1. PICK t : /\ t = w.vinsn /\ Len(t) = l - 1 /\ l # 0
                 /\ \A k \in 1..(l - 1) : t[k] = v[k + 1]
    <3>1. /\ Len(v) \in Nat \ {0} /\ Len(Tail(v)) = Len(v) - 1
          /\ \A k \in 1..Len(Tail(v)) : Tail(v)[k] = v[k + 1]
      BY <1>1, <1>4, TailFacts
    <3>2. w.vinsn = Tail(v)
      BY <1>1, <1>4
    <3> QED BY <1>1, <3>1, <3>2
  <2>2. c <= l - 1
    BY <1>1, <1>2, <2>1
  <2>3. ASSUME NEW k \in 1..c PROVE t[(l - 1) - c + k] = v[l - c + k]
    <3>1. (l - 1) - c + k \in 1..(l - 1) /\ ((l - 1) - c + k) + 1 = l - c + k
      <4>1. k \in Nat /\ 1 <= k /\ k <= c /\ c \in Nat /\ l \in Nat /\ c <= l - 1
        BY <1>1, <2>2
      <4> QED BY <4>1
    <3> QED BY <2>1, <3>1
  <2>4. Pend(w) = [k \in 1..c |-> t[(l - 1) - c + k]]
    BY <1>2, <2>1 DEF Pend
  <2>5. Pend(u) = [k \in 1..c |-> v[l - c + k]]
    BY <1>1 DEF Pend
  <2> QED BY <2>3, <2>4, <2>5 DEF SamePlace, SameCounts
<1> QED BY <1>3, <1>4

LEMMA PlaceKept ==
    ASSUME NEW u, LoadKept(u)
    PROVE  /\ \A q, granted, final : SameCounts(WriteResult(u, q, granted, final), u)
           /\ \A q : SameCounts(CommitWord(u, q), u) /\ SameCounts(CommitLoad(u, q), u)
<1>1. DOMAIN u = LoadFields
  BY DEF LoadKept, LoadTyped
<1>2. ASSUME NEW q, NEW granted, NEW final
      PROVE  SameCounts(WriteResult(u, q, granted, final), u)
  BY <1>1 DEF WriteResult, SameCounts, LoadFields
<1>3. ASSUME NEW q PROVE SameCounts(CommitWord(u, q), u)
  BY <1>1 DEF CommitWord, SameCounts, LoadFields
<1>4. ASSUME NEW q PROVE SameCounts(CommitLoad(u, q), u)
  BY <1>1 DEF CommitLoad, SameCounts, LoadFields
<1> QED BY <1>2, <1>3, <1>4

LEMMA AnswerPlace ==
    ASSUME NEW u, StoreOK(u)
    PROVE  SameCounts(CommitStore(u), u) /\ CommitStore(u).len = u.len
<1>1. DOMAIN u = StoreFields
  BY DEF StoreOK, StoreTyped
<1> QED BY <1>1 DEF CommitStore, SameCounts, StoreFields

LEMMA AllSized ==
    ASSUME Programmed, NEW n \in Nat, n <= Len(prog)
    PROVE  Sized(prog, n)
<1>1. prog \in Programs /\ Len(prog) \in Nat
  BY ProgramsAssumption DEF Programmed
<1>2. ASSUME NEW m \in 1..n PROVE VectorBytes(prog[m]) \in Nat \ {0}
  <2>1. m \in 1..Len(prog)
    BY <1>1
  <2> QED BY <1>1, <2>1, ProgramInsn
<1> QED BY <1>2 DEF Sized

\* A cycle of the load unit, before it accepts an instruction.
LEMMA LoadTurn ==
    ASSUME Programmed, Commands, UInv, InStep(cmd, ar, aw, beat, ld, st),
           NEW R, NEW B, Ledger(prog, cmd, ld, st, R, B, issued),
           NEW new, LoadCycle(new)
    PROVE  \E unit :
              /\ LoadOK(unit)
              /\ ld' = IF new = {} THEN unit ELSE AcceptLoad(unit, CHOOSE i \in new : TRUE)
              /\ InStep(cmd', ar', aw, beat', unit, st)
              /\ Ledger(prog, cmd', unit, st, R, B, issued)
<1>1. PICK r_valid \in {FALSE} \cup {Reads}, mask_valid \in {FALSE} \cup {masks # <<>>},
           writes \in SUBSET {l \in Lanes : slot[l] # None} :
          \E r \in {Read(r_valid, mask_valid)}, granted \in {Granted(writes)} :
          \E word \in {CommitWord(WriteResult(r.unit, ld, granted, final_gnt), ld)} :
              LoadStep(new, r, granted, writes, word)
  BY DEF LoadCycle
<1>2. PICK r \in {Read(r_valid, mask_valid)}, granted \in {Granted(writes)} :
          \E word \in {CommitWord(WriteResult(r.unit, ld, granted, final_gnt), ld)} :
              LoadStep(new, r, granted, writes, word)
  BY <1>1
<1>3. PICK word \in {CommitWord(WriteResult(r.unit, ld, granted, final_gnt), ld)} :
          LoadStep(new, r, granted, writes, word)
  BY <1>2
<1>4. PICK w : w = WriteResult(r.unit, ld, granted, final_gnt)
  OBVIOUS
<1>5. word = CommitWord(w, ld)
  BY <1>4
<1>6. PICK unit : unit = CommitLoad(word, ld)
  OBVIOUS
<1>60. LoadOK(ld) /\ LoadInBeat /\ LoadKept(ld) /\ UnitTyped(ld) /\ UnitTyped(st)
  BY DEF UInv, LoadOK, LoadKept, LoadTyped, StoreOK, StoreTyped
<1>7. /\ LoadKept(r.unit) /\ r.unit.vinsn = ld.vinsn
      /\ r.unit.commit_bytes = ld.commit_bytes
      /\ Len(r.unit.result_queue) >= Len(ld.result_queue)
  <2>1. r = Read(r_valid, mask_valid)
    OBVIOUS
  <2> QED BY <1>60, <2>1, LoadReads
<1>8. /\ LoadKept(w) /\ w.vinsn = ld.vinsn /\ w.commit_bytes = ld.commit_bytes
      /\ w.len = r.unit.len /\ w.r_pnt = r.unit.r_pnt
      /\ Len(w.result_queue) >= Len(ld.result_queue)
  BY <1>4, <1>7, WriteKeeps
<1>9. ld.result_queue # <<>> => w.commit_bytes # 0 /\ Len(w.result_queue) >= 1
  <2>1. Len(w.result_queue) \in Nat /\ Len(ld.result_queue) \in Nat
    BY <1>8, <1>60 DEF LoadKept, LoadTyped
  <2> QED BY <1>8, <1>60, <2>1, Waits
<1>10. /\ LoadKept(word) /\ word.vinsn = ld.vinsn /\ word.len = r.unit.len
       /\ word.r_pnt = r.unit.r_pnt
       /\ ld.commit_bytes = 0 => word.commit_bytes = 0
  BY <1>5, <1>8, <1>9, CommitKeeps
<1>11. word.vinsn = <<>> => word.commit_bytes = 0
  BY <1>10, <1>60 DEF LoadOK
<1>12. /\ LoadOK(unit) /\ unit.len = r.unit.len /\ unit.r_pnt = r.unit.r_pnt
       /\ unit.vinsn = ld.vinsn \/ (ld.vinsn # <<>> /\ unit.vinsn = Tail(ld.vinsn))
  BY <1>6, <1>10, <1>11, DoneKeeps
<1>13. SamePlace(unit, r.unit)
  <2>1. SameCounts(w, r.unit) /\ SameCounts(word, w) /\ SameCounts(unit, word)
    BY <1>4, <1>5, <1>6, <1>7, <1>8, <1>10, PlaceKept
  <2>2. SameCounts(unit, r.unit)
    BY <2>1 DEF SameCounts
  <2>3. UnitTyped(unit) /\ UnitTyped(r.unit)
    BY <1>7, <1>12 DEF LoadOK, LoadKept, LoadTyped
  <2> QED BY <1>7, <1>12, <2>2, <2>3, TailPlace
<1>14. /\ ld' = IF new = {} THEN unit ELSE AcceptLoad(unit, CHOOSE i \in new : TRUE)
       /\ cmd' = IF r.popped THEN Tail(cmd) ELSE cmd
       /\ ar' = IF r.taken /\ beat.ar = Head(ar).len THEN Tail(ar) ELSE ar
       /\ beat' = IF ~r.taken THEN beat
                  ELSE [beat EXCEPT !.ar = IF @ = Head(ar).len THEN 0 ELSE @ + 1]
  BY <1>3, <1>6 DEF LoadStep
<1>15. cmd \in Seq(Bursts)
  BY DEF Commands
<1>16. InStep(cmd', ar', aw, beat', r.unit, st) /\ Ledger(prog, cmd', r.unit, st, R, B, issued)
  <2>1. CASE ~r_valid
    <3>1. r.unit = ld /\ ~r.popped /\ ~r.taken
      BY <2>1 DEF Read
    <3> QED BY <1>14, <3>1
  <2>2. CASE r_valid
    <3>1. cmd # <<>> /\ Head(cmd).is_load /\ ld.issue_cnt # 0
      BY <2>2 DEF Reads
    <3>2. Head(cmd) = cmd[1] /\ cmd[1].is_load
      BY <1>15, <3>1, TailFacts
    <3>3. OneWay(cmd) /\ ld.len <= cmd[1].len
      BY <1>15, <3>1, ChannelsTail DEF InStep, AtHead
    <3>4. InBeat(ld, cmd[1])
      BY <1>60, <3>2 DEF LoadInBeat, InBeat
    <3>5. PICK unmasked \in BOOLEAN, mask \in {Mask(ld, mask_valid)} :
              /\ unmasked = Unmasked(ld, mask_valid)
              /\ r = ReadBeat(ld, cmd[1], RData, unmasked, mask)
      <4>1. r = ReadBeat(ld, Head(cmd), RData, Unmasked(ld, mask_valid), Mask(ld, mask_valid))
        BY <2>2 DEF Read
      <4>2. Unmasked(ld, mask_valid) \in BOOLEAN
        BY DEF Unmasked
      <4> QED BY <3>2, <4>1, <4>2
    <3>6. ~Issued(ld).masked => unmasked
      BY <3>5 DEF Unmasked
    <3>7. issued \in Nat /\ Sized(prog, issued)
      <4>1. issued \in Nat /\ issued <= Len(prog)
        BY ProgramsAssumption DEF Programmed
      <4> QED BY <4>1, AllSized
    <3>8. PICK u, data, b : u = r.unit /\ data = RData /\ b = cmd[1]
      OBVIOUS
    <3>81. ToRead(prog, cmd, ld, st, R, B, issued)
      BY <1>15, <1>60, <3>1, <3>2, <3>3, <3>4, <3>7 DEF ToRead
    <3>82. BeatRead(cmd, ld, b, unmasked, data, mask, r, u, cmd')
      BY <1>14, <3>5, <3>6, <3>8 DEF BeatRead
    <3>83. /\ Ledger(prog, cmd', u, st, R, B, issued)
           /\ r.popped => r.taken /\ ld.len = b.len /\ u.len = 0 /\ u.r_pnt = 0
           /\ ~r.popped => /\ u.len <= b.len
                           /\ \/ ~r.taken /\ u.len = ld.len
                              \/ r.taken /\ ld.len # b.len /\ u.len = ld.len + 1
      BY <3>81, <3>82, LedgerRead
    <3>9. /\ r.popped => r.taken /\ ld.len = cmd[1].len /\ u.len = 0 /\ u.r_pnt = 0
          /\ ~r.popped => /\ u.len <= cmd[1].len
                          /\ \/ ~r.taken /\ u.len = ld.len
                             \/ r.taken /\ ld.len # cmd[1].len /\ u.len = ld.len + 1
      BY <3>8, <3>83
    <3>10. InStep(cmd', ar', aw, beat', u, st)
      <4>1. InStep(cmd, ar, aw, beat, ld, st)
        OBVIOUS
      <4>2. cmd' = IF r.popped THEN Tail(cmd) ELSE cmd
        BY <1>14
      <4>3. ar' = IF r.taken /\ beat.ar = Head(ar).len THEN Tail(ar) ELSE ar
        BY <1>14
      <4>4. beat' = IF ~r.taken THEN beat
                    ELSE [beat EXCEPT !.ar = IF @ = Head(ar).len THEN 0 ELSE @ + 1]
        BY <1>14
      <4>5. cmd # <<>> /\ cmd[1].is_load
        BY <3>1, <3>2
      <4> QED BY <1>15, <3>9, <4>1, <4>2, <4>3, <4>4, <4>5, ReadInStep
    <3> QED BY <3>8, <3>83, <3>10
  <2> QED BY <2>1, <2>2
<1>17. InStep(cmd', ar', aw, beat', unit, st)
  BY <1>12, <1>16 DEF InStep, AtHead
<1>18. Ledger(prog, cmd', unit, st, R, B, issued)
  <2>1. SamePlace(st, st)
    BY DEF SamePlace
  <2> QED BY <1>12, <1>13, <1>16, <2>1, LedgerSame
<1> QED BY <1>12, <1>14, <1>17, <1>18

\* A cycle of the store unit, before it accepts an instruction.
LEMMA StoreTurn ==
    ASSUME Programmed, Commands, UInv, InStep(cmd, ar, aw, beat, ld, st),
           NEW R, NEW B, Ledger(prog, cmd, ld, st, R, B, issued),
           NEW new, StoreCycle(new)
    PROVE  \E unit :
              /\ StoreOK(unit)
              /\ st' = IF new = {} THEN unit ELSE AcceptStore(unit, CHOOSE i \in new : TRUE)
              /\ InStep(cmd', ar, aw', beat', ld, unit)
              /\ Ledger(prog, cmd', ld, unit, R, B, issued)
<1>1. PICK mask_valid \in {FALSE} \cup {masks # <<>>}, w_ready \in BOOLEAN,
           b_valid \in {FALSE} \cup {owed # <<>>} :
          \E sends \in {w_ready /\ Sends(mask_valid)} :
          \E w \in {IF sends THEN WriteBeat(st, Head(cmd))
                    ELSE [unit |-> st, popped |-> FALSE, word |-> FALSE]} :
              StoreStep(new, mask_valid, b_valid, sends, w)
  BY DEF StoreCycle
<1>2. PICK sends \in {w_ready /\ Sends(mask_valid)} :
          \E w \in {IF sends THEN WriteBeat(st, Head(cmd))
                    ELSE [unit |-> st, popped |-> FALSE, word |-> FALSE]} :
              StoreStep(new, mask_valid, b_valid, sends, w)
  BY <1>1
<1>3. PICK w : /\ w = IF sends THEN WriteBeat(st, Head(cmd))
                      ELSE [unit |-> st, popped |-> FALSE, word |-> FALSE]
               /\ StoreStep(new, mask_valid, b_valid, sends, w)
  BY <1>2
<1>4. PICK ends : ends = FinishStore(w.unit, st)
  OBVIOUS
<1>5. PICK unit : unit = IF b_valid THEN CommitStore(ends) ELSE ends
  OBVIOUS
<1>6. /\ st' = IF new = {} THEN unit ELSE AcceptStore(unit, CHOOSE i \in new : TRUE)
      /\ cmd' = IF w.popped THEN Tail(cmd) ELSE cmd
      /\ aw' = IF sends /\ beat.aw = Head(aw).len THEN Tail(aw) ELSE aw
      /\ beat' = IF ~sends THEN beat
                 ELSE [beat EXCEPT !.aw = IF sends /\ beat.aw = Head(aw).len THEN 0 ELSE @ + 1]
  <2>1. StoreStep(new, mask_valid, b_valid, sends, w)
    BY <1>3
  <2>2. st' = IF new = {} THEN unit ELSE AcceptStore(unit, CHOOSE i \in new : TRUE)
    <3> DEFINE e == FinishStore(w.unit, st)
               u == IF b_valid THEN CommitStore(e) ELSE e
    <3>1. st' = IF new = {} THEN u ELSE AcceptStore(u, CHOOSE i \in new : TRUE)
      BY ONLY <2>1 DEF StoreStep
    <3>2. u = unit
      BY <1>4, <1>5
    <3> HIDE DEF u
    <3> QED BY <3>1, <3>2
  <2>3. cmd' = IF w.popped THEN Tail(cmd) ELSE cmd
    BY <2>1, Zenon DEF StoreStep
  <2>4. aw' = IF sends /\ beat.aw = Head(aw).len THEN Tail(aw) ELSE aw
    BY <2>1, Zenon DEF StoreStep
  <2>5. beat' = IF ~sends THEN beat
                ELSE [beat EXCEPT !.aw = IF sends /\ beat.aw = Head(aw).len THEN 0 ELSE @ + 1]
    BY <2>1, Zenon DEF StoreStep
  <2> QED BY <2>2, <2>3, <2>4, <2>5
<1>7. /\ StoreOK(st) /\ StoreTyped(st) /\ InWord(st) /\ UnitTyped(st) /\ UnitTyped(ld)
      /\ cmd \in Seq(Bursts)
  BY DEF UInv, StoreOK, StoreTyped, LoadOK, LoadKept, LoadTyped, Commands
<1>8. /\ StoreOK(ends) /\ ends.vinsn = st.vinsn
      /\ InStep(cmd', ar, aw', beat', ld, ends)
      /\ Ledger(prog, cmd', ld, ends, R, B, issued)
  <2>1. CASE ~sends
    <3>1. w.unit = st /\ ~w.popped
      BY <1>3, <2>1
    <3>2. st.issue_cnt # 0 => st.issue_bytes # 0
      BY <1>7 DEF InWord, UnitTyped
    <3>3. ends = st
      BY <1>4, <3>1, <3>2 DEF FinishStore
    <3>4. cmd' = cmd /\ aw' = aw /\ beat' = beat
      BY <1>6, <2>1, <3>1
    <3> QED BY <1>7, <3>3, <3>4
  <2>2. CASE sends
    <3>1. st.issue_cnt # 0 /\ cmd # <<>> /\ ~Head(cmd).is_load
      <4>1. Sends(mask_valid)
        BY <1>2, <2>2
      <4> QED BY <4>1 DEF Sends
    <3>2. PICK b : b = cmd[1] /\ b = Head(cmd) /\ b \in Bursts /\ ~cmd[1].is_load
      BY <1>7, <3>1, TailFacts
    <3>3. PICK u : u = w.unit /\ w = WriteBeat(st, b)
      BY <1>3, <2>2, <3>2
    <3>4. /\ DOMAIN u = StoreFields /\ u.vinsn = st.vinsn /\ u.issue_cnt = st.issue_cnt
          /\ u.issue_pnt = st.issue_pnt /\ u.commit_pnt = st.commit_pnt
          /\ u.len \in 0..(MaxBeats - 1) /\ u.vrf_pnt \in Nat /\ u.issue_bytes \in Nat
          /\ u.vrf_pnt < VrfBytes
          /\ u.issue_bytes # 0 => u.vrf_pnt < u.issue_bytes
          /\ u.issue_bytes = 0 => u.vrf_pnt = 0
      BY <1>7, <3>1, <3>2, <3>3, Sent
    <3>5. ends = FinishStore(u, st)
      BY <1>4, <3>3
    <3>6. StoreOK(ends) /\ ends.vinsn = st.vinsn
      BY <1>7, <3>1, <3>4, <3>5, FinishKeeps
    <3>7. /\ OneWay(cmd) /\ st.len <= cmd[1].len /\ ld.len = 0 /\ ld.r_pnt = 0
      BY <1>7, <3>1, <3>2, ChannelsTail DEF InStep, AtHead
    <3>8. issued \in Nat /\ Sized(prog, issued)
      <4>1. issued \in Nat /\ issued <= Len(prog)
        BY ProgramsAssumption DEF Programmed
      <4> QED BY <4>1, AllSized
    <3>9. ToWrite(prog, cmd, ld, st, R, B, issued)
      BY <1>7, <3>1, <3>2, <3>7, <3>8 DEF ToWrite
    <3>10. BeatSent(cmd, st, b, w, ends, cmd')
      BY <1>6, <3>2, <3>3, <3>5 DEF BeatSent
    <3>11. /\ Ledger(prog, cmd', ld, ends, R, B, issued)
           /\ w.popped => st.len = b.len /\ ends.len = 0
           /\ ~w.popped => st.len # b.len /\ ends.len = st.len + 1 /\ ends.len <= b.len
      BY <3>9, <3>10, LedgerWrite
    <3>12. /\ w.popped => st.len = cmd[1].len /\ ends.len = 0
           /\ ~w.popped => st.len # cmd[1].len /\ ends.len = st.len + 1 /\ ends.len <= cmd[1].len
      BY <3>2, <3>11
    <3>13. /\ aw' = IF beat.aw = Head(aw).len THEN Tail(aw) ELSE aw
           /\ beat' = [beat EXCEPT !.aw = IF beat.aw = Head(aw).len THEN 0 ELSE beat.aw + 1]
      BY <1>6, <2>2
    <3>14. BeatTaken(cmd, aw, beat, st, ends, w.popped, cmd', aw', beat')
      BY <1>6, <1>7, <3>1, <3>2, <3>12, <3>13 DEF BeatTaken
    <3>15. InStep(cmd', ar, aw', beat', ld, ends)
      BY <3>14, WriteInStep
    <3> QED BY <3>6, <3>11, <3>15
  <2> QED BY <2>1, <2>2
<1>9. /\ StoreOK(unit) /\ SamePlace(unit, ends) /\ unit.len = ends.len
  <2>1. UnitTyped(ends)
    BY <1>8 DEF StoreOK, StoreTyped
  <2>2. CASE b_valid
    <3>1. unit = CommitStore(ends)
      BY <1>5, <2>2
    <3>2. /\ StoreOK(unit)
          /\ unit.vinsn = ends.vinsn \/ (ends.vinsn # <<>> /\ unit.vinsn = Tail(ends.vinsn))
      BY <1>8, <3>1, AnswerKeeps
    <3>3. SameCounts(unit, ends) /\ unit.len = ends.len
      BY <1>8, <3>1, AnswerPlace
    <3>4. UnitTyped(unit)
      BY <3>2 DEF StoreOK, StoreTyped
    <3> QED BY <2>1, <3>2, <3>3, <3>4, TailPlace
  <2>3. CASE ~b_valid
    <3>1. unit = ends
      BY <1>5, <2>3
    <3> QED BY <1>8, <3>1 DEF SamePlace
  <2> QED BY <2>2, <2>3
<1>10. InStep(cmd', ar, aw', beat', ld, unit)
  BY <1>8, <1>9 DEF InStep, AtHead
<1>11. Ledger(prog, cmd', ld, unit, R, B, issued)
  <2>1. SamePlace(ld, ld)
    BY DEF SamePlace
  <2> QED BY <1>8, <1>9, <2>1, LedgerSame
<1> QED BY <1>6, <1>9, <1>10, <1>11

-----------------------------------------------------------------------------
(***************************************************************************)
(* The address generator: the instruction and the byte of the next burst.  *)
(***************************************************************************)
Busy == ag.state \in {"ADDRGEN", "ADDRGEN_IDX_OP"}
ReqInsn == IF Busy THEN issued ELSE issued + 1
ReqByte == IF ag.axi = "AXI_ADDRGEN_IDLE" THEN 0
           ELSE (ag.insn.vl - ag.len) * ag.insn.sew

CountInv ==
    /\ InStep(cmd, ar, aw, beat, ld, st)
    /\ Ledger(prog, cmd, ld, st, ReqInsn, ReqByte, issued)

LEMMA AcceptedLoad ==
    ASSUME NEW u, LoadOK(u), NEW i, NEW w, w = AcceptLoad(u, i)
    PROVE  Accepts(w, u, i) /\ w.len = u.len /\ w.r_pnt = u.r_pnt
<1>1. DOMAIN u = LoadFields
  BY DEF LoadOK, LoadKept, LoadTyped
<1> QED BY <1>1 DEF AcceptLoad, Accepts, LoadFields

LEMMA AcceptedStore ==
    ASSUME NEW u, StoreOK(u), NEW i, NEW w, w = AcceptStore(u, i)
    PROVE  Accepts(w, u, i) /\ w.len = u.len
<1>1. DOMAIN u = StoreFields
  BY DEF StoreOK, StoreTyped
<1> QED BY <1>1 DEF AcceptStore, Accepts, StoreFields

LEMMA CLoadUnit == AInv /\ Commands /\ UInv /\ CountInv /\ LoadUnit => CountInv'
<1> SUFFICES ASSUME AInv, Commands, UInv, CountInv, LoadUnit PROVE CountInv'
  OBVIOUS
<1>1. LoadCycle({}) /\ UNCHANGED <<prog, issued, ag, st, aw>>
  BY DEF LoadUnit
<1>2. PICK R, B : R = ReqInsn /\ B = ReqByte
  OBVIOUS
<1>3. PICK unit :
          /\ LoadOK(unit)
          /\ ld' = IF {} = {} THEN unit ELSE AcceptLoad(unit, CHOOSE i \in {} : TRUE)
          /\ InStep(cmd', ar', aw, beat', unit, st)
          /\ Ledger(prog, cmd', unit, st, R, B, issued)
  BY <1>1, <1>2, LoadTurn DEF CountInv, AInv
<1>4. ld' = unit
  BY <1>3
<1>5. ReqInsn' = R /\ ReqByte' = B
  BY <1>1, <1>2 DEF ReqInsn, ReqByte, Busy
<1> QED BY <1>1, <1>3, <1>4, <1>5 DEF CountInv

LEMMA CStoreUnit == AInv /\ Commands /\ UInv /\ CountInv /\ StoreUnit => CountInv'
<1> SUFFICES ASSUME AInv, Commands, UInv, CountInv, StoreUnit PROVE CountInv'
  OBVIOUS
<1>1. StoreCycle({}) /\ UNCHANGED <<prog, issued, ag, ld, ar>>
  BY DEF StoreUnit
<1>2. PICK R, B : R = ReqInsn /\ B = ReqByte
  OBVIOUS
<1>3. PICK unit :
          /\ StoreOK(unit)
          /\ st' = IF {} = {} THEN unit ELSE AcceptStore(unit, CHOOSE i \in {} : TRUE)
          /\ InStep(cmd', ar, aw', beat', ld, unit)
          /\ Ledger(prog, cmd', ld, unit, R, B, issued)
  BY <1>1, <1>2, StoreTurn DEF CountInv, AInv
<1>4. st' = unit
  BY <1>3
<1>5. ReqInsn' = R /\ ReqByte' = B
  BY <1>1, <1>2 DEF ReqInsn, ReqByte, Busy
<1> QED BY <1>1, <1>3, <1>4, <1>5 DEF CountInv

\* Broadcasting an instruction.
LEMMA CIssue == AInv /\ Commands /\ UInv /\ CountInv /\ Issue => CountInv'
<1> SUFFICES ASSUME AInv, Commands, UInv, CountInv, Issue PROVE CountInv'
  OBVIOUS
<1>1. PICK n, i : /\ n \in Nat /\ n = issued /\ i = prog[n + 1]
                  /\ issued' = n + 1 /\ prog' = prog
                  /\ i.id = n + 1 /\ VectorBytes(i) \in Nat
  <2>1. PICK m \in Nat, p \in Programs : m = issued /\ p = prog /\ m < Len(p)
    BY ProgramsAssumption DEF AInv, Programmed, Issue
  <2>2. m + 1 \in 1..Len(p)
    BY <2>1, ProgramsAssumption
  <2>3. p[m + 1].id = m + 1 /\ VectorBytes(p[m + 1]) \in Nat
    BY <2>2, ProgramInsn
  <2> QED BY <2>1, <2>3 DEF Issue
<1>2. ag.state = "IDLE" /\ ag.axi = "AXI_ADDRGEN_IDLE"
  BY DEF Issue, AInv, Accessing
<1>3. ag'.state \in {"ADDRGEN", "ADDRGEN_IDX_OP"} /\ ag'.axi = "AXI_ADDRGEN_IDLE"
  <2>1. ag' = [ag EXCEPT !.state = IF i.op \in Indexed THEN "ADDRGEN_IDX_OP" ELSE "ADDRGEN",
                         !.insn = i, !.cnt = IF i.op \in Indexed THEN i.vl ELSE @]
    BY <1>1 DEF Issue
  <2> QED BY <1>2, <2>1 DEF AInv, AGTyped
<1>4. PICK R : R = n + 1 /\ ReqInsn = R /\ ReqByte = 0 /\ ReqInsn' = R /\ ReqByte' = 0
  BY <1>1, <1>2, <1>3 DEF ReqInsn, ReqByte, Busy
<1>5. InStep(cmd, ar, aw, beat, ld, st) /\ Ledger(prog, cmd, ld, st, R, 0, n)
  BY <1>1, <1>4 DEF CountInv
<1>6. /\ UnitTyped(ld) /\ InWord(ld) /\ UnitTyped(st) /\ InWord(st) /\ cmd' \in Seq(Bursts)
  <2>1. Commands'
    BY CommandsNext DEF Next
  <2> QED BY <2>1 DEF UInv, LoadOK, LoadKept, LoadTyped, StoreOK, StoreTyped, Commands
<1>7. ASSUME NEW l, UnitTyped(l), InWord(l), NEW s, UnitTyped(s), InWord(s),
             InStep(cmd', ar', aw', beat', l, s), Ledger(prog, cmd', l, s, R, 0, n),
             Accepting(l, s, ld', st', i)
      PROVE  CountInv'
  <2>1. Ledger(prog, cmd', ld', st', R, 0, n + 1)
    BY <1>1, <1>4, <1>6, <1>7, LedgerAccept
  <2>2. InStep(cmd', ar', aw', beat', ld', st')
    BY <1>7 DEF InStep, AtHead, Accepting
  <2> QED BY <1>1, <1>4, <2>1, <2>2 DEF CountInv
<1>8. (CHOOSE j \in {i} : TRUE) = i /\ {i} # {}
  OBVIOUS
<1>9. CASE is_load(i.op) /\ LoadCycle({i}) /\ UNCHANGED <<st, aw>>
  <2>1. PICK unit :
            /\ LoadOK(unit)
            /\ ld' = IF {i} = {} THEN unit ELSE AcceptLoad(unit, CHOOSE j \in {i} : TRUE)
            /\ InStep(cmd', ar', aw, beat', unit, st)
            /\ Ledger(prog, cmd', unit, st, R, 0, issued)
    BY <1>1, <1>5, <1>9, LoadTurn DEF AInv
  <2>2. ld' = AcceptLoad(unit, i)
    BY <1>8, <2>1
  <2>3. Accepts(ld', unit, i) /\ ld'.len = unit.len /\ ld'.r_pnt = unit.r_pnt
    BY <2>1, <2>2, AcceptedLoad
  <2>4. Accepting(unit, st, ld', st', i)
    BY <1>9, <2>3 DEF Accepting
  <2>5. UnitTyped(unit) /\ InWord(unit)
    BY <2>1 DEF LoadOK, LoadKept, LoadTyped
  <2> QED BY <1>1, <1>6, <1>7, <1>9, <2>1, <2>4, <2>5
<1>10. CASE ~is_load(i.op) /\ StoreCycle({i}) /\ UNCHANGED <<ld, ar>>
  <2>1. PICK unit :
            /\ StoreOK(unit)
            /\ st' = IF {i} = {} THEN unit ELSE AcceptStore(unit, CHOOSE j \in {i} : TRUE)
            /\ InStep(cmd', ar, aw', beat', ld, unit)
            /\ Ledger(prog, cmd', ld, unit, R, 0, issued)
    BY <1>1, <1>5, <1>10, StoreTurn DEF AInv
  <2>2. st' = AcceptStore(unit, i)
    BY <1>8, <2>1
  <2>3. Accepts(st', unit, i) /\ st'.len = unit.len
    BY <2>1, <2>2, AcceptedStore
  <2>4. Accepting(ld, unit, ld', st', i)
    BY <1>10, <2>3 DEF Accepting
  <2>5. UnitTyped(unit) /\ InWord(unit)
    BY <2>1 DEF StoreOK, StoreTyped
  <2> QED BY <1>1, <1>6, <1>7, <1>10, <2>1, <2>4, <2>5
<1> QED BY <1>1, <1>9, <1>10 DEF Issue

-----------------------------------------------------------------------------
(***************************************************************************)
(* One burst of a unit-stride access, of which len elements are left: from *)
(* address a on, in beats of w bytes.                                      *)
(***************************************************************************)
Fits(a, len, vl, sew, w, load, masked) ==
    /\ w % sew = 0
    /\ load => /\ (a % w) + len * sew <= MaxBeats * w
               /\ len # vl \/ masked => (a % w) + len * sew <= (MaxBeats - 1) * w
    /\ ~load => a % w = 0 /\ ((vl - len) * sew) % w = 0

BurstDue(a, len, vl, sew, w, load, masked, s, left, p, b) ==
    /\ a \in Int /\ len \in Nat \ {0} /\ vl \in Nat /\ len <= vl
    /\ sew \in Nat \ {0} /\ w \in Sizes /\ load \in BOOLEAN
    /\ Fits(a, len, vl, sew, w, load, masked) /\ IsMultiple(a, sew)
    /\ s = Stretch(a, len * sew, w)
    /\ left = Floor0(len - (s.end - a + 1) \div sew)
    /\ p = (vl - len) * sew
    /\ b.addr = a /\ b.size = w /\ b.len = Beats(s, w) - 1

\* What it leaves over follows it, and is nothing if the burst ends the access.
BurstLeaves(a, len, vl, sew, w, load, masked, s, left, p, b) ==
    /\ left \in Nat /\ left <= vl
    /\ s.next \in Int /\ IsMultiple(s.next, sew)
    /\ left # 0 => Fits(s.next, left, vl, sew, w, load, masked)
    /\ p + Gap(b) >= vl * sew <=> left = 0
    /\ left # 0 => p + Gap(b) = (vl - left) * sew

BurstPlaced(a, len, vl, sew, w, load, masked, s, left, p, b) ==
    /\ p \in Nat /\ Off(b, p, b.len) < vl * sew
    /\ ~load => a % w = 0 /\ p % w = 0
    /\ load /\ b.len = MaxBeats - 1 => p = 0 /\ ~masked

LEMMA BurstStep ==
    ASSUME NEW a, NEW len, NEW vl, NEW sew, NEW w, NEW load, NEW masked, NEW s,
           NEW left, NEW p, NEW b,
           BurstDue(a, len, vl, sew, w, load, masked, s, left, p, b)
    PROVE  /\ BurstLeaves(a, len, vl, sew, w, load, masked, s, left, p, b)
           /\ BurstPlaced(a, len, vl, sew, w, load, masked, s, left, p, b)
<1>1. /\ a \in Int /\ len \in Nat \ {0} /\ vl \in Nat /\ len <= vl
      /\ sew \in Nat \ {0} /\ w \in Sizes /\ load \in BOOLEAN
      /\ Fits(a, len, vl, sew, w, load, masked) /\ IsMultiple(a, sew)
      /\ s = Stretch(a, len * sew, w)
      /\ left = Floor0(len - (s.end - a + 1) \div sew)
      /\ p = (vl - len) * sew
      /\ b.addr = a /\ b.size = w /\ b.len = Beats(s, w) - 1
  BY DEF BurstDue
<1>2. w \in Nat \ {0} /\ MaxBeats \in Nat \ {0}
  BY <1>1, SizeFacts, AxiAssumption
<1>3. PICK bytes \in Nat \ {0} : bytes = len * sew
  BY <1>1, Product
<1>4. PICK m \in 0..(w - 1) : m = a % w
  BY <1>1, <1>2, Divided
<1>5. PICK L \in Int, L1 \in Int : L = MaxBeats * w /\ L1 = (MaxBeats - 1) * w /\ L = L1 + w
  <2>1. MaxBeats * w \in Int /\ (MaxBeats - 1) * w = MaxBeats * w - w
    BY <1>2, Times1
  <2>2. PICK L \in Int : L = MaxBeats * w /\ (MaxBeats - 1) * w = L - w
    BY <2>1
  <2>3. L - w \in Int /\ L = (L - w) + w
    BY <1>2
  <2> QED BY <2>2, <2>3
<1>6. /\ w % sew = 0
      /\ load => m + bytes <= L /\ (len # vl \/ masked => m + bytes <= L1)
      /\ ~load => m = 0 /\ p % w = 0
  BY <1>1, <1>3, <1>4, <1>5 DEF Fits
<1>7. /\ s.next \in Int /\ s.end = s.next - 1 /\ s.start = aligned_addr(a, w)
      /\ IsMultiple(s.next, w)
      /\ a < s.next /\ s.next - w < a + bytes
      /\ Beats(s, w) \in 1..MaxBeats /\ Beats(s, w) * w = s.next - s.start
  <2>1. a % w = 0 \/ (a % w) + bytes <= MaxBeats * w
    BY <1>1, <1>4, <1>5, <1>6
  <2>2. s = Stretch(a, bytes, w)
    BY <1>1, <1>3
  <2> QED BY <1>1, <2>1, <2>2, StretchCounts
<1>8. PICK next \in Int, start \in Int, k \in 1..MaxBeats :
          /\ next = s.next /\ start = s.start /\ k = Beats(s, w)
          /\ s.end = next - 1 /\ start = a - m /\ a < next /\ next - w < a + bytes
          /\ k * w = next - start
  <2>1. a - m \in Int /\ aligned_addr(a, w) = a - m
    BY <1>1, <1>4 DEF aligned_addr
  <2> QED BY <1>7, <2>1
<1>9. start + w <= next
  <2>1. 1 * w <= k * w /\ k \in Int
    BY <1>2, <1>8, Times1
  <2>2. PICK x \in Int : x = k * w /\ w <= x /\ x = next - start
    BY <1>2, <1>8, <2>1
  <2> QED BY <1>2, <1>8, <2>2
<1>10. IsMultiple(next, w) /\ IsMultiple(next, sew) /\ IsMultiple(next - a, sew)
  <2>1. IsMultiple(next, w)
    BY <1>7, <1>8
  <2>2. IsMultiple(next, sew)
    BY <1>1, <1>2, <1>6, <2>1, MultipleOf
  <2> QED BY <1>1, <2>1, <2>2, MultipleSum
<1>11. PICK q \in Int, d \in Int : d = next - a /\ d = q * sew /\ 0 < d
  <2>1. PICK d \in Int : d = next - a /\ 0 < d
    BY <1>1, <1>8
  <2> QED BY <1>10, <2>1 DEF IsMultiple
<1>12. 1 <= q
  <2>1. q <= 0 => q * sew <= 0 * sew
    BY <1>1, Times1
  <2>2. 0 * sew = 0
    BY <1>1
  <2> QED BY <1>11, <2>1, <2>2
<1>13. left = Floor0(len - q)
  <2>1. s.end - a + 1 = d
    BY <1>1, <1>8, <1>11
  <2>2. (q * sew + 0) \div sew = q /\ 0 \in 0..(sew - 1)
    BY <1>1, OneQuotient
  <2>3. q * sew + 0 = d
    BY <1>11
  <2> QED BY <1>1, <2>1, <2>2, <2>3
<1>14. left \in Nat /\ left <= vl /\ left = IF len < q THEN 0 ELSE len - q
  <2>1. len - q \in Int /\ (len - q < 0 <=> len < q)
    BY <1>1
  <2>2. left = IF len < q THEN 0 ELSE len - q
    BY <1>13, <2>1 DEF Floor0
  <2> QED BY <1>1, <1>12, <2>2
<1>15. PICK T \in Int, p0 \in Nat : /\ T = vl * sew /\ p0 = p /\ T = p0 + bytes
                                    /\ (len = vl => p0 = 0)
  <2>1. vl - len \in Nat /\ vl = (vl - len) + len
    BY <1>1
  <2>2. (vl - len) * sew \in Nat
    BY <1>1, <2>1, Product
  <2>3. ((vl - len) + len) * sew = (vl - len) * sew + len * sew
    BY <1>1, <2>1, Times1
  <2>4. len = vl => (vl - len) * sew = 0 * sew /\ 0 * sew = 0
    BY <1>1
  <2>5. vl * sew = p + bytes /\ p \in Nat
    BY <1>1, <1>3, <2>1, <2>2, <2>3
  <2>6. PICK p0 \in Nat : p0 = p
    BY <2>5
  <2>7. p0 + bytes \in Int
    OBVIOUS
  <2> QED BY <1>1, <2>4, <2>5, <2>6, <2>7
<1>16. Gap(b) = d
  <2>1. (b.len + 1) * b.size = next - start
    <3>1. b.len + 1 = k
      BY <1>1, <1>8
    <3> QED BY <1>1, <1>8, <3>1
  <2>2. Gap(b) = start + (next - start) - a
    BY <1>1, <1>7, <1>8, <2>1 DEF Gap
  <2> QED BY <1>1, <1>8, <1>11, <2>2
<1>17. d >= bytes <=> len <= q
  <2>1. len <= q => len * sew <= q * sew
    BY <1>1, Times1
  <2>2. q < len => q * sew + sew <= len * sew
    BY <1>1, Times1
  <2> QED BY <1>1, <1>3, <1>11, <2>1, <2>2
<1>18. p + Gap(b) >= vl * sew <=> left = 0
  <2>1. p0 + d >= T <=> d >= bytes
    BY <1>15
  <2>2. len <= q <=> left = 0
    BY <1>1, <1>14
  <2> QED BY <1>15, <1>16, <1>17, <2>1, <2>2
<1>19. ASSUME left # 0
       PROVE  /\ left * sew = bytes - d /\ left < len
              /\ p + Gap(b) = (vl - left) * sew
  <2>1. left = len - q
    BY <1>14, <1>19
  <2>2. left * sew = bytes - d
    <3>1. (left + q) * sew = left * sew + q * sew /\ left * sew \in Int
      BY <1>1, <1>14, Times1
    <3>2. left + q = len
      BY <1>1, <2>1
    <3>3. bytes = left * sew + d
      BY <1>3, <1>11, <3>1, <3>2
    <3>4. PICK x \in Int : x = left * sew
      BY <3>1
    <3> QED BY <3>3, <3>4
  <2>3. (vl - left) * sew = T - (bytes - d)
    <3>1. ((vl - left) + left) * sew = (vl - left) * sew + left * sew /\ (vl - left) * sew \in Int
      BY <1>1, <1>14, Times1
    <3>2. (vl - left) + left = vl
      BY <1>1, <1>14
    <3>3. T = (vl - left) * sew + (bytes - d)
      BY <1>15, <2>2, <3>1, <3>2
    <3>4. PICK x \in Int : x = (vl - left) * sew
      BY <3>1
    <3> QED BY <3>3, <3>4
  <2>4. p + Gap(b) = p0 + d /\ T - (bytes - d) = p0 + d
    BY <1>15, <1>16
  <2>5. left < len
    <3>1. len \in Int
      BY <1>1
    <3> QED BY <1>12, <2>1, <3>1
  <2>6. p + Gap(b) = (vl - left) * sew
    BY <2>3, <2>4
  <2> QED BY <2>2, <2>5, <2>6
<1>20. ASSUME left # 0 PROVE Fits(next, left, vl, sew, w, load, masked)
  <2>1. next % w = 0
    BY <1>2, <1>10, MultipleFacts
  <2>2. PICK y \in Int : y = left * sew /\ y = bytes - d
    BY <1>19, <1>20
  <2>3. load => y <= L1 /\ y <= L
    <3>1. load => m + bytes <= L
      BY <1>6
    <3>2. y = bytes - (next - a) /\ a - m + w <= next
      BY <1>8, <1>9, <1>11, <2>2
    <3>3. a \in Int /\ m \in Int /\ w \in Int /\ 0 < w
      BY <1>1, <1>2
    <3>4. L = L1 + w
      BY <1>5
    <3>5. load => y <= L1
      BY <3>1, <3>2, <3>3, <3>4
    <3> QED BY <3>3, <3>4, <3>5
  <2>4. ~load => ((vl - left) * sew) % w = 0
    <3>1. SUFFICES ASSUME ~load PROVE ((vl - left) * sew) % w = 0
      OBVIOUS
    <3>2. IsMultiple(p0, w)
      BY <1>2, <1>6, <1>15, <3>1, MultipleFacts
    <3>3. IsMultiple(a, w)
      BY <1>1, <1>2, <1>4, <1>6, <3>1, MultipleFacts
    <3>4. IsMultiple(d, w)
      BY <1>1, <1>2, <1>10, <1>11, <3>3, MultipleSum
    <3>5. IsMultiple(p0 + d, w)
      BY <1>2, <3>2, <3>4, MultipleSum
    <3>6. (vl - left) * sew = p0 + d
      BY <1>15, <1>16, <1>19, <1>20
    <3>7. PICK x \in Int : x = p0 + d
      OBVIOUS
    <3> QED BY <1>2, <3>5, <3>6, <3>7, MultipleFacts
  <2>5. 0 + y = y
    OBVIOUS
  <2> QED BY <1>5, <1>6, <2>1, <2>2, <2>3, <2>4, <2>5 DEF Fits
<1>21. Off(b, p, b.len) < vl * sew
  <2>1. PICK x \in Int : x = beat_addr(b, b.len) /\ x < a + bytes
    <3>1. CASE k = 1
      <4>1. b.len = 0
        BY <1>1, <1>8, <3>1
      <4>2. beat_addr(b, 0) = b.addr
        BY DEF beat_addr
      <4>3. a \in Int /\ a < a + bytes
        BY <1>1
      <4> QED BY <1>1, <4>1, <4>2, <4>3
    <3>2. CASE k # 1
      <4>1. b.len # 0 /\ b.len = k - 1
        BY <1>1, <1>8, <3>2
      <4>2. beat_addr(b, b.len) = start + (k - 1) * w
        BY <1>1, <1>7, <1>8, <4>1 DEF beat_addr
      <4>3. (k - 1) * w = k * w - w
        BY <1>2, <1>8, Times1
      <4>4. start + (k - 1) * w = next - w
        <5>1. PICK x \in Int : x = (k - 1) * w /\ x = (next - start) - w
          BY <1>2, <1>8, <4>3
        <5> QED BY <1>2, <1>8, <5>1
      <4> QED BY <1>1, <1>2, <1>8, <4>2, <4>4
    <3> QED BY <3>1, <3>2
  <2>2. Off(b, p, b.len) = p0 + x - a
    BY <1>1, <1>15, <2>1 DEF Off
  <2> QED BY <1>1, <1>15, <2>1, <2>2
<1>22. load /\ b.len = MaxBeats - 1 => p = 0 /\ ~masked
  <2>1. SUFFICES ASSUME load, b.len = MaxBeats - 1 PROVE p = 0 /\ ~masked
    OBVIOUS
  <2>2. k = MaxBeats
    <3>1. k - 1 = MaxBeats - 1
      BY <1>1, <1>8, <2>1
    <3> QED BY <1>2, <3>1
  <2>3. L = next - start
    BY <1>5, <1>8, <2>2
  <2>4. L1 < m + bytes
    <3>1. L = L1 + w /\ start = a - m /\ next - w < a + bytes
      BY <1>5, <1>8
    <3>2. a \in Int /\ w \in Int
      BY <1>1, <1>2
    <3> QED BY <2>3, <3>1, <3>2
  <2>5. ~(m + bytes <= L1)
    BY <1>4, <1>5, <2>4
  <2> QED BY <1>1, <1>6, <1>15, <2>1, <2>5
<1>23. ~load => a % w = 0 /\ p % w = 0
  BY <1>4, <1>6
<1>24. BurstPlaced(a, len, vl, sew, w, load, masked, s, left, p, b)
  BY <1>15, <1>21, <1>22, <1>23 DEF BurstPlaced
<1>25. left # 0 => p + Gap(b) = (vl - left) * sew
  BY <1>19
<1>26. left # 0 => Fits(s.next, left, vl, sew, w, load, masked)
  BY <1>8, <1>20
<1>27. s.next \in Int /\ IsMultiple(s.next, sew)
  BY <1>8, <1>10
<1> QED BY <1>14, <1>18, <1>24, <1>25, <1>26, <1>27 DEF BurstLeaves

-----------------------------------------------------------------------------
(***************************************************************************)
(* The steps of the address generator.                                     *)
(***************************************************************************)

\* Programs whose accesses are counted alike on both sides: elements are aligned,
\* as the address generator asks for, and a unit-stride load is over within the
\* longest burst, one beat less if it is masked.
Countable(p) ==
    \A n \in 1..Len(p) :
        /\ p[n].op \notin Indexed => p[n].addr % p[n].sew = 0
        /\ p[n].op \in {"VLSE", "VSSE"} => p[n].stride % p[n].sew = 0
        /\ p[n].op = "VLE" =>
              /\ (p[n].addr % AxiBytes) + VectorBytes(p[n]) <= MaxBeats * AxiBytes
              /\ p[n].masked =>
                    (p[n].addr % AxiBytes) + VectorBytes(p[n]) <= (MaxBeats - 1) * AxiBytes

\* What is left of the access the address generator is at.
Requester ==
    /\ ag.state # "IDLE" => issued # 0 /\ ag.insn = prog[issued]
    /\ ag.axi # "AXI_ADDRGEN_IDLE" =>
          /\ ag.len <= ag.insn.vl
          /\ ag.insn.op \notin Indexed => IsMultiple(ag.addr, ag.insn.sew)
          /\ ag.insn.op \in UnitStride =>
                Fits(ag.addr, ag.len, ag.insn.vl, ag.insn.sew, ag.width,
                     is_load(ag.insn.op), ag.insn.masked)

\* A command that begins with byte p of an instruction of T bytes, and what it leaves.
FitsAt(b, p, T, load, masked) ==
    /\ p \in Nat /\ Off(b, p, b.len) < T
    /\ ~load => b.addr % b.size = 0 /\ p % b.size = 0
    /\ load /\ b.len = MaxBeats - 1 => p = 0 /\ ~masked
Leaves(b, p, T, left, vl, sew) ==
    /\ p + Gap(b) >= T <=> left = 0
    /\ left # 0 => p + Gap(b) = (vl - left) * sew

\* One beat for an element.
ElementDue(a, len, vl, sew, p, b) ==
    /\ a \in Int /\ len \in Nat \ {0} /\ vl \in Nat /\ len <= vl /\ sew \in Sizes
    /\ IsMultiple(a, sew) /\ p = (vl - len) * sew
    /\ b.addr = a /\ b.size = sew /\ b.len = 0

LEMMA ElementStep ==
    ASSUME NEW a, NEW len, NEW vl, NEW sew, NEW p, NEW b, NEW load, NEW masked,
           ElementDue(a, len, vl, sew, p, b)
    PROVE  FitsAt(b, p, vl * sew, load, masked) /\ Leaves(b, p, vl * sew, len - 1, vl, sew)
<1>1. /\ a \in Int /\ len \in Nat \ {0} /\ vl \in Nat /\ len <= vl /\ sew \in Sizes
      /\ IsMultiple(a, sew) /\ p = (vl - len) * sew
      /\ b.addr = a /\ b.size = sew /\ b.len = 0
  BY DEF ElementDue
<1>2. sew \in Nat \ {0} /\ MaxBeats \in Nat /\ MaxBeats > 1
  BY <1>1, SizeFacts, AxiAssumption, WidthAssumption
<1>3. PICK p0 \in Nat, d \in Nat \ {0}, n \in Nat : /\ p0 = p /\ d = sew /\ n = vl - len
                                                  /\ p0 = n * sew /\ b.addr = a
  <2>1. vl - len \in Nat
    BY <1>1
  <2>2. (vl - len) * sew \in Nat
    BY <1>2, <2>1, Product
  <2> QED BY <1>1, <1>2, <2>1, <2>2
<1>4. a % sew = 0 /\ p0 % sew = 0
  <2>1. a % sew = 0
    BY <1>1, <1>2, MultipleFacts
  <2>2. IsMultiple(p0, sew)
    <3>1. n \in Int /\ p0 = n * sew
      BY <1>3
    <3> QED BY <3>1 DEF IsMultiple
  <2> QED BY <1>2, <2>1, <2>2, MultipleFacts
<1>5. Gap(b) = d
  <2>1. b.addr % b.size = 0 /\ b.len \in Nat
    BY <1>1, <1>4
  <2>2. Gap(b) = (b.len + 1) * b.size
    BY <1>1, <2>1, GapFacts
  <2>3. (0 + 1) * d = d
    BY <1>3
  <2> QED BY <1>1, <1>3, <2>2, <2>3
<1>6. PICK T \in Int : T = vl * sew /\ p0 + d <= T /\ (len = 1 => p0 + d = T)
                       /\ (len # 1 => p0 + d < T) /\ p0 + d = (vl - (len - 1)) * sew
  <2>1. (n + 1) * sew = n * sew + sew
    BY <1>2, Times1
  <2>2. n + 1 = vl - (len - 1) /\ n + 1 \in Int
    BY <1>1, <1>3
  <2>3. p0 + d = (vl - (len - 1)) * sew
    BY <1>3, <2>1, <2>2
  <2>4. n + 1 <= vl /\ (len = 1 => n + 1 = vl) /\ (len # 1 => n + 1 < vl)
    BY <1>1, <1>3
  <2>5. /\ n + 1 <= vl => (n + 1) * sew <= vl * sew
        /\ n + 1 < vl => (n + 1) * sew + sew <= vl * sew
        /\ vl * sew \in Int
    BY <1>1, <1>2, <2>2, Times1
  <2>6. PICK T \in Int, e \in Int : T = vl * sew /\ e = (n + 1) * sew /\ e = p0 + d
    BY <1>3, <2>1, <2>5
  <2>7. e <= T /\ (len = 1 => e = T) /\ (len # 1 => e + d <= T)
    BY <1>3, <2>4, <2>5, <2>6
  <2> QED BY <2>3, <2>6, <2>7
<1>7. Off(b, p, b.len) = p0
  <2>1. beat_addr(b, 0) = b.addr
    BY DEF beat_addr
  <2>2. Off(b, p, b.len) = p0 + a - a
    BY <1>1, <1>3, <2>1 DEF Off
  <2> QED BY <1>1, <2>2
<1>8. FitsAt(b, p, vl * sew, load, masked)
  <2>1. p0 < T
    BY <1>3, <1>6
  <2>2. b.len # MaxBeats - 1
    BY <1>1, <1>2
  <2> QED BY <1>1, <1>3, <1>4, <1>6, <1>7, <2>1, <2>2 DEF FitsAt
<1>9. Leaves(b, p, vl * sew, len - 1, vl, sew)
  <2>1. p0 + d >= T <=> len - 1 = 0
    BY <1>1, <1>6
  <2> QED BY <1>3, <1>5, <1>6, <2>1 DEF Leaves
<1> QED BY <1>8, <1>9

\* The channels and the beats when a command is added.
LEMMA AppendInStep ==
    ASSUME NEW c \in Seq(Bursts), NEW x, NEW y, NEW bt, NEW l, NEW s,
           InStep(c, x, y, bt, l, s), NEW b \in Bursts, c # <<>> => c[1].is_load = b.is_load,
           NEW d, d = Append(c, b),
           NEW x2, x2 = IF b.is_load THEN Append(x, b) ELSE x,
           NEW y2, y2 = IF b.is_load THEN y ELSE Append(y, b)
    PROVE  InStep(d, x2, y2, bt, l, s)
<1>1. Channels(c, x, y) /\ AtHead(c, l, s) /\ bt = [ar |-> l.len, aw |-> s.len]
  BY DEF InStep
<1>2. PICK m \in Nat : /\ m = Len(c) /\ d \in Seq(Bursts) /\ Len(d) = m + 1
                       /\ d[m + 1] = b /\ \A k \in 1..m : d[k] = c[k]
  <2>1. /\ Len(c) \in Nat /\ Append(c, b) \in Seq(Bursts) /\ Len(Append(c, b)) = Len(c) + 1
        /\ Append(c, b)[Len(c) + 1] = b /\ \A k \in 1..Len(c) : Append(c, b)[k] = c[k]
    BY AppendFacts
  <2> QED BY <2>1
<1>3. c # <<>> => 1 \in 1..m
  BY <1>2, TailFacts
<1>4. \A k \in 1..(m + 1) : k \in 1..m \/ k = m + 1
  OBVIOUS
<1>5. b.is_load \in BOOLEAN
  BY DEF Bursts
<1>6. d # <<>>
  <2>1. Len(d) # 0
    BY <1>2
  <2> QED BY <2>1
<1>7. Channels(d, x2, y2)
  <2>1. CASE b.is_load
    <3>1. x = c /\ y = <<>> /\ \A k \in 1..Len(c) : c[k].is_load
      <4>1. CASE c = <<>>
        <5>1. m = 0
          BY <1>2, <4>1
        <5> QED BY <1>1, <1>2, <4>1, <5>1 DEF Channels
      <4>2. CASE c # <<>>
        BY <1>1, <1>2, <1>3, <2>1, <4>2 DEF Channels
      <4> QED BY <4>1, <4>2
    <3>2. x2 = d /\ y2 = <<>>
      BY <2>1, <3>1
    <3>3. \A k \in 1..Len(d) : d[k].is_load
      BY <1>2, <1>4, <2>1, <3>1
    <3> QED BY <3>2, <3>3 DEF Channels
  <2>2. CASE ~b.is_load
    <3>1. y = c /\ x = <<>> /\ \A k \in 1..Len(c) : ~c[k].is_load
      <4>1. CASE c = <<>>
        <5>1. m = 0
          BY <1>2, <4>1
        <5> QED BY <1>1, <1>2, <4>1, <5>1 DEF Channels
      <4>2. CASE c # <<>>
        BY <1>1, <1>2, <1>3, <2>2, <4>2 DEF Channels
      <4> QED BY <4>1, <4>2
    <3>2. y2 = d /\ x2 = <<>>
      BY <2>2, <3>1
    <3>3. \A k \in 1..Len(d) : ~d[k].is_load
      BY <1>2, <1>4, <2>2, <3>1
    <3> QED BY <3>2, <3>3 DEF Channels
  <2> QED BY <2>1, <2>2
<1>8. AtHead(d, l, s)
  <2>1. CASE c = <<>>
    <3>1. d[1] = b /\ l.len = 0 /\ s.len = 0 /\ l.r_pnt = 0
      <4>1. m = 0
        BY <1>2, <2>1
      <4> QED BY <1>1, <1>2, <2>1, <4>1 DEF AtHead
    <3>2. 0 <= b.len
      BY BurstLen
    <3> QED BY <1>6, <3>1, <3>2 DEF AtHead
  <2>2. CASE c # <<>>
    <3>1. d[1] = c[1]
      BY <1>2, <1>3, <2>2
    <3> QED BY <1>1, <1>6, <2>2, <3>1 DEF AtHead
  <2> QED BY <2>1, <2>2
<1> QED BY <1>1, <1>7, <1>8 DEF InStep

\* A step of the address generator that makes a request for an instruction of which
\* "left" elements are left after it.
Requests(b, left) ==
    /\ MayRequest /\ Request(b.addr, b.size, b.len)
    /\ b = [addr |-> b.addr, size |-> b.size, len |-> b.len,
            is_load |-> is_load(ag.insn.op), insn |-> ag.insn.id]
    /\ b \in Bursts /\ left \in Nat
    /\ FitsAt(b, ReqByte, VectorBytes(ag.insn), is_load(ag.insn.op), ag.insn.masked)
    /\ Leaves(b, ReqByte, VectorBytes(ag.insn), left, ag.insn.vl, ag.insn.sew)
    /\ UNCHANGED quiet_units /\ ag'.insn = ag.insn
    /\ left # 0 => ag'.state = ag.state /\ ag'.axi = ag.axi /\ ag'.len = left
    /\ left = 0 => /\ ag'.state \in {"IDLE", "ADDRGEN_IDX_OP_END"}
                   /\ ag'.axi = "AXI_ADDRGEN_IDLE"

LEMMA RequestCounts ==
    ASSUME AInv, Commands, UInv, Requester, CountInv, NEW b, NEW left, Requests(b, left)
    PROVE  CountInv'
<1>1. /\ MayRequest /\ Request(b.addr, b.size, b.len)
      /\ b = [addr |-> b.addr, size |-> b.size, len |-> b.len,
              is_load |-> is_load(ag.insn.op), insn |-> ag.insn.id]
      /\ b \in Bursts /\ left \in Nat
      /\ FitsAt(b, ReqByte, VectorBytes(ag.insn), is_load(ag.insn.op), ag.insn.masked)
      /\ Leaves(b, ReqByte, VectorBytes(ag.insn), left, ag.insn.vl, ag.insn.sew)
      /\ UNCHANGED quiet_units /\ ag'.insn = ag.insn
      /\ left # 0 => ag'.state = ag.state /\ ag'.axi = ag.axi /\ ag'.len = left
      /\ left = 0 => /\ ag'.state \in {"IDLE", "ADDRGEN_IDX_OP_END"}
                     /\ ag'.axi = "AXI_ADDRGEN_IDLE"
  BY DEF Requests
<1>01. b.insn = ag.insn.id /\ b.is_load = is_load(ag.insn.op)
  <2>1. PICK c : c = [addr |-> b.addr, size |-> b.size, len |-> b.len,
                      is_load |-> is_load(ag.insn.op), insn |-> ag.insn.id]
    OBVIOUS
  <2>2. c.insn = ag.insn.id /\ c.is_load = is_load(ag.insn.op)
    BY <2>1
  <2>3. b = c
    BY <1>1, <2>1
  <2> QED BY <2>2, <2>3
<1>2. /\ ag.insn \in Insns /\ ag.axi = "AXI_ADDRGEN_REQUESTING"
      /\ ag.state \in {"ADDRGEN", "ADDRGEN_IDX_OP"}
  BY <1>1, Requesting
<1>3. /\ issued \in Nat /\ issued # 0 /\ issued <= Len(prog) /\ ag.insn = prog[issued]
      /\ ag.insn.id = issued
  <2>1. prog \in Programs /\ issued \in 0..Len(prog) /\ Len(prog) \in Nat
    BY ProgramsAssumption DEF AInv, Programmed
  <2>2. issued # 0 /\ ag.insn = prog[issued]
    BY <1>2 DEF Requester
  <2>3. issued \in 1..Len(prog)
    BY <2>1, <2>2
  <2> QED BY <2>1, <2>2, <2>3, ProgramInsn
<1>4. PICK p : p = ReqByte
  OBVIOUS
<1>5. cmd' = Append(cmd, b) /\ cmd \in Seq(Bursts) /\ (cmd # <<>> => cmd[1].is_load = b.is_load)
  <2>1. b.is_load = is_load(ag.insn.op)
    BY <1>01
  <2>2. cmd # <<>> => Head(cmd) = cmd[1]
    BY TailFacts DEF Commands
  <2>3. cmd' = Append(cmd, b)
    BY <1>1 DEF Request
  <2> QED BY <1>1, <2>1, <2>2, <2>3 DEF MayRequest, Commands
<1>6. b.insn = issued /\ b.is_load = is_load(ag.insn.op)
  <2>1. b.insn = ag.insn.id /\ b.is_load = is_load(ag.insn.op)
    BY <1>01
  <2> QED BY <1>3, <2>1
<1>7. /\ ar' = IF b.is_load THEN Append(ar, b) ELSE ar
      /\ aw' = IF b.is_load THEN aw ELSE Append(aw, b)
  BY <1>1 DEF Request
<1>8. InStep(cmd', ar', aw', beat, ld, st)
  BY <1>1, <1>5, <1>7, AppendInStep DEF CountInv
<1>9. ReqInsn = issued
  BY <1>2 DEF ReqInsn, Busy
<1>10. Placed(prog, b, p, issued)
  <2>1. issued \in 1..issued
    BY <1>3
  <2> QED BY <1>1, <1>3, <1>4, <1>6, <2>1 DEF FitsAt, Placed, Total
<1>11. Total(prog, b) = VectorBytes(ag.insn)
  BY <1>3, <1>6 DEF Total
<1>12. ReqInsn' = ThenInsn(prog, b, p) /\ ReqByte' = ThenByte(prog, b, p)
  <2>1. Ends(prog, b, p) <=> left = 0
    BY <1>1, <1>4, <1>11 DEF Ends, Leaves
  <2>2. CASE left = 0
    <3>1. ReqInsn' = issued' + 1 /\ ReqByte' = 0
      BY <1>1, <2>2 DEF ReqInsn, ReqByte, Busy
    <3> QED BY <1>1, <1>6, <2>1, <2>2, <3>1 DEF ThenInsn, ThenByte, quiet_units
  <2>3. CASE left # 0
    <3>1. ReqInsn' = issued' /\ ReqByte' = (ag'.insn.vl - ag'.len) * ag'.insn.sew
      BY <1>1, <1>2, <2>3 DEF ReqInsn, ReqByte, Busy
    <3>2. ReqByte' = p + Gap(b)
      BY <1>1, <1>4, <2>3, <3>1 DEF Leaves
    <3> QED BY <1>1, <1>6, <2>1, <2>3, <3>1, <3>2 DEF ThenInsn, ThenByte, quiet_units
  <2> QED BY <2>2, <2>3
<1>13. Ledger(prog, cmd, ld, st, issued, p, issued)
  BY <1>4, <1>9 DEF CountInv
<1>14. cmd = <<>> => ld.len = 0 /\ ld.r_pnt = 0 /\ st.len = 0
  BY DEF CountInv, InStep, AtHead
<1>15. Ledger(prog, cmd', ld, st, ReqInsn', ReqByte', issued)
  <2>1. PICK R2, B2 : /\ R2 = ReqInsn' /\ B2 = ReqByte'
                      /\ R2 = ThenInsn(prog, b, p) /\ B2 = ThenByte(prog, b, p)
    BY <1>12
  <2> QED BY <1>1, <1>5, <1>6, <1>10, <1>13, <1>14, <2>1, LedgerRequest
<1> QED BY <1>1, <1>8, <1>15 DEF CountInv, quiet_units

LEMMA CStays ==
    ASSUME CountInv, UNCHANGED <<quiet_units, cmd, ar, aw>>,
           ReqInsn' = ReqInsn, ReqByte' = ReqByte
    PROVE  CountInv'
BY DEF CountInv, quiet_units

\* The instruction at the address generator is one of a countable program.
LEMMA Counted ==
    ASSUME AInv, Requester, Countable(prog), ag.state # "IDLE"
    PROVE  LET i == ag.insn
           IN  /\ i \in Insns /\ i = prog[issued] /\ issued # 0 /\ i.id = issued
               /\ i.addr \in Nat /\ i.stride \in Int /\ i.vl \in Nat \ {0}
               /\ i.sew \in Sizes /\ i.sew \in Nat \ {0} /\ VectorBytes(i) = i.vl * i.sew
               /\ i.op \in {"VLE", "VLSE", "VLXE", "VSE", "VSSE", "VSXE"}
               /\ i.op \notin Indexed => IsMultiple(i.addr, i.sew)
               /\ i.op \in {"VLSE", "VSSE"} => IsMultiple(i.stride, i.sew)
               /\ i.op = "VLE" =>
                     /\ (i.addr % AxiBytes) + i.vl * i.sew <= MaxBeats * AxiBytes
                     /\ i.masked =>
                           (i.addr % AxiBytes) + i.vl * i.sew <= (MaxBeats - 1) * AxiBytes
<1>1. PICK i : i = ag.insn
  OBVIOUS
<1>2. i = prog[issued] /\ issued # 0 /\ i \in Insns
  BY <1>1 DEF Requester, AInv, Accessing
<1>3. issued \in 1..Len(prog)
  <2>1. issued \in 0..Len(prog) /\ Len(prog) \in Nat
    BY ProgramsAssumption DEF AInv, Programmed
  <2> QED BY <1>2, <2>1
<1>4. /\ i.addr \in Nat /\ i.stride \in Int /\ i.vl \in Nat \ {0}
      /\ i.sew \in Sizes /\ i.sew \in Nat \ {0} /\ InsnOK(i)
  BY <1>2, InsnFacts DEF AInv
<1>5. i.id = issued
  BY <1>2, <1>3, ProgramInsn DEF AInv, Programmed
<1>6. i.op \in {"VLE", "VLSE", "VLXE", "VSE", "VSSE", "VSXE"}
  BY <1>4 DEF InsnOK
<1>7. VectorBytes(i) = i.vl * i.sew
  BY DEF VectorBytes
<1>8. /\ i.op \notin Indexed => i.addr % i.sew = 0
      /\ i.op \in {"VLSE", "VSSE"} => i.stride % i.sew = 0
      /\ i.op = "VLE" =>
            /\ (i.addr % AxiBytes) + VectorBytes(i) <= MaxBeats * AxiBytes
            /\ i.masked => (i.addr % AxiBytes) + VectorBytes(i) <= (MaxBeats - 1) * AxiBytes
  BY <1>2, <1>3 DEF Countable
<1>9. /\ i.op \notin Indexed => IsMultiple(i.addr, i.sew)
      /\ i.op \in {"VLSE", "VSSE"} => IsMultiple(i.stride, i.sew)
  BY <1>4, <1>8, MultipleFacts
<1> QED BY <1>1, <1>2, <1>4, <1>5, <1>6, <1>7, <1>8, <1>9

\* The widest beats that are aligned with an address, and what they divide into.
LEMMA NarrowFacts ==
    ASSUME NEW a \in Int, NEW sew \in Sizes, IsMultiple(a, sew)
    PROVE  a % NarrowWidth(a) = 0 /\ NarrowWidth(a) % sew = 0
<1>1. AxiBytes \in Nat \ {0} /\ sew \in Nat \ {0}
  BY SizeFacts
<1> DEFINE S == {w \in 1..AxiBytes : a % w = 0 /\ AxiBytes % w = 0}
<1>2. sew \in S
  <2>1. a % sew = 0
    BY <1>1, MultipleFacts
  <2> QED BY <2>1 DEF Sizes
<1>3. PICK w \in S : \A v \in S : v <= w
  BY <1>1, <1>2, Greatest
<1>4. /\ w \in 1..AxiBytes /\ a % w = 0 /\ AxiBytes % w = 0
      /\ \A v \in 1..AxiBytes : a % v = 0 /\ AxiBytes % v = 0 => v <= w
  BY <1>3
<1>5. /\ NarrowWidth(a) \in 1..AxiBytes /\ a % NarrowWidth(a) = 0
      /\ \A v \in 1..AxiBytes : a % v = 0 /\ AxiBytes % v = 0 => v <= NarrowWidth(a)
  BY <1>4 DEF NarrowWidth
<1>6. sew <= NarrowWidth(a)
  BY <1>2, <1>5
<1> QED BY <1>5, <1>6, NarrowIsSize, SizesDivide

\* An access begins.
LEMMA FirstFits ==
    ASSUME AInv, Requester, Countable(prog), ag.state # "IDLE", NEW i, i = ag.insn,
           i.op \in UnitStride, NEW w, w = IF Narrow(i) THEN NarrowWidth(i.addr) ELSE AxiBytes
    PROVE  Fits(i.addr, i.vl, i.vl, i.sew, w, is_load(i.op), i.masked)
<1>1. /\ i.addr \in Nat /\ i.vl \in Nat \ {0} /\ i.sew \in Sizes /\ i.sew \in Nat \ {0}
      /\ i.op \in UnitStride
      /\ i.op \notin Indexed => IsMultiple(i.addr, i.sew)
      /\ i.op = "VLE" =>
            /\ (i.addr % AxiBytes) + i.vl * i.sew <= MaxBeats * AxiBytes
            /\ i.masked => (i.addr % AxiBytes) + i.vl * i.sew <= (MaxBeats - 1) * AxiBytes
  BY Counted
<1>2. IsMultiple(i.addr, i.sew)
  BY <1>1 DEF UnitStride, Indexed
<1>3. AxiBytes % i.sew = 0
  BY <1>1 DEF Sizes
<1>4. CASE i.op = "VLE"
  <2>1. is_load(i.op) /\ w = AxiBytes
    BY <1>4 DEF is_load, Narrow
  <2> QED BY <1>1, <1>3, <1>4, <2>1 DEF Fits
<1>5. CASE i.op = "VSE"
  <2>1. ~is_load(i.op)
    BY <1>5 DEF is_load
  <2>2. w % i.sew = 0 /\ i.addr % w = 0
    <3>1. CASE Narrow(i)
      BY <1>1, <1>2, <3>1, NarrowFacts
    <3>2. CASE ~Narrow(i)
      BY <1>3, <2>1, <3>2 DEF Narrow
    <3> QED BY <3>1, <3>2
  <2>3. w \in Nat \ {0}
    <3>1. w \in Sizes
      BY <1>1, NarrowIsSize, BusIsSize
    <3> QED BY <3>1, SizeFacts
  <2>4. ((i.vl - i.vl) * i.sew) % w = 0
    <3>1. (i.vl - i.vl) * i.sew = 0
      BY <1>1
    <3>2. 0 % w = 0
      BY <2>3, MultipleFacts
    <3> QED BY <3>1, <3>2
  <2> QED BY <2>1, <2>2, <2>4 DEF Fits
<1> QED BY <1>1, <1>4, <1>5 DEF UnitStride

LEMMA DAxiIdle ==
    AInv /\ Requester /\ Countable(prog) /\ CountInv /\ AxiIdle => Requester' /\ CountInv'
<1> SUFFICES ASSUME AInv, Requester, Countable(prog), CountInv, AxiIdle
             PROVE  Requester' /\ CountInv'
  OBVIOUS
<1>1. PICK i, w, core_st_pending, stretch :
          /\ i = ag.insn /\ core_st_pending \in BOOLEAN
          /\ w = IF Narrow(i) THEN NarrowWidth(i.addr) ELSE AxiBytes
          /\ stretch = Stretch(i.addr, VectorBytes(i), AxiBytes)
          /\ ag' = [ag EXCEPT !.addr = i.addr, !.len = i.vl,
                              !.axi = IF Narrow(i) THEN "AXI_ADDRGEN_MISALIGNED"
                                      ELSE Pending(core_st_pending),
                              !.width = w, !.stretch = stretch]
  <2>1. PICK core_st_pending \in BOOLEAN :
            ag' = [ag EXCEPT !.addr = ag.insn.addr, !.len = ag.insn.vl,
                             !.axi = IF Narrow(ag.insn) THEN "AXI_ADDRGEN_MISALIGNED"
                                     ELSE Pending(core_st_pending),
                             !.width = IF Narrow(ag.insn) THEN NarrowWidth(ag.insn.addr)
                                       ELSE AxiBytes,
                             !.stretch = Stretch(ag.insn.addr, VectorBytes(ag.insn), AxiBytes)]
    BY DEF AxiIdle
  <2>2. PICK i, w, stretch :
            /\ i = ag.insn
            /\ w = IF Narrow(i) THEN NarrowWidth(i.addr) ELSE AxiBytes
            /\ stretch = Stretch(i.addr, VectorBytes(i), AxiBytes)
    OBVIOUS
  <2> QED BY <2>1, <2>2
<1>2. /\ UNCHANGED <<quiet_units, cmd, ar, aw>> /\ UNCHANGED <<prog, issued>>
      /\ ag.axi = "AXI_ADDRGEN_IDLE" /\ ag.state \in {"ADDRGEN", "ADDRGEN_IDX_OP"}
  BY DEF AxiIdle, quiet_units
<1>3. Pending(core_st_pending) \in {"AXI_ADDRGEN_WAITING", "AXI_ADDRGEN_REQUESTING"}
  BY DEF Pending
<1>4. /\ ag'.state = ag.state /\ ag'.insn = i /\ ag'.len = i.vl /\ ag'.addr = i.addr
      /\ ag'.width = w /\ ag'.axi # "AXI_ADDRGEN_IDLE"
  BY <1>1, <1>3 DEF AInv, AGTyped
<1>5. /\ i.vl \in Nat \ {0} /\ i.sew \in Nat \ {0}
      /\ i.op \notin Indexed => IsMultiple(i.addr, i.sew)
  BY <1>1, <1>2, Counted
<1>6. i.op \in UnitStride => Fits(i.addr, i.vl, i.vl, i.sew, w, is_load(i.op), i.masked)
  BY <1>1, <1>2, FirstFits
<1>7. Requester'
  <2>1. issued # 0 /\ i = prog[issued]
    BY <1>1, <1>2 DEF Requester
  <2> QED BY <1>2, <1>4, <1>5, <1>6, <2>1 DEF Requester
<1>8. ReqInsn' = ReqInsn /\ ReqByte' = ReqByte
  <2>1. (i.vl - i.vl) * i.sew = 0
    BY <1>5
  <2> QED BY <1>1, <1>2, <1>4, <2>1 DEF ReqInsn, ReqByte, Busy
<1> QED BY <1>2, <1>7, <1>8, CStays

\* A step that leaves the access as it is.
LEMMA SameAccess ==
    ASSUME Requester, CountInv, UNCHANGED <<quiet_units, cmd, ar, aw>>,
           ag'.state = ag.state \/ {ag.state, ag'.state} = {"ADDRGEN_IDX_OP_END", "IDLE"},
           ag'.insn = ag.insn, ag'.addr = ag.addr, ag'.len = ag.len, ag'.width = ag.width,
           ag'.axi = "AXI_ADDRGEN_IDLE" <=> ag.axi = "AXI_ADDRGEN_IDLE", ag'.state # "IDLE" => ag.state # "IDLE"
    PROVE  Requester' /\ CountInv'
<1>1. UNCHANGED <<prog, issued>>
  BY DEF quiet_units
<1>2. Requester'
  BY <1>1 DEF Requester
<1>3. Busy' <=> Busy
  BY DEF Busy
<1>4. ReqInsn' = ReqInsn /\ ReqByte' = ReqByte
  BY <1>1, <1>3 DEF ReqInsn, ReqByte
<1> QED BY <1>2, <1>4, CStays

LEMMA DSmall ==
    /\ AInv /\ Requester /\ CountInv
    /\ AxiMisaligned \/ AxiWaiting \/ NextIndex \/ IndexedEnd
    => Requester' /\ CountInv'
<1> SUFFICES ASSUME AInv, Requester, CountInv,
                    AxiMisaligned \/ AxiWaiting \/ NextIndex \/ IndexedEnd
             PROVE  Requester' /\ CountInv'
  OBVIOUS
<1>1. CASE AxiMisaligned
  <2>1. PICK core_st_pending \in BOOLEAN :
            ag' = [ag EXCEPT !.axi = Pending(core_st_pending),
                             !.stretch = Stretch(ag.addr, VectorBytes(ag.insn), ag.width)]
    BY <1>1 DEF AxiMisaligned
  <2>2. UNCHANGED <<quiet_units, cmd, ar, aw>> /\ ag.axi = "AXI_ADDRGEN_MISALIGNED"
    BY <1>1 DEF AxiMisaligned
  <2>3. Pending(core_st_pending) \in {"AXI_ADDRGEN_WAITING", "AXI_ADDRGEN_REQUESTING"}
    BY DEF Pending
  <2>4. /\ ag'.state = ag.state /\ ag'.insn = ag.insn /\ ag'.addr = ag.addr
        /\ ag'.len = ag.len /\ ag'.width = ag.width /\ ag'.axi # "AXI_ADDRGEN_IDLE"
    BY <2>1, <2>3 DEF AInv, AGTyped
  <2> QED BY <2>2, <2>4, SameAccess
<1>2. CASE AxiWaiting
  <2>1. /\ UNCHANGED <<quiet_units, cmd, ar, aw>> /\ ag.axi = "AXI_ADDRGEN_WAITING"
        /\ ag' = [ag EXCEPT !.axi = "AXI_ADDRGEN_REQUESTING"]
    BY <1>2 DEF AxiWaiting
  <2>2. /\ ag'.state = ag.state /\ ag'.insn = ag.insn /\ ag'.addr = ag.addr
        /\ ag'.len = ag.len /\ ag'.width = ag.width /\ ag'.axi # "AXI_ADDRGEN_IDLE"
    BY <2>1 DEF AInv, AGTyped
  <2> QED BY <2>1, <2>2, SameAccess
<1>3. CASE NextIndex
  <2>1. UNCHANGED <<quiet_units, cmd, ar, aw>>
    BY <1>3 DEF NextIndex
  <2>2. PICK x, y, z : ag' = [ag EXCEPT !.spill = x, !.elm = y, !.cnt = z]
    BY <1>3 DEF NextIndex
  <2>3. /\ ag'.state = ag.state /\ ag'.insn = ag.insn /\ ag'.addr = ag.addr
        /\ ag'.len = ag.len /\ ag'.width = ag.width /\ ag'.axi = ag.axi
    BY <2>2 DEF AInv, AGTyped
  <2> QED BY <2>1, <2>3, SameAccess
<1>4. CASE IndexedEnd
  <2>1. /\ UNCHANGED <<quiet_units, cmd, ar, aw>> /\ ag.state = "ADDRGEN_IDX_OP_END"
        /\ ag' = [ag EXCEPT !.state = "IDLE", !.elm = 0, !.error = FALSE]
    BY <1>4 DEF IndexedEnd
  <2>2. /\ ag'.state = "IDLE" /\ ag'.insn = ag.insn /\ ag'.addr = ag.addr
        /\ ag'.len = ag.len /\ ag'.width = ag.width /\ ag'.axi = ag.axi
    BY <2>1 DEF AInv, AGTyped
  <2> QED BY <2>1, <2>2, SameAccess
<1> QED BY <1>1, <1>2, <1>3, <1>4

\* Elements are aligned in countable programs.
LEMMA DMisaligned ==
    AInv /\ Requester /\ Countable(prog) => ~Misaligned
<1> SUFFICES ASSUME AInv, Requester, Countable(prog), Misaligned PROVE FALSE
  OBVIOUS
<1>1. PICK i : /\ i = ag.insn /\ ag.state = "ADDRGEN" /\ is_addr_error(i.addr, i.sew)
               /\ i.op \notin Indexed
  BY DEF Misaligned, AInv, Accessing
<1>2. i.addr \in Nat /\ i.sew \in Nat \ {0} /\ IsMultiple(i.addr, i.sew)
  BY <1>1, Counted
<1> QED BY <1>1, <1>2, MultipleFacts DEF is_addr_error

\* The access the address generator makes requests for.
LEMMA AtRequest ==
    ASSUME AInv, Requester, Countable(prog), MayRequest
    PROVE  LET i == ag.insn
           IN  /\ ag.axi = "AXI_ADDRGEN_REQUESTING" /\ ag.state \in {"ADDRGEN", "ADDRGEN_IDX_OP"}
               /\ ~ag.error /\ ag.addr \in Int /\ ag.width \in Sizes
               /\ ag.len \in Nat \ {0} /\ ag.len <= i.vl /\ ag.len - 1 \in Nat
               /\ i.vl \in Nat /\ i.sew \in Sizes /\ i.sew \in Nat \ {0} /\ i.stride \in Int
               /\ i.id \in Nat /\ is_load(i.op) \in BOOLEAN /\ VectorBytes(i) = i.vl * i.sew
               /\ ReqByte = (i.vl - ag.len) * i.sew
               /\ issued # 0 /\ i = prog[issued]
<1>1. /\ ag.insn \in Insns /\ ag.len >= 1 /\ ag.axi = "AXI_ADDRGEN_REQUESTING"
      /\ ag.state \in {"ADDRGEN", "ADDRGEN_IDX_OP"}
  BY Requesting
<1>2. /\ ~ag.error /\ ag.addr \in Int /\ ag.width \in Sizes /\ ag.len \in Nat
  BY DEF AInv, Spilled, AGTyped
<1>3. /\ ag.insn.vl \in Nat /\ ag.insn.sew \in Sizes /\ ag.insn.sew \in Nat \ {0}
      /\ ag.insn.stride \in Int /\ ag.insn.id \in Nat
  BY <1>1, InsnFacts DEF AInv
<1>4. is_load(ag.insn.op) \in BOOLEAN /\ VectorBytes(ag.insn) = ag.insn.vl * ag.insn.sew
  BY DEF is_load, VectorBytes
<1>5. /\ ReqByte = (ag.insn.vl - ag.len) * ag.insn.sew
      /\ ag.len <= ag.insn.vl /\ issued # 0 /\ ag.insn = prog[issued]
  BY <1>1 DEF ReqByte, Requester
<1>6. ag.len \in Nat \ {0} /\ ag.len - 1 \in Nat
  BY <1>1, <1>2
<1> QED BY <1>1, <1>2, <1>3, <1>4, <1>5, <1>6

LEMMA DRequestBurst ==
    AInv /\ Commands /\ UInv /\ Requester /\ Countable(prog) /\ CountInv /\ RequestBurst
        => Requester' /\ CountInv'
<1> SUFFICES ASSUME AInv, Commands, UInv, Requester, Countable(prog), CountInv, RequestBurst
             PROVE  Requester' /\ CountInv'
  OBVIOUS
<1>1. /\ MayRequest /\ ag.insn.op \in UnitStride /\ UNCHANGED quiet_units
      /\ UNCHANGED <<prog, issued>>
  BY DEF RequestBurst, quiet_units
<1>2. PICK i, a, len, vl, sew, w, load, masked, s, p :
          /\ i = ag.insn /\ a = ag.addr /\ len = ag.len /\ vl = i.vl /\ sew = i.sew
          /\ w = ag.width /\ load = is_load(i.op) /\ masked = i.masked /\ s = ag.stretch
          /\ p = ReqByte
  OBVIOUS
<1>3. PICK left : left = Floor0(len - (s.end - a + 1) \div sew)
  OBVIOUS
<1>4. /\ a \in Int /\ len \in Nat \ {0} /\ vl \in Nat /\ len <= vl
      /\ sew \in Nat \ {0} /\ w \in Sizes /\ load \in BOOLEAN
      /\ i.id \in Nat /\ VectorBytes(i) = vl * sew /\ p = (vl - len) * sew
      /\ ag.axi = "AXI_ADDRGEN_REQUESTING" /\ ag.state \in {"ADDRGEN", "ADDRGEN_IDX_OP"}
      /\ ~ag.error
  BY <1>1, <1>2, AtRequest
<1>5. i.op \notin Indexed /\ ag.state = "ADDRGEN"
  BY <1>1, <1>2, <1>4 DEF AInv, Accessing, UnitStride, Indexed
<1>6. s = Stretch(a, len * sew, w)
  BY <1>1, <1>2, <1>4 DEF AInv, Accessing
<1>7. IsMultiple(a, sew) /\ Fits(a, len, vl, sew, w, load, masked)
  BY <1>1, <1>2, <1>4, <1>5 DEF Requester
<1>8. PICK l \in 0..(MaxBeats - 1) : l = Beats(s, w) - 1
  <2>1. len * sew \in Nat \ {0}
    BY <1>4, Product
  <2>2. Beats(s, w) \in 1..MaxBeats /\ MaxBeats \in Nat
    BY <1>4, <1>6, <2>1, StretchFacts, AxiAssumption
  <2> QED BY <2>2
<1>9. PICK b : b = [addr |-> a, size |-> w, len |-> l, is_load |-> load, insn |-> i.id]
  OBVIOUS
<1>10. /\ b.addr = a /\ b.size = w /\ b.len = l /\ b.is_load = load /\ b.insn = i.id
       /\ b \in Bursts
  BY <1>4, <1>9 DEF Bursts
<1>11. BurstDue(a, len, vl, sew, w, load, masked, s, left, p, b)
  BY <1>3, <1>4, <1>6, <1>7, <1>8, <1>10 DEF BurstDue
<1>12. /\ BurstLeaves(a, len, vl, sew, w, load, masked, s, left, p, b)
       /\ BurstPlaced(a, len, vl, sew, w, load, masked, s, left, p, b)
  BY <1>11, BurstStep
<1>13. left \in Nat /\ left <= vl /\ s.next \in Int /\ IsMultiple(s.next, sew)
       /\ (left # 0 => Fits(s.next, left, vl, sew, w, load, masked))
  BY <1>12 DEF BurstLeaves
<1>14. PICK s2 : s2 = Stretch(s.next, left * sew, w)
  OBVIOUS
<1>15. ag' = Finished([ag EXCEPT !.len = left, !.addr = s.next, !.stretch = s2])
  BY <1>2, <1>3, <1>14 DEF RequestBurst
<1>16. /\ ag'.insn = i
       /\ left # 0 => /\ ag'.state = ag.state /\ ag'.axi = ag.axi /\ ag'.len = left
                      /\ ag'.addr = s.next /\ ag'.width = w
       /\ left = 0 => ag'.state = "IDLE" /\ ag'.axi = "AXI_ADDRGEN_IDLE"
  <2>1. PICK g : g = [ag EXCEPT !.len = left, !.addr = s.next, !.stretch = s2]
    OBVIOUS
  <2>2. /\ g.insn = i /\ g.state = ag.state /\ g.axi = ag.axi /\ g.len = left
        /\ g.addr = s.next /\ g.width = w /\ ~g.error
        /\ DOMAIN g = {"state", "insn", "axi", "addr", "len", "width", "stretch", "elm",
                       "cnt", "spill", "error"}
    BY <1>2, <1>4, <2>1 DEF AInv, AGTyped
  <2>3. ag' = IF left # 0 THEN g
              ELSE [g EXCEPT !.axi = "AXI_ADDRGEN_IDLE",
                             !.state = IF g.state = "ADDRGEN_IDX_OP" THEN "ADDRGEN_IDX_OP_END"
                                       ELSE "IDLE"]
    BY <1>15, <2>1, <2>2 DEF Finished
  <2> QED BY <1>5, <2>2, <2>3
<1>17. Requester'
  <2>1. issued # 0 /\ i = prog[issued]
    BY <1>2, <1>4 DEF Requester
  <2> QED BY <1>1, <1>2, <1>13, <1>16, <2>1 DEF Requester
<1>18. Request(b.addr, b.size, b.len)
  BY <1>2, <1>8, <1>10 DEF RequestBurst
<1>19. b = [addr |-> b.addr, size |-> b.size, len |-> b.len,
            is_load |-> is_load(ag.insn.op), insn |-> ag.insn.id]
  BY <1>2, <1>9, <1>10
<1>20. FitsAt(b, ReqByte, VectorBytes(ag.insn), is_load(ag.insn.op), ag.insn.masked)
  BY <1>2, <1>4, <1>10, <1>12 DEF FitsAt, BurstPlaced
<1>21. Leaves(b, ReqByte, VectorBytes(ag.insn), left, ag.insn.vl, ag.insn.sew)
  BY <1>2, <1>4, <1>12 DEF Leaves, BurstLeaves
<1>22. Requests(b, left)
  BY <1>1, <1>2, <1>10, <1>13, <1>16, <1>18, <1>19, <1>20, <1>21 DEF Requests
<1> QED BY <1>17, <1>22, RequestCounts

\* A request for one element, at a.
LEMMA DElement ==
    ASSUME AInv, Commands, UInv, Requester, Countable(prog), CountInv,
           MayRequest, UNCHANGED quiet_units,
           NEW a \in Int, IsMultiple(a, ag.insn.sew), Request(a, ag.insn.sew, 0),
           ag'.insn = ag.insn,
           ag.len # 1 => /\ ag'.state = ag.state /\ ag'.axi = ag.axi
                         /\ ag'.len = ag.len - 1,
           ag.len = 1 => /\ ag'.state \in {"IDLE", "ADDRGEN_IDX_OP_END"}
                         /\ ag'.axi = "AXI_ADDRGEN_IDLE"
    PROVE  CountInv'
<1>2. PICK i, len, vl, sew, load, p :
          /\ i = ag.insn /\ len = ag.len /\ vl = i.vl /\ sew = i.sew
          /\ load = is_load(i.op) /\ p = ReqByte
  OBVIOUS
<1>4. /\ len \in Nat \ {0} /\ vl \in Nat /\ len <= vl /\ len - 1 \in Nat
      /\ sew \in Sizes /\ load \in BOOLEAN
      /\ i.id \in Nat /\ VectorBytes(i) = vl * sew /\ p = (vl - len) * sew
  BY <1>2, AtRequest
<1>9. PICK b : b = [addr |-> a, size |-> sew, len |-> 0, is_load |-> load, insn |-> i.id]
  OBVIOUS
<1>10. /\ b.addr = a /\ b.size = sew /\ b.len = 0 /\ b.is_load = load /\ b.insn = i.id
       /\ b \in Bursts
  <2>1. 0 \in 0..(MaxBeats - 1)
    BY AxiAssumption
  <2> QED BY <1>4, <1>9, <2>1 DEF Bursts
<1>11. ElementDue(a, len, vl, sew, p, b)
  BY <1>2, <1>4, <1>10 DEF ElementDue
<1>12. FitsAt(b, p, vl * sew, load, i.masked) /\ Leaves(b, p, vl * sew, len - 1, vl, sew)
  BY <1>11, ElementStep
<1>13. PICK left \in Nat : left = len - 1 /\ (left = 0 <=> len = 1)
  BY <1>4
<1>18. Request(b.addr, b.size, b.len)
  BY <1>2, <1>10
<1>19. b = [addr |-> b.addr, size |-> b.size, len |-> b.len,
            is_load |-> is_load(ag.insn.op), insn |-> ag.insn.id]
  BY <1>2, <1>9, <1>10
<1>20. FitsAt(b, ReqByte, VectorBytes(ag.insn), is_load(ag.insn.op), ag.insn.masked)
  BY <1>2, <1>4, <1>12
<1>21. Leaves(b, ReqByte, VectorBytes(ag.insn), left, ag.insn.vl, ag.insn.sew)
  BY <1>2, <1>4, <1>12, <1>13
<1>22. Requests(b, left)
  BY <1>2, <1>10, <1>13, <1>18, <1>19, <1>20, <1>21 DEF Requests
<1> QED BY <1>22, RequestCounts

LEMMA DRequestStrided ==
    AInv /\ Commands /\ UInv /\ Requester /\ Countable(prog) /\ CountInv /\ RequestStrided
        => Requester' /\ CountInv'
<1> SUFFICES ASSUME AInv, Commands, UInv, Requester, Countable(prog), CountInv, RequestStrided
             PROVE  Requester' /\ CountInv'
  OBVIOUS
<1>1. /\ MayRequest /\ ag.insn.op \notin UnitStride /\ ag.state # "ADDRGEN_IDX_OP"
      /\ UNCHANGED quiet_units /\ UNCHANGED <<prog, issued>>
  BY DEF RequestStrided, quiet_units
<1>2. PICK i, a, len, left, a2 :
          /\ i = ag.insn /\ a = ag.addr /\ len = ag.len /\ left = len - 1 /\ a2 = a + i.stride
  OBVIOUS
<1>3. /\ ag.axi = "AXI_ADDRGEN_REQUESTING" /\ ag.state = "ADDRGEN"
      /\ ~ag.error /\ a \in Int /\ len \in Nat \ {0} /\ len <= i.vl /\ left \in Nat
      /\ i.vl \in Nat /\ i.sew \in Sizes /\ i.sew \in Nat \ {0} /\ i.stride \in Int
      /\ issued # 0 /\ i = prog[issued]
  BY <1>1, <1>2, AtRequest
<1>4. i.op \notin Indexed /\ IsMultiple(i.stride, i.sew)
  <2>1. i.op \notin Indexed
    BY <1>2, <1>3 DEF AInv, Accessing
  <2>2. /\ i.op \in {"VLE", "VLSE", "VLXE", "VSE", "VSSE", "VSXE"}
        /\ i.op \in {"VLSE", "VSSE"} => IsMultiple(i.stride, i.sew)
    BY <1>2, <1>3, Counted
  <2>3. i.op \in {"VLSE", "VSSE"}
    BY <1>1, <1>2, <2>1, <2>2 DEF UnitStride, Indexed
  <2> QED BY <2>1, <2>2, <2>3
<1>5. IsMultiple(a, i.sew)
  BY <1>2, <1>3, <1>4 DEF Requester
<1>6. a2 \in Int /\ IsMultiple(a2, i.sew)
  <2>1. PICK x \in Int, y \in Int, w \in Nat \ {0} :
            x = a /\ y = i.stride /\ w = i.sew /\ a2 = x + y
    BY <1>2, <1>3
  <2>2. IsMultiple(x, w) /\ IsMultiple(y, w)
    BY <1>4, <1>5, <2>1
  <2>3. IsMultiple(x + y, w) /\ x + y \in Int
    BY <2>2, MultipleSum
  <2> QED BY <2>1, <2>3
<1>7. ag' = Finished([ag EXCEPT !.len = left, !.addr = a2])
  BY <1>2 DEF RequestStrided
<1>8. /\ ag'.insn = i
      /\ left # 0 => /\ ag'.state = ag.state /\ ag'.axi = ag.axi /\ ag'.len = left
                     /\ ag'.addr = a2
      /\ left = 0 => ag'.state = "IDLE" /\ ag'.axi = "AXI_ADDRGEN_IDLE"
  <2>1. PICK g : g = [ag EXCEPT !.len = left, !.addr = a2]
    OBVIOUS
  <2>2. /\ g.insn = i /\ g.state = ag.state /\ g.axi = ag.axi /\ g.len = left
        /\ g.addr = a2 /\ ~g.error
        /\ DOMAIN g = {"state", "insn", "axi", "addr", "len", "width", "stretch", "elm",
                       "cnt", "spill", "error"}
    BY <1>2, <1>3, <2>1 DEF AInv, AGTyped
  <2>3. ag' = IF left # 0 THEN g
              ELSE [g EXCEPT !.axi = "AXI_ADDRGEN_IDLE",
                             !.state = IF g.state = "ADDRGEN_IDX_OP" THEN "ADDRGEN_IDX_OP_END"
                                       ELSE "IDLE"]
    BY <1>7, <2>1, <2>2 DEF Finished
  <2> QED BY <1>3, <2>2, <2>3
<1>9. left <= i.vl /\ (left = 0 <=> len = 1)
  BY <1>2, <1>3
<1>10. Requester'
  BY <1>1, <1>2, <1>3, <1>6, <1>8, <1>9 DEF Requester
<1>11. Request(a, ag.insn.sew, 0)
  BY <1>2 DEF RequestStrided
<1> QED BY <1>1, <1>2, <1>3, <1>5, <1>8, <1>9, <1>10, <1>11, DElement

LEMMA DRequestIndexed ==
    AInv /\ Commands /\ UInv /\ Requester /\ Countable(prog) /\ CountInv /\ RequestIndexed
        => Requester' /\ CountInv'
<1> SUFFICES ASSUME AInv, Commands, UInv, Requester, Countable(prog), CountInv, RequestIndexed
             PROVE  Requester' /\ CountInv'
  OBVIOUS
<1>1. /\ MayRequest /\ ag.state = "ADDRGEN_IDX_OP" /\ ag.spill # <<>>
      /\ UNCHANGED quiet_units /\ UNCHANGED <<prog, issued>>
  BY DEF RequestIndexed, quiet_units
<1>2. PICK i, a, len, left, t :
          /\ i = ag.insn /\ a = Head(ag.spill) /\ len = ag.len /\ left = len - 1
          /\ t = Tail(ag.spill)
  OBVIOUS
<1>3. /\ ag.axi = "AXI_ADDRGEN_REQUESTING"
      /\ ~ag.error /\ len \in Nat \ {0} /\ len <= i.vl /\ left \in Nat
      /\ i.vl \in Nat /\ i.sew \in Sizes /\ i.sew \in Nat \ {0}
      /\ issued # 0 /\ i = prog[issued]
  BY <1>1, <1>2, AtRequest
<1>4. i.op \in Indexed /\ i.op \notin UnitStride
  BY <1>1, <1>2 DEF AInv, Accessing, UnitStride, Indexed
<1>5. a \in Int /\ ~is_addr_error(a, i.sew)
  <2>1. PICK sp \in Seq(Int) : sp = ag.spill /\ sp # <<>>
    BY <1>1 DEF AInv, AGTyped
  <2>2. Len(sp) \in Nat \ {0} /\ Head(sp) = sp[1] /\ sp[1] \in Int
    BY <2>1, TailFacts
  <2>3. 1 \in 1..Len(sp)
    BY <2>2
  <2> QED BY <1>2, <2>1, <2>2, <2>3 DEF AInv, Spilled
<1>6. IsMultiple(a, i.sew)
  BY <1>3, <1>5, MultipleFacts DEF is_addr_error
<1>7. ag' = Finished([ag EXCEPT !.len = left, !.spill = t, !.error = FALSE])
  <2>1. is_addr_error(a, i.sew) = FALSE
    BY <1>5 DEF is_addr_error
  <2> QED BY <1>2, <2>1 DEF RequestIndexed
<1>8. /\ ag'.insn = i
      /\ left # 0 => ag'.state = ag.state /\ ag'.axi = ag.axi /\ ag'.len = left
      /\ left = 0 => ag'.state = "ADDRGEN_IDX_OP_END" /\ ag'.axi = "AXI_ADDRGEN_IDLE"
  <2>1. PICK g : g = [ag EXCEPT !.len = left, !.spill = t, !.error = FALSE]
    OBVIOUS
  <2>2. /\ g.insn = i /\ g.state = ag.state /\ g.axi = ag.axi /\ g.len = left /\ ~g.error
        /\ DOMAIN g = {"state", "insn", "axi", "addr", "len", "width", "stretch", "elm",
                       "cnt", "spill", "error"}
    BY <1>2, <1>3, <2>1 DEF AInv, AGTyped
  <2>3. ag' = IF left # 0 THEN g
              ELSE [g EXCEPT !.axi = "AXI_ADDRGEN_IDLE",
                             !.state = IF g.state = "ADDRGEN_IDX_OP" THEN "ADDRGEN_IDX_OP_END"
                                       ELSE "IDLE"]
    BY <1>7, <2>1, <2>2 DEF Finished
  <2> QED BY <1>1, <2>2, <2>3
<1>9. left <= i.vl /\ (left = 0 <=> len = 1)
  BY <1>2, <1>3
<1>10. Requester'
  BY <1>1, <1>3, <1>4, <1>8, <1>9 DEF Requester
<1>11. Request(a, ag.insn.sew, 0)
  BY <1>2 DEF RequestIndexed
<1> QED BY <1>1, <1>2, <1>3, <1>5, <1>6, <1>8, <1>9, <1>10, <1>11, DElement

-----------------------------------------------------------------------------
(***************************************************************************)
(* All steps: the ledger is kept beside VInv, the invariant of the limits. *)
(***************************************************************************)
LInv == Countable(prog) /\ Requester /\ CountInv

\* The access of a broadcast instruction.
LEMMA DIssue == AInv /\ Requester /\ Issue => Requester'
<1> SUFFICES ASSUME AInv, Requester, Issue PROVE Requester'
  OBVIOUS
<1>1. PICK i : /\ i = prog[issued + 1] /\ issued' = issued + 1 /\ prog' = prog
               /\ issued \in Nat /\ ag.state = "IDLE" /\ ag.axi = "AXI_ADDRGEN_IDLE"
               /\ ag' = [ag EXCEPT !.state = IF i.op \in Indexed THEN "ADDRGEN_IDX_OP"
                                             ELSE "ADDRGEN",
                                   !.insn = i,
                                   !.cnt = IF i.op \in Indexed THEN i.vl ELSE @]
  <2>1. issued \in Nat
    BY ProgramsAssumption DEF AInv, Programmed
  <2>2. ag.state = "IDLE" /\ ag.axi = "AXI_ADDRGEN_IDLE"
    BY DEF Issue, AInv, Accessing
  <2> QED BY <2>1, <2>2 DEF Issue
<1>2. ag'.insn = i /\ ag'.axi = "AXI_ADDRGEN_IDLE"
  BY <1>1 DEF AInv, AGTyped
<1>3. issued' # 0 /\ i = prog'[issued']
  BY <1>1
<1> QED BY <1>2, <1>3 DEF Requester

LEMMA LedgerNext ==
    VInv /\ LInv /\ [Next]_vars => LInv'
<1> SUFFICES ASSUME VInv, LInv, [Next]_vars PROVE LInv'
  OBVIOUS
<1>1. AInv /\ Commands /\ UInv /\ Countable(prog) /\ Requester /\ CountInv
  BY DEF VInv, LInv
<1>2. Countable(prog)'
  <2>1. prog' = prog
    BY SameProgram
  <2> QED BY <1>1, <2>1 DEF Countable
<1>3. CASE Issue
  BY <1>1, <1>2, <1>3, CIssue, DIssue DEF LInv
<1>4. CASE LoadUnit
  <2>1. UNCHANGED <<prog, issued, ag>>
    BY <1>4 DEF LoadUnit
  <2>2. Requester'
    BY <1>1, <2>1 DEF Requester
  <2> QED BY <1>1, <1>2, <1>4, <2>2, CLoadUnit DEF LInv
<1>5. CASE StoreUnit
  <2>1. UNCHANGED <<prog, issued, ag>>
    BY <1>5 DEF StoreUnit
  <2>2. Requester'
    BY <1>1, <2>1 DEF Requester
  <2> QED BY <1>1, <1>2, <1>5, <2>2, CStoreUnit DEF LInv
<1>6. CASE AddressGenerator
  <2>1. CASE Misaligned
    BY <1>1, <2>1, DMisaligned
  <2>2. CASE AxiIdle
    BY <1>1, <1>2, <2>2, DAxiIdle DEF LInv
  <2>3. CASE AxiMisaligned \/ AxiWaiting \/ NextIndex \/ IndexedEnd
    BY <1>1, <1>2, <2>3, DSmall DEF LInv
  <2>4. CASE RequestBurst
    BY <1>1, <1>2, <2>4, DRequestBurst DEF LInv
  <2>5. CASE RequestStrided
    BY <1>1, <1>2, <2>5, DRequestStrided DEF LInv
  <2>6. CASE RequestIndexed
    BY <1>1, <1>2, <2>6, DRequestIndexed DEF LInv
  <2> QED BY <1>6, <2>1, <2>2, <2>3, <2>4, <2>5, <2>6 DEF AddressGenerator
<1>7. CASE UNCHANGED vars
  <2>1. UNCHANGED <<prog, issued, ag, cmd, ar, aw, beat, ld, st>>
    BY <1>7 DEF vars, units, memory
  <2>2. ReqInsn' = ReqInsn /\ ReqByte' = ReqByte
    BY <2>1 DEF ReqInsn, ReqByte, Busy
  <2>3. Requester'
    BY <1>1, <2>1 DEF Requester
  <2>4. CountInv'
    BY <1>1, <2>1, <2>2 DEF CountInv
  <2> QED BY <1>2, <2>3, <2>4 DEF LInv
<1> QED BY <1>3, <1>4, <1>5, <1>6, <1>7 DEF Next

\* At first nothing is issued, and nothing is left to issue.
LEMMA NothingHeld ==
    ASSUME NEW u, u.issue_cnt = 0, NEW g, NEW dir, NEW P
    PROVE  UnitHolds(g, u, dir, 1, P, 0)
BY DEF UnitHolds, Holds

LEMMA LedgerInit == Init /\ Countable(prog) => LInv
<1> SUFFICES ASSUME Init, Countable(prog) PROVE LInv
  OBVIOUS
<1>1. /\ issued = 0 /\ ag = Quiet /\ cmd = <<>> /\ ld = IdleLoadUnit /\ st = IdleStoreUnit
      /\ ar = <<>> /\ aw = <<>> /\ beat = [ar |-> 0, aw |-> 0]
  BY DEF Init
<1>2. ag.state = "IDLE" /\ ag.axi = "AXI_ADDRGEN_IDLE"
  BY <1>1 DEF Quiet
<1>3. Requester
  BY <1>2 DEF Requester
<1>4. ReqInsn = 1 /\ ReqByte = 0
  BY <1>1, <1>2 DEF ReqInsn, ReqByte, Busy
<1>5. ld.len = 0 /\ ld.r_pnt = 0 /\ ld.issue_cnt = 0 /\ st.len = 0 /\ st.issue_cnt = 0
  BY <1>1 DEF IdleLoadUnit, IdleStoreUnit
<1>6. Len(cmd) = 0
  BY <1>1
<1>7. InStep(cmd, ar, aw, beat, ld, st)
  <2>1. Channels(cmd, ar, aw)
    BY <1>1, <1>6 DEF Channels
  <2>2. AtHead(cmd, ld, st)
    BY <1>1, <1>5 DEF AtHead
  <2> QED BY <1>1, <1>5, <2>1, <2>2 DEF InStep
<1>8. Ledger(prog, cmd, ld, st, 1, 0, 0)
  <2>1. PICK pos : pos = [k \in 1..Len(cmd) |-> 0]
    OBVIOUS
  <2>2. pos \in [1..Len(cmd) -> Nat]
    BY <2>1
  <2>3. Chained(prog, cmd, pos, 1, 0, 0)
    BY <1>6 DEF Chained
  <2>4. StartInsn(cmd, 1, 1) = 1
    BY <1>6 DEF StartInsn
  <2>5. Agree(prog, cmd, pos, ld, st, 1, 0, 0)
    BY <1>5, <2>3, <2>4, NothingHeld DEF Agree
  <2> QED BY <2>2, <2>5 DEF Ledger
<1> QED BY <1>1, <1>3, <1>4, <1>7, <1>8 DEF LInv, CountInv

\* What the invariant says of the commands, the units and memory.
LEMMA AllCounted == VInv /\ LInv => CountedAlike
<1> SUFFICES ASSUME VInv, LInv PROVE CountedAlike
  OBVIOUS
<1>1. /\ cmd \in Seq(Bursts) /\ InStep(cmd, ar, aw, beat, ld, st)
      /\ Ledger(prog, cmd, ld, st, ReqInsn, ReqByte, issued)
      /\ UnitTyped(ld) /\ UnitTyped(st) /\ Programmed
  BY DEF VInv, LInv, CountInv, Commands, UInv, LoadOK, LoadKept, LoadTyped, StoreOK,
         StoreTyped, AInv
<1>2. Channels(cmd, ar, aw) /\ AtHead(cmd, ld, st) /\ beat = [ar |-> ld.len, aw |-> st.len]
  BY <1>1 DEF InStep
<1>3. cmd # <<>> => Head(cmd) = cmd[1]
  BY <1>1, TailFacts
<1>4. cmd = ar \o aw
  <2>1. PICK c \in Seq(Bursts) : c = cmd /\ c \o <<>> = c /\ <<>> \o c = c
    BY <1>1
  <2> QED BY <1>2, <2>1 DEF Channels
<1>5. InStepWithMemory
  <2>1. beat.ar = ld.len /\ beat.aw = st.len
    BY <1>2
  <2>2. ar = <<>> \/ ld.len = 0 \/ cmd # <<>>
    BY <1>2 DEF Channels
  <2> QED BY <1>4, <2>1, <2>2 DEF InStepWithMemory
<1>6. BeatsForTheirInsn
  <2>1. SUFFICES ASSUME cmd # <<>>
                 PROVE  LET u == IF Head(cmd).is_load THEN ld ELSE st
                        IN  u.issue_cnt # 0 /\ Issued(u).id = Head(cmd).insn
    BY DEF BeatsForTheirInsn
  <2>2. PICK g, c, l, s, R, B, n :
            /\ g = prog /\ c = cmd /\ l = ld /\ s = st /\ R = ReqInsn /\ B = ReqByte
            /\ n = issued
    OBVIOUS
  <2>3. PICK pos \in [1..Len(c) -> Nat] : Agree(g, c, pos, l, s, R, B, n)
    BY <1>1, <2>2 DEF Ledger
  <2>4. n \in Nat /\ Sized(g, n)
    <3>1. issued \in Nat /\ issued <= Len(prog)
      BY <1>1, ProgramsAssumption DEF Programmed
    <3> QED BY <1>1, <2>2, <3>1, AllSized
  <2>5. Chained(g, c, pos, R, B, n) /\ c \in Seq(Bursts) /\ c # <<>>
    BY <1>1, <2>1, <2>2, <2>3 DEF Agree
  <2>6. /\ c[1].is_load \in BOOLEAN /\ c[1].insn \in Nat /\ c[1].insn <= n
        /\ StartInsn(c, R, 1) = c[1].insn /\ c[1].is_load = is_load(g[c[1].insn].op)
    BY <2>4, <2>5, FirstBurst
  <2>7. PICK F, P : F \in Nat /\ F = c[1].insn /\ P = Front(c, pos, l, s, B)
    BY <2>6
  <2>8. UnitHolds(g, l, TRUE, F, P, n) /\ UnitHolds(g, s, FALSE, F, P, n)
    BY <2>3, <2>6, <2>7 DEF Agree
  <2>81. UnitTyped(l) /\ UnitTyped(s) /\ F \in Nat /\ n \in Nat
    BY <1>1, <2>2, <2>4, <2>7
  <2>9. CASE c[1].is_load
    <3>1. F <= n /\ is_load(g[F].op) = TRUE
      BY <2>6, <2>7, <2>9
    <3>2. l.issue_cnt # 0 /\ Issued(l).id = F
      BY <2>8, <2>81, <3>1, UnitFirst
    <3> QED BY <1>3, <2>1, <2>2, <2>7, <2>9, <3>2
  <2>10. CASE ~c[1].is_load
    <3>1. F <= n /\ is_load(g[F].op) = FALSE
      BY <2>6, <2>7, <2>10
    <3>2. s.issue_cnt # 0 /\ Issued(s).id = F
      BY <2>8, <2>81, <3>1, UnitFirst
    <3> QED BY <1>3, <2>1, <2>2, <2>7, <2>10, <3>2
  <2> QED BY <2>9, <2>10
<1> QED BY <1>5, <1>6 DEF CountedAlike

\* The address generator, the units and memory count the bursts, the beats and the
\* instructions alike, for programs of aligned elements whose unit-stride loads are over
\* within the longest burst (p_vldu, p_vstu, p_addr_generation).
THEOREM AlwaysCountedAlike ==
    Spec /\ AlignedIndices(prog) /\ Countable(prog) => []CountedAlike
<1>1. Init /\ AlignedIndices(prog) => VInv
  BY AInit, UInit DEF VInv
<1>2. VInv /\ [Next]_vars => VInv'
  <2>1. SUFFICES ASSUME VInv, [Next]_vars PROVE VInv'
    OBVIOUS
  <2>2. AlignedIndices(prog)'
    BY <2>1, SameProgram DEF VInv, AlignedIndices
  <2> QED BY <2>1, <2>2, AGNext, CommandsNext, UNext DEF VInv
<1>3. Init /\ AlignedIndices(prog) /\ Countable(prog) => VInv /\ LInv
  BY <1>1, LedgerInit
<1>4. VInv /\ LInv /\ [Next]_vars => (VInv /\ LInv)'
  BY <1>2, LedgerNext
<1>5. VInv /\ LInv => CountedAlike
  BY AllCounted
<1> QED BY <1>3, <1>4, <1>5, PTL DEF Spec
=============================================================================
