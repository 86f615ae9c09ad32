----------------------------- MODULE VLSUProofs -----------------------------
(***************************************************************************)
(* What the vector load/store unit keeps within, proved for any instruc-   *)
(* tions, widths of the bus, pages, bursts, numbers of lanes and queues.   *)
(***************************************************************************)
EXTENDS VLSU, WellFoundedInduction, TLAPS

-----------------------------------------------------------------------------
(* Arithmetic *)

LEMMA Divided ==
    ASSUME NEW a \in Int, NEW w \in Nat \ {0}
    PROVE  /\ a \div w \in Int /\ a % w \in 0..(w - 1)
           /\ (a \div w) * w \in Int
           /\ a = (a \div w) * w + (a % w)
OBVIOUS

LEMMA OneQuotient ==
    ASSUME NEW w \in Nat \ {0}, NEW q \in Int, NEW r \in 0..(w - 1)
    PROVE  q * w \in Int /\ (q * w + r) \div w = q /\ (q * w + r) % w = r
<1>1. q * w \in Int
  BY SMTT(20)
<1>2. (q * w + r) \div w = q
  BY SMTT(30)
<1>3. (q * w + r) % w = r
  BY SMTT(30)
<1> QED BY <1>1, <1>2, <1>3

LEMMA Monotone ==
    ASSUME NEW w \in Nat \ {0}, NEW a \in Int, NEW b \in Int, a <= b
    PROVE  a \div w <= b \div w
BY SMTT(30)

LEMMA Times1 ==
    ASSUME NEW a \in Int, NEW b \in Int, NEW w \in Nat
    PROVE  /\ a * w \in Int /\ (a + b) * w = a * w + b * w
           /\ (a + 1) * w = a * w + w /\ (a - 1) * w = a * w - w
           /\ a <= b => a * w <= b * w
           /\ a < b => a * w + w <= b * w
<1>1. a * w \in Int /\ (a + b) * w = a * w + b * w
      /\ (a + 1) * w = a * w + w /\ (a - 1) * w = a * w - w
  BY SMTT(20)
<1>2. a <= b => a * w <= b * w
  BY SMTT(20)
<1>3. a < b => (a + 1) * w <= b * w
  BY SMTT(20)
<1> QED BY <1>1, <1>2, <1>3

LEMMA Associates ==
    ASSUME NEW a \in Int, NEW b \in Int, NEW c \in Int
    PROVE  (a * b) * c = a * (b * c) /\ a * b = b * a
BY SMTT(20)

\* A width that divides another.
LEMMA Divides ==
    ASSUME NEW n \in Nat \ {0}, NEW w \in Nat \ {0}, n % w = 0
    PROVE  \E k \in Nat \ {0} : n = k * w
<1>1. n = (n \div w) * w
  BY Divided
<1>2. n \div w \in Int
  BY Divided
<1>3. n \div w > 0
  BY <1>1, <1>2, SMTT(20)
<1> QED BY <1>1, <1>2, <1>3

LEMMA Aligned ==
    ASSUME NEW a \in Int, NEW w \in Nat \ {0}
    PROVE  /\ aligned_addr(a, w) \in Int
           /\ aligned_addr(a, w) <= a /\ a < aligned_addr(a, w) + w
           /\ \E q \in Int : aligned_addr(a, w) = q * w
<1>1. PICK q \in Int : q = a \div w
  BY Divided
<1>2. q * w \in Int /\ a % w \in 0..(w - 1) /\ a = q * w + (a % w)
  BY <1>1, Divided
<1> QED BY <1>2 DEF aligned_addr

\* There is one multiple of w so close below.
LEMMA OneAligned ==
    ASSUME NEW a \in Int, NEW w \in Nat \ {0}, NEW q \in Int,
           q * w <= a, a < q * w + w
    PROVE  aligned_addr(a, w) = q * w /\ a % w = a - q * w
<1>1. q * w \in Int
  BY Times1
<1>2. PICK r \in 0..(w - 1) : a = q * w + r
  BY <1>1
<1>3. a % w = r
  BY <1>2, OneQuotient
<1> QED BY <1>1, <1>2, <1>3 DEF aligned_addr

\* The widths of a beat.
LEMMA SizeFacts ==
    ASSUME NEW w \in Sizes
    PROVE  w \in Nat \ {0} /\ AxiBytes \in Nat \ {0}
           /\ \E k \in Nat \ {0} : AxiBytes = k * w
<1>1. AxiBytes \in Nat \ {0}
  BY AxiAssumption
<1>2. w \in Nat \ {0} /\ AxiBytes % w = 0
  BY <1>1 DEF Sizes
<1> QED BY <1>1, <1>2, Divides

\* The bytes of the bus a beat uses, and where they are in memory.
LEMMA BusBytes ==
    ASSUME NEW x \in Int, NEW w \in Sizes,
           NEW lower, lower = x % AxiBytes,
           NEW upper, upper = (aligned_addr(x, w) % AxiBytes) + w - 1
    PROVE  /\ lower \in 0..(AxiBytes - 1) /\ upper \in 0..(AxiBytes - 1)
           /\ lower <= upper
           /\ aligned_addr(x, AxiBytes) + upper = aligned_addr(x, w) + w - 1
<1>0. AxiBytes \in Nat \ {0} /\ w \in Nat \ {0}
  BY SizeFacts
<1>1. PICK k \in Nat \ {0} : AxiBytes = k * w
  BY SizeFacts
<1>2. PICK p \in Int : aligned_addr(x, AxiBytes) = p * AxiBytes
  BY <1>0, Aligned
<1>3. PICK r \in 0..(AxiBytes - 1) : x = p * AxiBytes + r
  <2>1. p * AxiBytes \in Int /\ p * AxiBytes <= x /\ x < p * AxiBytes + AxiBytes
    BY <1>0, <1>2, Aligned, Times1
  <2> QED BY <1>0, <2>1
<1>4. PICK j \in Int : aligned_addr(r, w) = j * w
  <2>1. r \in Int
    BY <1>0
  <2> QED BY <1>0, <2>1, Aligned
<1>5. j * w \in Int /\ j * w <= r /\ r < j * w + w
  BY <1>0, <1>4, Aligned, Times1
<1>6. j >= 0 /\ j < k
  <2>1. ~(j + 1 <= 0)
    <3>1. j + 1 <= 0 => (j + 1) * w <= 0 * w /\ (j + 1) * w = j * w + w
      BY <1>0, Times1
    <3> QED BY <1>0, <1>5, <3>1
  <2>2. ~(k <= j)
    <3>1. k <= j => k * w <= j * w
      BY <1>0, Times1
    <3> QED BY <1>0, <1>1, <1>5, <3>1
  <2> QED BY <2>1, <2>2
<1>7. j * w + w <= AxiBytes
  BY <1>0, <1>1, <1>6, Times1
<1>8. p * AxiBytes \in Int /\ p * AxiBytes = (p * k) * w /\ p * k \in Int
  <2>1. p * k \in Int
    BY Times1
  <2>2. (p * k) * w = p * (k * w)
    BY <1>0, Associates
  <2> QED BY <1>0, <1>1, <2>1, <2>2, Times1
<1>9. aligned_addr(x, w) = p * AxiBytes + j * w
  <2>1. (p * k + j) * w = p * AxiBytes + j * w
    BY <1>0, <1>8, Times1
  <2>2. p * k + j \in Int
    BY <1>8
  <2>3. PICK y \in Int : y = p * k + j
    BY <2>2
  <2>4. y * w = p * AxiBytes + j * w
    BY <2>1, <2>3
  <2>5. y * w <= x /\ x < y * w + w
    <3>1. PICK P, J, r0 : P = p * AxiBytes /\ J = j * w /\ r0 = r
      OBVIOUS
    <3>2. P \in Int /\ J \in Int /\ r0 \in Int /\ x = P + r0 /\ J <= r0 /\ r0 < J + w
      BY <1>0, <1>3, <1>5, <1>8, <3>1
    <3>3. y * w = P + J
      BY <2>4, <3>1
    <3> HIDE <3>1
    <3> QED BY <1>0, <3>2, <3>3
  <2> QED BY <1>0, <2>3, <2>4, <2>5, OneAligned
<1>10. j * w \in 0..(AxiBytes - 1)
  <2>1. 0 * w <= j * w
    BY <1>0, <1>6, Times1
  <2> QED BY <1>0, <1>5, <1>7, <2>1
<1>11. aligned_addr(x, w) % AxiBytes = j * w
  <2>1. PICK c \in 0..(AxiBytes - 1) : c = j * w
    BY <1>10
  <2>2. (p * AxiBytes + c) % AxiBytes = c
    BY <1>0, <2>1, OneQuotient
  <2> QED BY <1>9, <2>1, <2>2
<1>12. lower = r
  BY <1>0, <1>3, OneQuotient
<1> QED BY <1>0, <1>2, <1>3, <1>5, <1>7, <1>8, <1>9, <1>10, <1>11, <1>12

\* A beat is within a page.
LEMMA PageFacts ==
    /\ PageBytes \in Nat \ {0}
    /\ \E n \in Nat \ {0} : PageBytes = n * AxiBytes
<1>1. AxiBytes \in Nat \ {0}
  BY AxiAssumption
<1>2. PICK n \in 1..PageBytes : PageBytes = n * AxiBytes
  BY AxiAssumption
<1>3. n \in Int /\ n >= 1
  BY <1>2
<1>4. 1 * AxiBytes <= n * AxiBytes /\ n * AxiBytes \in Int
  BY <1>1, <1>3, Times1
<1> QED BY <1>1, <1>2, <1>3, <1>4

LEMMA SamePage ==
    ASSUME NEW a \in Int, NEW b \in Int, NEW c \in Int, a <= b, b <= c,
           Page(a) = Page(c)
    PROVE  Page(b) = Page(a)
<1>1. Page(a) <= Page(b) /\ Page(b) <= Page(c)
  BY PageFacts, Monotone DEF Page
<1>2. Page(a) \in Int /\ Page(b) \in Int
  BY PageFacts, Divided DEF Page
<1> QED BY <1>1, <1>2

\* The multiples of a width that divides the page.
LEMMA PageBorder ==
    ASSUME NEW w \in Sizes, NEW a \in Int, NEW q \in Int, a = q * w
    PROVE  /\ Page(a) \in Int /\ (Page(a) + 1) * PageBytes \in Int
           /\ Page(a) * PageBytes <= a
           /\ a + w <= (Page(a) + 1) * PageBytes
           /\ \A x \in Int : /\ Page(a) * PageBytes <= x
                             /\ x < (Page(a) + 1) * PageBytes
                             => Page(x) = Page(a)
           /\ \E z \in Int : (Page(a) + 1) * PageBytes = z * w
<1>0. w \in Nat \ {0} /\ AxiBytes \in Nat \ {0} /\ PageBytes \in Nat \ {0}
  BY SizeFacts, PageFacts
<1>1. PICK k \in Nat \ {0} : AxiBytes = k * w
  BY SizeFacts
<1>2. PICK n \in Nat \ {0} : PageBytes = n * AxiBytes
  BY PageFacts
<1>3. PageBytes = (n * k) * w /\ n * k \in Int
  BY <1>0, <1>1, <1>2, Associates, Times1
<1>4. PICK m : m = Page(a)
  OBVIOUS
<1>5. /\ m \in Int /\ m * PageBytes \in Int /\ m * PageBytes <= a
      /\ a < m * PageBytes + PageBytes
  BY <1>0, <1>4, Divided DEF Page
<1>6. (m + 1) * PageBytes = m * PageBytes + PageBytes
  BY <1>0, <1>5, Times1
<1>7. PICK z \in Int : (m + 1) * PageBytes = z * w
  <2>1. (m + 1) * ((n * k) * w) = ((m + 1) * (n * k)) * w
    BY <1>0, <1>3, <1>5, Associates
  <2>2. (m + 1) * (n * k) \in Int
    BY <1>3, <1>5, SMTT(20)
  <2> QED BY <1>3, <2>1, <2>2
<1>8. q < z
  <2>1. z <= q => z * w <= q * w
    BY <1>0, Times1
  <2> QED BY <1>0, <1>5, <1>6, <1>7, <2>1, Times1
<1>9. q * w + w <= z * w
  BY <1>0, <1>8, Times1
<1>10. ASSUME NEW x \in Int, m * PageBytes <= x, x < (m + 1) * PageBytes
       PROVE  Page(x) = m
  <2>1. PICK r \in 0..(PageBytes - 1) : x = m * PageBytes + r
    BY <1>0, <1>5, <1>6, <1>10
  <2> QED BY <1>0, <1>5, <2>1, OneQuotient DEF Page
<1>11. (m + 1) * PageBytes \in Int
  BY <1>0, <1>5, <1>6
<1>12. a + w <= (m + 1) * PageBytes
  <2>1. q * w \in Int
    BY <1>0, Times1
  <2> QED BY <1>7, <1>9
<1> QED BY <1>4, <1>5, <1>7, <1>10, <1>11, <1>12

\* The next burst begins with what is left of the access and ends within the page.
LEMMA StretchFacts ==
    ASSUME NEW a \in Int, NEW bytes \in Nat \ {0}, NEW w \in Sizes,
           NEW s, s = Stretch(a, bytes, w)
    PROVE  /\ s.start = aligned_addr(a, w) /\ s.start \in Int
           /\ s.end \in Int /\ s.next = s.end + 1
           /\ s.start <= a /\ a <= s.end
           /\ Page(s.start) = Page(s.end)
           /\ Beats(s, w) \in 1..MaxBeats
           /\ (Beats(s, w) - 1) * w \in Int
           /\ s.start + (Beats(s, w) - 1) * w + w - 1 <= s.end
<1>0. w \in Nat \ {0} /\ MaxBeats \in Nat \ {0}
  BY SizeFacts, AxiAssumption
<1> DEFINE start == aligned_addr(a, w)
           next == IF bytes >= MaxBeats * w
                   THEN aligned_addr(a + MaxBeats * w, w)
                   ELSE aligned_addr(a + bytes - 1, w) + w
           page == (Page(start) + 1) * PageBytes
<1>1. PICK q \in Int : start = q * w
  BY <1>0, Aligned
<1>2. start \in Int /\ start <= a /\ a < start + w
  BY <1>0, Aligned
<1>3. next \in Int /\ a < next /\ \E z \in Int : next = z * w
  <2>1. CASE bytes >= MaxBeats * w
    <3>1. PICK L \in Int : L = MaxBeats * w
      BY <1>0, Times1
    <3>2. L >= w
      <4>1. 1 * w <= MaxBeats * w
        BY <1>0, Times1
      <4> QED BY <1>0, <3>1, <4>1
    <3>3. PICK x \in Int : x = a + L
      BY <3>1
    <3>4. /\ aligned_addr(x, w) \in Int /\ x < aligned_addr(x, w) + w
          /\ \E z \in Int : aligned_addr(x, w) = z * w
      BY <1>0, Aligned
    <3>5. next = aligned_addr(x, w)
      BY <2>1, <3>1, <3>3
    <3> QED BY <1>0, <3>1, <3>2, <3>3, <3>4, <3>5
  <2>2. CASE ~(bytes >= MaxBeats * w)
    <3>0. PICK x \in Int : x = a + bytes - 1
      OBVIOUS
    <3>1. /\ aligned_addr(x, w) \in Int
          /\ x < aligned_addr(x, w) + w
      BY <1>0, Aligned
    <3>2. PICK z \in Int : aligned_addr(x, w) = z * w
      BY <1>0, Aligned
    <3>3. next = aligned_addr(x, w) + w
      BY <2>2, <3>0
    <3>4. next = (z + 1) * w
      BY <1>0, <3>2, <3>3, Times1
    <3>5. next \in Int /\ a < next
      BY <1>0, <3>0, <3>1, <3>3
    <3> QED BY <3>4, <3>5
  <2> QED BY <2>1, <2>2
<1>4. /\ Page(start) \in Int /\ page \in Int /\ Page(start) * PageBytes <= start
      /\ start + w <= page
      /\ \A x \in Int : Page(start) * PageBytes <= x /\ x < page => Page(x) = Page(start)
      /\ \E z \in Int : page = z * w
  BY <1>1, <1>2, PageBorder
<1>5. Page(start) * PageBytes \in Int
  BY <1>4, PageFacts, Times1
<1>6. s = IF Page(start) = Page(next - 1)
          THEN [start |-> start, end |-> next - 1, next |-> next]
          ELSE [start |-> start, end |-> page - 1, next |-> page]
  BY DEF Stretch
<1> HIDE DEF start, next, page
<1>7. /\ s.start = start /\ s.end \in Int /\ s.next = s.end + 1 /\ a <= s.end
      /\ Page(s.end) = Page(start) /\ \E z \in Int : s.end = z * w - 1 /\ z * w \in Int
  <2>1. CASE Page(start) = Page(next - 1)
    <3>1. s.start = start /\ s.end = next - 1 /\ s.next = next
      BY <1>6, <2>1
    <3> QED BY <1>0, <1>2, <1>3, <2>1, <3>1
  <2>2. CASE Page(start) # Page(next - 1)
    <3>1. s.start = start /\ s.end = page - 1 /\ s.next = page
      BY <1>6, <2>2
    <3>2. Page(page - 1) = Page(start)
      BY <1>0, <1>2, <1>4, <1>5
    <3> QED BY <1>0, <1>2, <1>4, <3>1, <3>2
  <2> QED BY <2>1, <2>2
<1>8. PICK z \in Int : s.end = z * w - 1 /\ z * w \in Int
  BY <1>7
<1>9. q < z
  <2>1. z <= q => z * w <= q * w
    BY <1>0, Times1
  <2> QED BY <1>1, <1>2, <1>7, <1>8, <2>1
<1>10. PICK n \in Nat : n = z - q - 1
  BY <1>9
<1>11. n * w \in Int /\ s.end - s.start = n * w + (w - 1)
  <2>1. z = (q + n) + 1
    BY <1>10
  <2>2. z * w = (q + n) * w + w /\ (q + n) * w = q * w + n * w /\ n * w \in Int
    BY <1>0, <1>10, <2>1, Times1
  <2> QED BY <1>0, <1>1, <1>2, <1>7, <1>8, <2>2, Times1
<1>12. (s.end - s.start) \div w = n
  <2>1. w - 1 \in 0..(w - 1)
    BY <1>0
  <2>2. (n * w + (w - 1)) \div w = n
    BY <1>0, <2>1, OneQuotient
  <2> QED BY <1>11, <2>2
<1>13. PICK m \in 1..MaxBeats : m = Beats(s, w) /\ m - 1 <= n
  <2>1. Beats(s, w) = Least(MaxBeats, n + 1)
    BY <1>12 DEF Beats
  <2> QED BY <1>0, <1>10, <2>1 DEF Least
<1>14. (m - 1) * w \in Int /\ (m - 1) * w <= n * w
  <2>1. PICK k \in Int : k = m - 1
    BY <1>13
  <2>2. k * w \in Int /\ k * w <= n * w
    BY <1>0, <1>10, <1>13, <2>1, Times1
  <2> QED BY <2>1, <2>2
<1>15. s.start + (m - 1) * w + w - 1 <= s.end
  BY <1>0, <1>2, <1>7, <1>11, <1>14
<1> QED BY <1>2, <1>7, <1>13, <1>14, <1>15 DEF start

-----------------------------------------------------------------------------
(***************************************************************************)
(* Bursts: a burst stays in the page of its address.                       *)
(***************************************************************************)
Bursts == [addr : Int, size : Sizes, len : 0..(MaxBeats - 1), is_load : BOOLEAN, insn : Nat]
InPage(b) == Page(b.addr) = Page(BusAddr(b, b.len, beat_upper_byte(b, b.len)))

\* The bytes of the bus a beat uses.
LEMMA BeatLimits ==
    ASSUME NEW b, b.addr \in Int, b.size \in Sizes, NEW n \in Nat
    PROVE  /\ beat_addr(b, n) \in Int
           /\ beat_lower_byte(b, n) \in 0..(AxiBytes - 1)
           /\ beat_upper_byte(b, n) \in 0..(AxiBytes - 1)
           /\ beat_lower_byte(b, n) <= beat_upper_byte(b, n)
           /\ BusAddr(b, n, beat_upper_byte(b, n)) =
                  aligned_addr(beat_addr(b, n), b.size) + b.size - 1
<1>1. PICK w \in Sizes : w = b.size
  OBVIOUS
<1>2. w \in Nat \ {0}
  BY SizeFacts
<1>3. PICK x \in Int : x = beat_addr(b, n)
  <2>1. n * w \in Int
    BY <1>2, Times1
  <2>2. aligned_addr(b.addr, w) \in Int
    BY <1>2, Aligned
  <2> QED BY <1>1, <2>1, <2>2 DEF beat_addr
<1>4. PICK lower : lower = x % AxiBytes
  OBVIOUS
<1>5. PICK upper : upper = (aligned_addr(x, w) % AxiBytes) + w - 1
  OBVIOUS
<1>6. /\ lower \in 0..(AxiBytes - 1) /\ upper \in 0..(AxiBytes - 1)
      /\ lower <= upper
      /\ aligned_addr(x, AxiBytes) + upper = aligned_addr(x, w) + w - 1
  BY <1>4, <1>5, BusBytes
<1> QED BY <1>1, <1>3, <1>4, <1>5, <1>6 DEF beat_lower_byte, beat_upper_byte, BusAddr

\* One beat.
LEMMA BeatInPage ==
    ASSUME NEW b, b.addr \in Int, b.size \in Sizes, b.len = 0
    PROVE  InPage(b)
<1>1. PICK x \in Int, w \in Sizes : x = b.addr /\ w = b.size
  OBVIOUS
<1>2. w \in Nat \ {0}
  BY SizeFacts
<1>3. PICK a \in Int, q \in Int : a = aligned_addr(x, w) /\ a = q * w /\ a <= x /\ x < a + w
  BY <1>2, Aligned
<1>4. BusAddr(b, b.len, beat_upper_byte(b, b.len)) = a + w - 1
  <2>1. 0 \in Nat /\ beat_addr(b, 0) = x
    BY <1>1 DEF beat_addr
  <2>2. BusAddr(b, 0, beat_upper_byte(b, 0)) = aligned_addr(beat_addr(b, 0), b.size) + b.size - 1
    BY <2>1, BeatLimits
  <2> QED BY <1>1, <1>3, <2>1, <2>2
<1>5. /\ Page(a) \in Int /\ (Page(a) + 1) * PageBytes \in Int
      /\ Page(a) * PageBytes <= a /\ a + w <= (Page(a) + 1) * PageBytes
      /\ \A y \in Int : Page(a) * PageBytes <= y /\ y < (Page(a) + 1) * PageBytes
                         => Page(y) = Page(a)
  BY <1>3, PageBorder
<1>6. Page(a) * PageBytes \in Int
  BY <1>5, PageFacts, Times1
<1>7. Page(x) = Page(a)
  BY <1>2, <1>3, <1>5, <1>6
<1>8. Page(a + w - 1) = Page(a)
  BY <1>2, <1>3, <1>5, <1>6
<1> QED BY <1>1, <1>4, <1>7, <1>8 DEF InPage

\* The burst of a stretch of memory.
LEMMA BurstInPage ==
    ASSUME NEW b, b.addr \in Int, b.size \in Sizes, NEW bytes \in Nat \ {0},
           b.len = Beats(Stretch(b.addr, bytes, b.size), b.size) - 1
    PROVE  b.len \in 0..(MaxBeats - 1) /\ InPage(b)
<1>1. PICK x \in Int, w \in Sizes : x = b.addr /\ w = b.size
  OBVIOUS
<1>2. PICK s : s = Stretch(x, bytes, w)
  OBVIOUS
<1>3. w \in Nat \ {0} /\ MaxBeats \in Nat \ {0}
  BY SizeFacts, AxiAssumption
<1>4. PICK n \in 0..(MaxBeats - 1) : n = b.len /\ Beats(s, w) - 1 = n
  <2>1. Beats(s, w) \in 1..MaxBeats
    BY <1>2, StretchFacts
  <2> QED BY <1>1, <1>2, <1>3, <2>1
<1>5. /\ s.start = aligned_addr(x, w) /\ s.start \in Int /\ s.end \in Int
      /\ s.start <= x /\ x <= s.end
      /\ Page(s.start) = Page(s.end)
      /\ n * w \in Int /\ s.start + n * w + w - 1 <= s.end
  <2>1. /\ s.start = aligned_addr(x, w) /\ s.start \in Int /\ s.end \in Int
        /\ s.start <= x /\ x <= s.end
        /\ Page(s.start) = Page(s.end)
        /\ (Beats(s, w) - 1) * w \in Int
        /\ s.start + (Beats(s, w) - 1) * w + w - 1 <= s.end
    <3>1. x \in Int /\ w \in Sizes /\ bytes \in Nat \ {0} /\ s = Stretch(x, bytes, w)
      BY <1>2
    <3> QED BY ONLY <3>1, StretchFacts, Zenon
  <2> QED BY <1>4, <2>1
<1>6. Page(x) = Page(s.start)
  BY <1>5, SamePage
<1>7. CASE n = 0
  BY <1>4, <1>7, BeatInPage
<1>8. CASE n # 0
  <2>1. PICK q \in Int : s.start = q * w
    BY <1>3, <1>5, Aligned
  <2>2. PICK k \in Int : k = q + n
    BY <1>4
  <2>3. k * w = s.start + n * w
    BY <1>3, <1>4, <2>1, <2>2, Times1
  <2>4. PICK y \in Int : y = s.start + n * w
    BY <1>5
  <2>5. aligned_addr(y, w) = y
    <3>1. k * w = y /\ k * w <= y /\ y < k * w + w
      BY <1>3, <2>3, <2>4
    <3> QED BY <1>3, <3>1, OneAligned
  <2>6. beat_addr(b, n) = y
    BY <1>1, <1>4, <1>5, <1>8, <2>4 DEF beat_addr
  <2>7. BusAddr(b, n, beat_upper_byte(b, n)) = y + w - 1
    BY <1>1, <1>4, <2>5, <2>6, BeatLimits
  <2>8. Page(y + w - 1) = Page(s.start)
    <3>1. s.start <= y + w - 1 /\ y + w - 1 <= s.end /\ y + w - 1 \in Int
      <4>1. 0 * w <= n * w
        BY <1>3, <1>4, Times1
      <4> QED BY <1>3, <1>5, <2>4, <4>1
    <3>2. PICK v \in Int : v = y + w - 1
      BY <3>1
    <3> QED BY <1>5, <3>1, <3>2, SamePage
  <2> QED BY <1>1, <1>4, <1>6, <2>7, <2>8 DEF InPage
<1> QED BY <1>4, <1>7, <1>8

-----------------------------------------------------------------------------
(***************************************************************************)
(* Instructions, their words and their widths.                             *)
(***************************************************************************)

(***************************************************************************)
(* An indexed access whose element is misaligned ends at once, and leaves  *)
(* the words with the other indices to the next one.                       *)
(***************************************************************************)
AlignedIndices(p) ==
    \A n \in 1..Len(p) : p[n].op \in Indexed =>
        \A e \in 1..p[n].vl : ~is_addr_error(p[n].addr + p[n].idx[e], p[n].sew)

Programmed == prog \in Programs /\ issued \in 0..Len(prog)
Insns == {prog[n] : n \in 1..issued}

LEMMA Product ==
    ASSUME NEW a \in Nat, NEW b \in Nat
    PROVE  a * b \in Nat /\ (a # 0 /\ b # 0 => a * b # 0)
<1>1. a * b \in Nat
  BY SMTT(20)
<1>2. a # 0 /\ b # 0 => a * b >= b
  <2>1. a # 0 => 1 * b <= a * b
    BY Times1
  <2> QED BY <2>1
<1> QED BY <1>1, <1>2

LEMMA ProgramInsn ==
    ASSUME NEW p \in Programs, NEW n \in 1..Len(p), NEW i, i = p[n]
    PROVE  /\ InsnOK(i) /\ i.id = n
           /\ i.addr \in Nat /\ i.stride \in Int /\ i.vl \in Nat \ {0}
           /\ i.sew \in Sizes /\ i.isz \in Sizes
           /\ i.sew \in Nat \ {0} /\ i.isz \in Nat \ {0}
           /\ VectorBytes(i) \in Nat \ {0}
<1>1. InsnOK(i) /\ i.id = n
  BY ProgramsAssumption
<1>2. i.addr \in Nat /\ i.stride \in Int /\ i.vl \in Nat \ {0} /\ i.sew \in Sizes /\ i.isz \in Sizes
  BY <1>1 DEF InsnOK
<1>3. i.sew \in Nat \ {0} /\ i.isz \in Nat \ {0}
  BY <1>2, SizeFacts
<1>4. VectorBytes(i) \in Nat \ {0}
  BY <1>2, <1>3, Product DEF VectorBytes
<1> QED BY <1>1, <1>2, <1>3, <1>4

LEMMA InsnFacts ==
    ASSUME Programmed, NEW i \in Insns
    PROVE  /\ InsnOK(i) /\ i.id \in 1..issued /\ prog[i.id] = i
           /\ i.id \in 1..Len(prog) /\ i.id \in Nat
           /\ i.addr \in Nat /\ i.stride \in Int /\ i.vl \in Nat \ {0}
           /\ i.sew \in Sizes /\ i.isz \in Sizes
           /\ i.sew \in Nat \ {0} /\ i.isz \in Nat \ {0}
           /\ VectorBytes(i) \in Nat \ {0}
<1>1. Len(prog) \in Nat
  BY ProgramsAssumption DEF Programmed
<1>2. PICK n \in 1..issued : i = prog[n]
  BY DEF Insns
<1>3. n \in 1..Len(prog)
  BY <1>1 DEF Programmed
<1> QED BY <1>1, <1>2, <1>3, ProgramInsn DEF Programmed

\* What the sequencer issues next is an instruction of the program.
LEMMA NextInsn ==
    ASSUME Programmed, issued < Len(prog), issued' = issued + 1, prog' = prog
    PROVE  /\ Programmed' /\ prog[issued + 1] \in Insns' /\ Insns \subseteq Insns'
<1>1. Len(prog) \in Nat /\ issued \in Nat
  BY ProgramsAssumption DEF Programmed
<1> QED BY <1>1 DEF Programmed, Insns

LEMMA Greatest ==
    ASSUME NEW N \in Nat, NEW S, S \subseteq 1..N, S # {}
    PROVE  \E n \in S : \A m \in S : m <= n
<1> DEFINE T == {N - k : k \in S}
<1>1. T \subseteq Nat /\ T # {}
  <2>1. ASSUME NEW k \in S PROVE N - k \in Nat
    <3>1. k \in 1..N
      OBVIOUS
    <3> QED BY <3>1
  <2>2. PICK k : k \in S
    OBVIOUS
  <2>3. N - k \in T
    BY <2>2
  <2> QED BY <2>1, <2>3
<1>2. PICK x \in T : \A y \in T : ~ (<<y, x>> \in OpToRel(<, Nat))
  BY <1>1, NatLessThanWellFounded, WFMin
<1>3. PICK n \in S : x = N - n
  OBVIOUS
<1>4. ASSUME NEW m \in S PROVE m <= n
  <2>1. N - m \in T /\ N - m \in Nat /\ N - n \in Nat /\ m \in Nat /\ n \in Nat
    BY <1>1, <1>3
  <2>2. ~ (N - m < N - n)
    BY <1>2, <1>3, <2>1 DEF OpToRel
  <2> QED BY <2>1, <2>2
<1> QED BY <1>4

LEMMA NarrowIsSize ==
    ASSUME NEW a \in Int
    PROVE  NarrowWidth(a) \in Sizes
<1>1. AxiBytes \in Nat \ {0}
  BY AxiAssumption
<1> DEFINE S == {w \in 1..AxiBytes : a % w = 0 /\ AxiBytes % w = 0}
<1>2. 1 \in S
  <2>1. a % 1 = 0 /\ AxiBytes % 1 = 0
    BY <1>1, Divided
  <2> QED BY <1>1, <2>1
<1>3. PICK w \in S : \A v \in S : v <= w
  BY <1>1, <1>2, Greatest
<1>4. /\ w \in 1..AxiBytes /\ a % w = 0 /\ AxiBytes % w = 0
      /\ \A v \in 1..AxiBytes : a % v = 0 /\ AxiBytes % v = 0 => v <= w
  BY <1>3
<1>5. NarrowWidth(a) \in 1..AxiBytes /\ AxiBytes % NarrowWidth(a) = 0
  BY <1>4 DEF NarrowWidth
<1> QED BY <1>5 DEF Sizes

LEMMA BusIsSize == AxiBytes \in Sizes
<1>1. AxiBytes \in Nat \ {0}
  BY AxiAssumption
<1>2. AxiBytes = 1 * AxiBytes + 0
  BY <1>1
<1>3. AxiBytes % AxiBytes = 0
  <2>1. (1 * AxiBytes + 0) % AxiBytes = 0
    BY <1>1, OneQuotient
  <2> QED BY <1>2, <2>1
<1> QED BY <1>1, <1>3 DEF Sizes

\* The indices of a word, and the words of the indices.
PerWord(i) == VrfBytes \div i.isz

LEMMA VrfWords == \E a \in Nat \ {0} : VrfBytes = a * AxiBytes
<1>1. VrfBytes \in Nat \ {0} /\ VrfBytes % AxiBytes = 0 /\ AxiBytes \in Nat \ {0}
  BY UnitsAssumption, AxiAssumption
<1> QED BY <1>1, Divides

LEMMA IndexWords ==
    ASSUME NEW i, i.vl \in Nat \ {0}, i.isz \in Sizes, i.id \in Nat,
           NEW n, n = Len(Words(i, i.vl * i.isz))
    PROVE  /\ PerWord(i) \in Nat \ {0} /\ n \in Nat \ {0}
           /\ \E m \in Nat : n = m + 1 /\ m * PerWord(i) < i.vl
           /\ Words(i, i.vl * i.isz) \in Seq([insn : Nat, no : Nat])
           /\ \A k \in 1..n : Words(i, i.vl * i.isz)[k] = [insn |-> i.id, no |-> k - 1]
<1>0. VrfBytes \in Nat \ {0} /\ VrfBytes % AxiBytes = 0 /\ AxiBytes \in Nat \ {0}
  BY UnitsAssumption, AxiAssumption
<1>1. i.vl \in Nat \ {0} /\ i.isz \in Nat \ {0} /\ i.isz \in Sizes /\ i.id \in Nat
  BY SizeFacts
<1>2. PICK vl \in Nat \ {0}, z \in Nat \ {0} : vl = i.vl /\ z = i.isz
  BY <1>1
<1>3. PICK a \in Nat \ {0} : VrfBytes = a * AxiBytes
  BY VrfWords
<1>4. PICK c \in Nat \ {0} : AxiBytes = c * z
  BY <1>1, <1>2, SizeFacts
<1>5. PICK p \in Nat \ {0} : p = a * c
  BY Product
<1>6. VrfBytes = p * z
  BY <1>3, <1>4, <1>5, Associates
<1>7. PerWord(i) = p
  <2>1. (p * z + 0) \div z = p
    BY OneQuotient
  <2> QED BY <1>0, <1>2, <1>6, <2>1 DEF PerWord
<1>8. PICK b \in Nat \ {0} : b = vl * z
  BY Product
<1>9. PICK q \in Int : q = (b + VrfBytes - 1) \div VrfBytes
  <2>1. b + VrfBytes - 1 \in Int
    BY <1>0
  <2> QED BY <1>0, <2>1, Divided
<1>10. q * VrfBytes \in Int /\ q * VrfBytes <= b + VrfBytes - 1
       /\ b + VrfBytes - 1 < q * VrfBytes + VrfBytes
  <2>1. PICK x \in Int : x = b + VrfBytes - 1
    BY <1>0
  <2>2. q * VrfBytes \in Int /\ x % VrfBytes \in 0..(VrfBytes - 1) /\ x = q * VrfBytes + (x % VrfBytes)
    BY <1>0, <1>9, <2>1, Divided
  <2> QED BY <1>0, <2>1, <2>2
<1>11. q >= 1
  <2>1. q <= 0 => q * VrfBytes <= 0 * VrfBytes
    BY <1>0, Times1
  <2> QED BY <1>0, <1>10, <2>1
<1>12. Words(i, i.vl * i.isz) = [k \in 1..q |-> [insn |-> i.id, no |-> k - 1]]
  BY <1>2, <1>8, <1>9 DEF Words
<1>13. Words(i, i.vl * i.isz) \in Seq([insn : Nat, no : Nat]) /\ n = q
  <2>1. \A k \in 1..q : [insn |-> i.id, no |-> k - 1] \in [insn : Nat, no : Nat]
    BY <1>1, <1>11
  <2>2. q \in Nat
    BY <1>11
  <2>3. PICK S : S = [insn : Nat, no : Nat]
    OBVIOUS
  <2>4. PICK W : W = [k \in 1..q |-> [insn |-> i.id, no |-> k - 1]]
    OBVIOUS
  <2>5. W \in [1..q -> S]
    BY <2>1, <2>3, <2>4
  <2>6. W \in Seq(S) /\ Len(W) = q
    BY <2>2, <2>5
  <2> QED BY <1>12, <2>3, <2>4, <2>6
<1>14. \E m \in Nat : q = m + 1 /\ m * p < vl
  <2>1. PICK m \in Nat : m = q - 1
    BY <1>11
  <2>2. m * VrfBytes < b
    <3>1. m * VrfBytes = q * VrfBytes - VrfBytes
      BY <1>0, <2>1, Times1
    <3> QED BY <1>0, <1>10, <3>1
  <2>3. m * VrfBytes = (m * p) * z /\ m * p \in Int
    BY <1>6, Associates, Product
  <2>4. PICK y \in Int : y = m * p
    BY <2>3
  <2>5. ~(vl <= y)
    <3>1. vl <= y => vl * z <= y * z
      BY Times1
    <3>2. b \in Int /\ m * VrfBytes \in Int
      BY <1>0, <2>1, Times1
    <3> QED BY <1>8, <2>2, <2>3, <2>4, <3>1, <3>2
  <2>6. m * p < vl
    BY <2>4, <2>5
  <2> QED BY <1>11, <2>1, <2>6
<1> QED BY <1>2, <1>7, <1>11, <1>12, <1>13, <1>14

-----------------------------------------------------------------------------
(***************************************************************************)
(* The invariant of the address generator: the stretch of memory is that   *)
(* of what is left of the access; the indices that are left are those in   *)
(* the words from the lanes and in the spill register.                     *)
(***************************************************************************)
Stretches == [start : Int, end : Int, next : Int]
IndexWord == [insn : Nat, no : Nat]

AGTyped ==
    /\ ag \in [state : {"IDLE", "ADDRGEN", "ADDRGEN_IDX_OP", "ADDRGEN_IDX_OP_END"},
               insn : Insns \cup {None},
               axi : {"AXI_ADDRGEN_IDLE", "AXI_ADDRGEN_MISALIGNED",
                      "AXI_ADDRGEN_WAITING", "AXI_ADDRGEN_REQUESTING"},
               addr : Int, len : Nat, width : Sizes, stretch : Stretches,
               elm : Nat, cnt : Nat, spill : Seq(Int), error : BOOLEAN]
    /\ Len(ag.spill) <= 2
    /\ idxs \in Seq(IndexWord)

Accessing ==
    /\ ag.state # "IDLE" => ag.insn \in Insns
    /\ ag.state = "ADDRGEN" => ag.insn.op \notin Indexed
    /\ ag.state \in {"ADDRGEN_IDX_OP", "ADDRGEN_IDX_OP_END"} => ag.insn.op \in Indexed
    /\ ag.axi # "AXI_ADDRGEN_IDLE" =>
          ag.state \in {"ADDRGEN", "ADDRGEN_IDX_OP"} /\ ag.len >= 1
    /\ ag.axi = "AXI_ADDRGEN_MISALIGNED" => ag.len = ag.insn.vl
    /\ ag.axi \in {"AXI_ADDRGEN_WAITING", "AXI_ADDRGEN_REQUESTING"} /\ ag.insn.op \in UnitStride =>
          ag.stretch = Stretch(ag.addr, ag.len * ag.insn.sew, ag.width)

\* The indices that are still in words of the lanes.
InWords(i, cnt, elm) ==
    LET n == Len(Words(i, i.vl * i.isz))
    IN  /\ cnt <= i.vl /\ elm < PerWord(i)
        /\ cnt = 0 => idxs = <<>>
        /\ cnt # 0 => (n - Len(idxs)) * PerWord(i) + elm = i.vl - cnt
        /\ \A k \in 1..Len(idxs) : idxs[k].insn = i.id /\ idxs[k].no = n - Len(idxs) + k - 1

Indices ==
    /\ ag.state \in {"IDLE", "ADDRGEN"} => ag.elm = 0
    /\ ag.state # "ADDRGEN_IDX_OP" => idxs = <<>>
    /\ ag.state = "ADDRGEN_IDX_OP" =>
          /\ InWords(ag.insn, ag.cnt, ag.elm)
          /\ (IF ag.axi = "AXI_ADDRGEN_IDLE" THEN ag.insn.vl ELSE ag.len)
                 = ag.cnt + Len(ag.spill)

Spilled ==
    /\ ag.state # "ADDRGEN_IDX_OP" => ag.spill = <<>>
    /\ \A k \in 1..Len(ag.spill) : ~is_addr_error(ag.spill[k], ag.insn.sew)
    /\ ~ag.error

AInv == Programmed /\ AGTyped /\ Accessing /\ Indices /\ Spilled

LEMMA StretchTyped ==
    ASSUME NEW a \in Int, NEW bytes \in Nat, NEW w \in Sizes
    PROVE  Stretch(a, bytes, w) \in Stretches
<1>0. w \in Nat \ {0} /\ MaxBeats \in Nat \ {0}
  BY SizeFacts, AxiAssumption
<1> DEFINE start == aligned_addr(a, w)
           next == IF bytes >= MaxBeats * w
                   THEN aligned_addr(a + MaxBeats * w, w)
                   ELSE aligned_addr(a + bytes - 1, w) + w
           page == (Page(start) + 1) * PageBytes
<1>1. start \in Int
  BY <1>0, Aligned
<1>2. next \in Int
  <2>1. PICK x \in Int, y \in Int : x = a + MaxBeats * w /\ y = a + bytes - 1
    BY <1>0, Product
  <2>2. aligned_addr(x, w) \in Int /\ aligned_addr(y, w) \in Int
    BY <1>0, Aligned
  <2> QED BY <1>0, <2>1, <2>2
<1>3. page \in Int
  <2>1. PICK a0 \in Int : a0 = start
    BY <1>1
  <2>2. a0 \div PageBytes \in Int
    BY PageFacts, Divided
  <2>3. PICK p \in Int : p = Page(start) + 1
    BY <2>1, <2>2 DEF Page
  <2> QED BY <2>3, PageFacts, Times1
<1>4. Stretch(a, bytes, w) =
          IF Page(start) = Page(next - 1)
          THEN [start |-> start, end |-> next - 1, next |-> next]
          ELSE [start |-> start, end |-> page - 1, next |-> page]
  BY DEF Stretch
<1> HIDE DEF start, next, page
<1> QED BY <1>1, <1>2, <1>3, <1>4 DEF Stretches

LEMMA AInit == Init => AInv
<1> SUFFICES ASSUME Init PROVE AInv
  OBVIOUS
<1>1. Programmed
  BY ProgramsAssumption DEF Init, Programmed
<1>2. ag = Quiet /\ idxs = <<>>
  BY DEF Init
<1>3. AGTyped
  BY <1>2, BusIsSize DEF AGTyped, Quiet, Stretches
<1> QED BY <1>1, <1>2, <1>3 DEF AInv, Accessing, Indices, Spilled, Quiet

LEMMA AMisaligned == AInv /\ Misaligned => AInv'
<1> SUFFICES ASSUME AInv, Misaligned PROVE AInv'
  OBVIOUS
<1>1. /\ ag' = [ag EXCEPT !.state = "IDLE"] /\ UNCHANGED <<prog, issued, idxs>>
      /\ ag.state = "ADDRGEN" /\ ag.axi = "AXI_ADDRGEN_IDLE"
  BY DEF Misaligned, quiet_units
<1>2. AGTyped' /\ Programmed' /\ Insns' = Insns
  BY <1>1 DEF AInv, AGTyped, Programmed, Insns
<1> QED BY <1>1, <1>2 DEF AInv, AGTyped, Accessing, Indices, Spilled

LEMMA AIndexedEnd == AInv /\ IndexedEnd => AInv'
<1> SUFFICES ASSUME AInv, IndexedEnd PROVE AInv'
  OBVIOUS
<1>1. /\ ag' = [ag EXCEPT !.state = "IDLE", !.elm = 0, !.error = FALSE]
      /\ UNCHANGED <<prog, issued, idxs>>
      /\ ag.state = "ADDRGEN_IDX_OP_END"
  BY DEF IndexedEnd, quiet_units
<1>2. AGTyped' /\ Programmed' /\ Insns' = Insns
  BY <1>1 DEF AInv, AGTyped, Programmed, Insns
<1> QED BY <1>1, <1>2 DEF AInv, AGTyped, Accessing, Indices, Spilled

LEMMA AAxiWaiting == AInv /\ AxiWaiting => AInv'
<1> SUFFICES ASSUME AInv, AxiWaiting PROVE AInv'
  OBVIOUS
<1>1. /\ ag' = [ag EXCEPT !.axi = "AXI_ADDRGEN_REQUESTING"]
      /\ UNCHANGED <<prog, issued, idxs>>
      /\ ag.axi = "AXI_ADDRGEN_WAITING"
  BY DEF AxiWaiting, quiet_units
<1>2. AGTyped' /\ Programmed' /\ Insns' = Insns
  BY <1>1 DEF AInv, AGTyped, Programmed, Insns
<1> QED BY <1>1, <1>2 DEF AInv, AGTyped, Accessing, Indices, Spilled, InWords

LEMMA AAxiMisaligned == AInv /\ AxiMisaligned => AInv'
<1> SUFFICES ASSUME AInv, AxiMisaligned PROVE AInv'
  OBVIOUS
<1>1. PICK core_st_pending \in BOOLEAN :
          ag' = [ag EXCEPT !.axi = Pending(core_st_pending),
                           !.stretch = Stretch(ag.addr, VectorBytes(ag.insn), ag.width)]
  BY DEF AxiMisaligned
<1>2. UNCHANGED <<prog, issued, idxs>> /\ ag.axi = "AXI_ADDRGEN_MISALIGNED"
  BY DEF AxiMisaligned, quiet_units
<1>3. Pending(core_st_pending) \in {"AXI_ADDRGEN_WAITING", "AXI_ADDRGEN_REQUESTING"}
  BY DEF Pending
<1>4. ag.insn \in Insns
  BY <1>2 DEF AInv, Accessing
<1>5. VectorBytes(ag.insn) \in Nat /\ VectorBytes(ag.insn) = ag.len * ag.insn.sew
  <2>1. ag.len = ag.insn.vl
    BY <1>2 DEF AInv, Accessing
  <2> QED BY <1>4, <2>1, InsnFacts DEF AInv, VectorBytes
<1>6. Stretch(ag.addr, VectorBytes(ag.insn), ag.width) \in Stretches
  BY <1>5, StretchTyped DEF AInv, AGTyped
<1>7. AGTyped' /\ Programmed' /\ Insns' = Insns
  BY <1>1, <1>2, <1>3, <1>6 DEF AInv, AGTyped, Programmed, Insns
<1>8. ag'.stretch = Stretch(ag'.addr, ag'.len * ag'.insn.sew, ag'.width)
  BY <1>1, <1>5 DEF AInv, AGTyped
<1> QED BY <1>1, <1>2, <1>3, <1>7, <1>8 DEF AInv, AGTyped, Accessing, Indices, Spilled, InWords

LEMMA AAxiIdle == AInv /\ AxiIdle => AInv'
<1> SUFFICES ASSUME AInv, AxiIdle PROVE AInv'
  OBVIOUS
<1> DEFINE i == ag.insn
<1>1. PICK core_st_pending \in BOOLEAN :
          ag' = [ag EXCEPT !.addr = i.addr, !.len = i.vl,
                           !.axi = IF Narrow(i) THEN "AXI_ADDRGEN_MISALIGNED"
                                   ELSE Pending(core_st_pending),
                           !.width = IF Narrow(i) THEN NarrowWidth(i.addr) ELSE AxiBytes,
                           !.stretch = Stretch(i.addr, VectorBytes(i), AxiBytes)]
  BY DEF AxiIdle
<1>2. /\ UNCHANGED <<prog, issued, idxs>> /\ ag.axi = "AXI_ADDRGEN_IDLE"
      /\ ag.state \in {"ADDRGEN", "ADDRGEN_IDX_OP"}
  BY DEF AxiIdle, quiet_units
<1>3. Pending(core_st_pending) \in {"AXI_ADDRGEN_WAITING", "AXI_ADDRGEN_REQUESTING"}
  BY DEF Pending
<1>4. i \in Insns
  BY <1>2 DEF AInv, Accessing
<1>5. /\ i.vl \in Nat \ {0} /\ i.addr \in Nat /\ VectorBytes(i) \in Nat
  BY <1>4, InsnFacts DEF AInv
<1>6. Stretch(i.addr, VectorBytes(i), AxiBytes) \in Stretches
  BY <1>5, StretchTyped, BusIsSize
<1>7. NarrowWidth(i.addr) \in Sizes
  BY <1>5, NarrowIsSize
<1>8. AGTyped' /\ Programmed' /\ Insns' = Insns
  <2>1. PICK axi, width, stretch :
            /\ axi = IF Narrow(i) THEN "AXI_ADDRGEN_MISALIGNED" ELSE Pending(core_st_pending)
            /\ width = IF Narrow(i) THEN NarrowWidth(i.addr) ELSE AxiBytes
            /\ stretch = Stretch(i.addr, VectorBytes(i), AxiBytes)
    OBVIOUS
  <2>2. /\ axi \in {"AXI_ADDRGEN_MISALIGNED", "AXI_ADDRGEN_WAITING", "AXI_ADDRGEN_REQUESTING"}
        /\ width \in Sizes /\ stretch \in Stretches
    BY <1>3, <1>6, <1>7, <2>1, BusIsSize
  <2>3. ag' = [ag EXCEPT !.addr = i.addr, !.len = i.vl, !.axi = axi, !.width = width,
                         !.stretch = stretch]
    BY <1>1, <2>1
  <2>4. Programmed' /\ Insns' = Insns
    BY <1>2 DEF AInv, Programmed, Insns
  <2>5. i.addr \in Int /\ i.vl \in Nat
    BY <1>5
  <2>6. AGTyped'
    BY <1>2, <2>2, <2>3, <2>4, <2>5 DEF AInv, AGTyped
  <2> QED BY <2>4, <2>6
<1>9. /\ ag'.state = ag.state /\ ag'.insn = i /\ ag'.len = i.vl /\ ag'.elm = ag.elm
      /\ ag'.cnt = ag.cnt /\ ag'.spill = ag.spill /\ ag'.error = ag.error
      /\ ag'.axi # "AXI_ADDRGEN_IDLE"
  BY <1>1, <1>3 DEF AInv, AGTyped
<1>10. Accessing'
  <2>1. ag'.axi # "AXI_ADDRGEN_MISALIGNED" =>
            ag'.stretch = Stretch(ag'.addr, ag'.len * ag'.insn.sew, ag'.width)
    BY <1>1, <1>9 DEF AInv, AGTyped, VectorBytes
  <2> QED BY <1>2, <1>4, <1>5, <1>8, <1>9, <2>1 DEF AInv, Accessing
<1>11. Indices' /\ Spilled'
  BY <1>2, <1>9 DEF AInv, Indices, Spilled, InWords
<1> QED BY <1>8, <1>10, <1>11 DEF AInv

LEMMA TailFacts ==
    ASSUME NEW S, NEW s \in Seq(S), s # <<>>
    PROVE  /\ Len(s) \in Nat \ {0} /\ Head(s) = s[1] /\ s[1] \in S
           /\ Tail(s) \in Seq(S) /\ Len(Tail(s)) = Len(s) - 1
           /\ \A k \in 1..Len(Tail(s)) : Tail(s)[k] = s[k + 1]
OBVIOUS

LEMMA AppendFacts ==
    ASSUME NEW S, NEW s \in Seq(S), NEW x \in S
    PROVE  /\ Append(s, x) \in Seq(S) /\ Len(Append(s, x)) = Len(s) + 1
           /\ Append(s, x) # <<>> /\ Len(s) \in Nat
           /\ \A k \in 1..Len(s) : Append(s, x)[k] = s[k]
           /\ Append(s, x)[Len(s) + 1] = x
OBVIOUS

LEMMA NoneLeft ==
    ASSUME NEW S, NEW s \in Seq(S), Len(s) = 0
    PROVE  s = <<>>
OBVIOUS

LEMMA ANextIndex == AInv /\ AlignedIndices(prog) /\ NextIndex => AInv'
<1> SUFFICES ASSUME AInv, AlignedIndices(prog), NextIndex PROVE AInv'
  OBVIOUS
<1>1. PICK i \in Insns : i = ag.insn
  BY DEF NextIndex, AInv, Accessing
<1>2. PICK P \in Nat \ {0} : P = PerWord(i)
  BY InsnFacts, IndexWords DEF AInv
<1>3. PICK n \in Nat \ {0} : n = Len(Words(i, i.vl * i.isz))
  BY InsnFacts, IndexWords DEF AInv
<1>4. PICK m \in Nat : n = m + 1 /\ m * P < i.vl
  BY <1>2, <1>3, InsnFacts, IndexWords DEF AInv
<1>5. PICK r \in Nat, d \in Int, z \in Int : r = Len(idxs) /\ d = n - r /\ z = d * P
  <2>1. PICK r \in Nat, d \in Int : r = Len(idxs) /\ d = n - r
    BY DEF AInv, AGTyped
  <2> QED BY <2>1, Times1
<1>51. /\ r \in Nat /\ d \in Int /\ z \in Int /\ P \in Nat \ {0} /\ m \in Nat
       /\ r = Len(idxs) /\ d = n - r /\ n = m + 1
  BY <1>2, <1>3, <1>4, <1>5
<1>6. /\ ag.state = "ADDRGEN_IDX_OP" /\ idxs # <<>> /\ Len(ag.spill) < 2
      /\ UNCHANGED <<prog, issued>>
  BY DEF NextIndex, quiet_units
<1>7. /\ i.vl \in Nat \ {0} /\ i.addr \in Nat /\ prog[i.id] = i /\ i.id \in 1..Len(prog)
      /\ InsnOK(i)
  BY InsnFacts DEF AInv
<1>8. InWords(i, ag.cnt, ag.elm) /\ ag.cnt \in Nat /\ ag.elm \in Nat
  BY <1>1, <1>6 DEF AInv, Indices, AGTyped
<1>9. /\ ag.cnt \in 1..i.vl /\ ag.elm < P
      /\ z + ag.elm = i.vl - ag.cnt
      /\ \A k \in 1..r : idxs[k].insn = i.id /\ idxs[k].no = d + k - 1
  BY <1>2, <1>3, <1>5, <1>6, <1>7, <1>8 DEF InWords
<1>52. /\ i.vl \in Nat /\ ag.cnt \in Nat /\ ag.elm \in Nat /\ ag.cnt >= 1
       /\ ag.cnt <= i.vl /\ ag.elm < P /\ z + ag.elm = i.vl - ag.cnt
  BY <1>7, <1>8, <1>9
<1>10. /\ r # 0 /\ Head(idxs) = idxs[1] /\ idxs[1] \in IndexWord
       /\ Tail(idxs) \in Seq(IndexWord) /\ Len(Tail(idxs)) = r - 1
       /\ \A k \in 1..(r - 1) : Tail(idxs)[k] = idxs[k + 1]
  BY <1>5, <1>6, TailFacts DEF AInv, AGTyped
<1>11. Head(idxs).insn = i.id /\ Head(idxs).no = d
  BY <1>3, <1>5, <1>9, <1>10
<1>12. PICK e \in 1..i.vl : e = z + ag.elm + 1
  BY <1>5, <1>7, <1>8, <1>9
<1>13. PICK x \in Int : x = i.addr + i.idx[e] /\ ~is_addr_error(x, i.sew)
  <2>1. i.op \in Indexed
    BY <1>1, <1>6 DEF AInv, Accessing
  <2>2. i.idx[e] \in Nat
    BY <1>7, <2>1 DEF InsnOK
  <2>3. ~is_addr_error(i.addr + i.idx[e], i.sew)
    BY <1>7, <2>1 DEF AlignedIndices
  <2> QED BY <1>7, <2>2, <2>3
<1>14. PICK c1 \in Nat : c1 = ag.cnt - 1
  BY <1>9
<1>53. c1 + 1 = ag.cnt /\ c1 \in Int
  BY <1>14, <1>52
<1>54. PICK vl \in Int, c0 \in Int, e0 \in Int :
           /\ vl = i.vl /\ c0 = ag.cnt /\ e0 = ag.elm
           /\ z + e0 = vl - c0 /\ c1 + 1 = c0
  BY <1>52, <1>53
<1>55. z + e0 = vl - c0 /\ c1 + 1 = c0
  BY <1>54
<1>56. c0 <= vl /\ 0 <= e0 /\ e0 < P
  BY <1>52, <1>54
<1>15. PICK e1 \in Nat :
           /\ ag.elm = P - 1 => e1 = 0
           /\ ag.elm # P - 1 => e1 = ag.elm + 1
           /\ e1 = IF ag.elm = P - 1 THEN 0 ELSE ag.elm + 1
  BY <1>8
<1>16. /\ ag' = [ag EXCEPT !.spill = Append(ag.spill, x), !.elm = e1, !.cnt = c1]
       /\ idxs' = IF ag.elm = P - 1 \/ c1 = 0 THEN Tail(idxs) ELSE idxs
  <2>1. VrfBytes \div ag.insn.isz = P
    BY <1>1, <1>2 DEF PerWord
  <2>2. e = Head(idxs).no * P + ag.elm + 1
    BY <1>5, <1>11, <1>12
  <2>3. ag.insn.addr + prog[Head(idxs).insn].idx[e] = x
    BY <1>1, <1>7, <1>11, <1>13
  <2> QED BY <1>14, <1>15, <2>1, <2>2, <2>3 DEF NextIndex
<1>17. PICK s1 \in Seq(Int) :
           /\ s1 = Append(ag.spill, x) /\ Len(s1) = Len(ag.spill) + 1
           /\ \A k \in 1..Len(s1) : ~is_addr_error(s1[k], i.sew)
  <2>1. PICK s \in Seq(Int) : s = ag.spill
    BY DEF AInv, AGTyped
  <2>2. \A k \in 1..Len(s) : ~is_addr_error(s[k], i.sew)
    BY <1>1, <2>1 DEF AInv, Spilled
  <2>3. /\ Append(s, x) \in Seq(Int) /\ Len(Append(s, x)) = Len(s) + 1
        /\ Len(s) \in Nat
        /\ \A k \in 1..Len(s) : Append(s, x)[k] = s[k]
        /\ Append(s, x)[Len(s) + 1] = x
    BY AppendFacts
  <2>4. ASSUME NEW k \in 1..Len(Append(s, x)) PROVE ~is_addr_error(Append(s, x)[k], i.sew)
    <3>1. k \in 1..Len(s) \/ k = Len(s) + 1
      BY <2>3
    <3> QED BY <1>13, <2>2, <2>3, <3>1
  <2> QED BY <2>1, <2>3, <2>4
<1>18. AGTyped' /\ Programmed' /\ Insns' = Insns
  <2>1. Programmed' /\ Insns' = Insns
    BY <1>6 DEF AInv, Programmed, Insns
  <2>2. Len(s1) <= 2 /\ idxs' \in Seq(IndexWord)
    BY <1>6, <1>10, <1>16, <1>17 DEF AInv, AGTyped
  <2>3. ag' = [ag EXCEPT !.spill = s1, !.elm = e1, !.cnt = c1]
    BY <1>16, <1>17
  <2>4. AGTyped'
    BY <1>14, <1>15, <1>17, <2>1, <2>2, <2>3 DEF AInv, AGTyped
  <2> QED BY <2>1, <2>4
<1>19. /\ ag'.state = ag.state /\ ag'.insn = i /\ ag'.axi = ag.axi /\ ag'.len = ag.len
       /\ ag'.addr = ag.addr /\ ag'.width = ag.width /\ ag'.stretch = ag.stretch
       /\ ag'.error = ag.error /\ ag'.elm = e1 /\ ag'.cnt = c1 /\ ag'.spill = s1
  BY <1>1, <1>16, <1>17 DEF AInv, AGTyped
<1>20. Accessing'
  BY <1>1, <1>18, <1>19 DEF AInv, Accessing
<1>21. Spilled'
  BY <1>6, <1>17, <1>19 DEF AInv, Spilled
<1>22. InWords(i, c1, e1)'
  <2>0. c1 <= i.vl /\ e1 < P
    <3>1. c1 <= vl
      BY <1>55, <1>56
    <3>2. (e0 = P - 1 => e1 = 0) /\ (e0 # P - 1 => e1 = e0 + 1)
      BY <1>15, <1>54
    <3>3. e1 < P
      BY <1>2, <1>56, <3>2
    <3> QED BY <1>54, <3>1, <3>3
  <2>1. CASE c1 = 0
    <3>1. d <= m - 1 => z <= (m - 1) * P
      BY <1>4, <1>5, Times1
    <3>2. PICK y \in Int : y = m * P /\ (m - 1) * P = y - P
      BY Times1
    <3>3. y < i.vl /\ y \in Int /\ (d <= m - 1 => z <= y - P)
      BY <1>4, <3>1, <3>2
    <3>4. ~(d <= m - 1)
      <4>1. z + ag.elm = i.vl - 1
        BY <1>51, <1>52, <1>14, <2>1
      <4> QED BY <1>51, <1>52, <3>3, <4>1
    <3>5. r = 1
      BY <1>51, <1>10, <3>4
    <3>6. idxs' = <<>>
      <4>1. idxs' = Tail(idxs)
        BY <1>16, <2>1
      <4> QED BY <1>10, <3>5, <4>1, NoneLeft
    <3> QED BY <1>2, <1>7, <2>0, <2>1, <3>6 DEF InWords
  <2>2. CASE c1 # 0 /\ ag.elm = P - 1
    <3>0. idxs' = Tail(idxs)
      BY <1>16, <2>2
    <3>1. Len(idxs') = r - 1 /\ e1 = 0
      BY <1>10, <1>15, <2>2, <3>0
    <3>2. n - Len(idxs') = d + 1
      BY <1>51, <3>1
    <3>3. (d + 1) * P = z + P
      BY <1>5, Times1
    <3>4. z + P + e1 = i.vl - c1
      <4>1. e1 = 0 /\ e0 = P - 1
        BY <1>54, <2>2, <3>1
      <4>2. z + P + e1 = vl - c1
        BY <1>2, <1>55, <4>1
      <4> QED BY <1>54, <4>2
    <3>5. (n - Len(idxs')) * P + e1 = i.vl - c1
      BY <3>2, <3>3, <3>4
    <3>6. \A k \in 1..Len(idxs') :
              idxs'[k].insn = i.id /\ idxs'[k].no = n - Len(idxs') + k - 1
      <4> TAKE k \in 1..Len(idxs')
      <4>1. k + 1 \in 1..r /\ idxs'[k] = idxs[k + 1]
        BY <1>10, <3>0, <3>1
      <4>2. idxs[k + 1].insn = i.id /\ idxs[k + 1].no = d + (k + 1) - 1
        BY <1>9, <4>1
      <4> QED BY <1>51, <3>1, <3>2, <4>1, <4>2
    <3> QED BY <1>2, <1>3, <2>0, <2>2, <3>5, <3>6 DEF InWords
  <2>3. CASE c1 # 0 /\ ag.elm # P - 1
    <3>1. idxs' = idxs /\ e1 = ag.elm + 1
      BY <1>15, <1>16, <2>3
    <3>2. z + e1 = i.vl - c1
      <4>1. e1 = ag.elm + 1
        BY <3>1
      <4>2. e1 = e0 + 1
        BY <1>54, <4>1
      <4>3. z + e1 = vl - c1
        BY <1>55, <4>2
      <4> QED BY <1>54, <4>3
    <3>3. (n - Len(idxs')) * P + e1 = i.vl - c1
      BY <1>5, <3>1, <3>2
    <3> QED BY <1>2, <1>3, <1>5, <1>9, <2>0, <2>3, <3>1, <3>3 DEF InWords
  <2> QED BY <2>1, <2>2, <2>3
<1>23. Indices'
  <2>1. PICK l \in Nat : l = Len(ag.spill)
    BY DEF AInv, AGTyped
  <2>2. (IF ag.axi = "AXI_ADDRGEN_IDLE" THEN i.vl ELSE ag.len) = ag.cnt + l
    <3>1. /\ ag.axi = "AXI_ADDRGEN_IDLE" => ag.insn.vl = ag.cnt + Len(ag.spill)
          /\ ag.axi # "AXI_ADDRGEN_IDLE" => ag.len = ag.cnt + Len(ag.spill)
      BY <1>6 DEF AInv, Indices
    <3> QED BY <1>1, <2>1, <3>1
  <2>3. c1 + Len(s1) = ag.cnt + l
    <3>0. Len(s1) = l + 1
      BY <1>17, <2>1
    <3>1. PICK l1 \in Int : l1 = Len(s1) /\ l1 = l + 1
      BY <3>0
    <3>2. c1 + l1 = c0 + l
      BY <1>55, <3>1
    <3> QED BY <1>54, <3>1, <3>2
  <2>4. (IF ag'.axi = "AXI_ADDRGEN_IDLE" THEN ag'.insn.vl ELSE ag'.len) = ag'.cnt + Len(ag'.spill)
    BY <1>1, <1>19, <2>2, <2>3
  <2>5. InWords(ag.insn, ag.cnt, ag.elm)'
    BY <1>19, <1>22 DEF InWords
  <2> QED BY <1>6, <1>19, <2>4, <2>5 DEF Indices
<1> QED BY <1>18, <1>20, <1>21, <1>23 DEF AInv

-----------------------------------------------------------------------------
(* Requests: the commands are bursts, and each stays in its page. *)

Commands ==
    /\ cmd \in Seq(Bursts) /\ Len(cmd) <= CmdDepth
    /\ \A k \in 1..Len(cmd) : InPage(cmd[k])

LEMMA Requesting ==
    ASSUME AInv, MayRequest
    PROVE  /\ ag.insn \in Insns /\ ag.len >= 1 /\ ag.axi = "AXI_ADDRGEN_REQUESTING"
           /\ ag.state \in {"ADDRGEN", "ADDRGEN_IDX_OP"}
BY DEF AInv, Accessing, MayRequest

LEMMA Requested ==
    ASSUME AInv, Commands, MayRequest,
           NEW a \in Int, NEW w \in Sizes, NEW l \in 0..(MaxBeats - 1), Request(a, w, l),
           \A b \in Bursts : b.addr = a /\ b.size = w /\ b.len = l => InPage(b)
    PROVE  Commands'
<1>1. PICK b : b = [addr |-> a, size |-> w, len |-> l, is_load |-> is_load(ag.insn.op),
                    insn |-> ag.insn.id]
  OBVIOUS
<1>2. ag.insn.id \in Nat
  BY Requesting, InsnFacts DEF AInv
<1>3. is_load(ag.insn.op) \in BOOLEAN
  BY DEF is_load
<1>4. b \in Bursts /\ InPage(b)
  BY <1>1, <1>2, <1>3 DEF Bursts
<1>5. cmd' = Append(cmd, b)
  BY <1>1 DEF Request
<1>6. PICK c : c = cmd /\ c \in Seq(Bursts)
  BY DEF Commands
<1>7. /\ Append(c, b) \in Seq(Bursts) /\ Len(Append(c, b)) = Len(c) + 1 /\ Len(c) \in Nat
      /\ \A k \in 1..Len(c) : Append(c, b)[k] = c[k]
      /\ Append(c, b)[Len(c) + 1] = b
  BY <1>4, <1>6, AppendFacts
<1>8. Len(c) < CmdDepth /\ CmdDepth \in Nat
  BY <1>6, ProgramsAssumption DEF MayRequest
<1>9. ASSUME NEW k \in 1..Len(Append(c, b)) PROVE InPage(Append(c, b)[k])
  <2>1. k \in 1..Len(c) \/ k = Len(c) + 1
    BY <1>7
  <2>2. CASE k \in 1..Len(c)
    <3>1. InPage(c[k])
      BY <1>6, <2>2 DEF Commands
    <3> QED BY <1>7, <2>2, <3>1
  <2>3. CASE k = Len(c) + 1
    BY <1>4, <1>7, <2>3
  <2> QED BY <2>1, <2>2, <2>3
<1> QED BY <1>5, <1>6, <1>7, <1>8, <1>9 DEF Commands

LEMMA CRequestBurst == AInv /\ Commands /\ RequestBurst => Commands'
<1> SUFFICES ASSUME AInv, Commands, RequestBurst PROVE Commands'
  OBVIOUS
<1>1. PICK i \in Insns : i = ag.insn /\ ag.len >= 1 /\ MayRequest /\ i.op \in UnitStride
  BY Requesting DEF RequestBurst
<1>2. PICK a \in Int, w \in Sizes, bytes \in Nat \ {0} :
          a = ag.addr /\ w = ag.width /\ bytes = ag.len * i.sew
  <2>1. ag.len \in Nat \ {0} /\ i.sew \in Nat \ {0}
    BY <1>1, InsnFacts DEF AInv, AGTyped
  <2>2. ag.len * i.sew \in Nat \ {0}
    BY <2>1, Product
  <2> QED BY <2>2 DEF AInv, AGTyped
<1>3. ag.stretch = Stretch(a, bytes, w)
  BY <1>1, <1>2 DEF AInv, Accessing, MayRequest
<1>4. PICK l \in 0..(MaxBeats - 1) : l = Beats(Stretch(a, bytes, w), w) - 1
  <2>1. PICK s : s = Stretch(a, bytes, w)
    OBVIOUS
  <2>2. Beats(s, w) \in 1..MaxBeats /\ MaxBeats \in Nat
    BY <2>1, StretchFacts, AxiAssumption
  <2> QED BY <2>1, <2>2
<1>5. Request(a, w, l)
  BY <1>2, <1>3, <1>4 DEF RequestBurst
<1>6. ASSUME NEW b \in Bursts, b.addr = a, b.size = w, b.len = l
      PROVE  InPage(b)
  BY <1>4, <1>6, BurstInPage
<1> QED BY <1>1, <1>5, <1>6, Requested

LEMMA OneBeat ==
    ASSUME AInv, Commands, MayRequest, NEW a \in Int, NEW w \in Sizes, Request(a, w, 0)
    PROVE  Commands'
<1>1. 0 \in 0..(MaxBeats - 1)
  BY AxiAssumption
<1>2. ASSUME NEW b \in Bursts, b.addr = a, b.size = w, b.len = 0
      PROVE  InPage(b)
  BY <1>2, BeatInPage
<1> QED BY <1>1, <1>2, Requested

LEMMA CRequestStrided == AInv /\ Commands /\ RequestStrided => Commands'
<1> SUFFICES ASSUME AInv, Commands, RequestStrided PROVE Commands'
  OBVIOUS
<1>1. ag.insn.sew \in Sizes
  BY Requesting, InsnFacts DEF RequestStrided, AInv
<1>2. ag.addr \in Int
  BY DEF AInv, AGTyped
<1> QED BY <1>1, <1>2, OneBeat DEF RequestStrided

LEMMA CRequestIndexed == AInv /\ Commands /\ RequestIndexed => Commands'
<1> SUFFICES ASSUME AInv, Commands, RequestIndexed PROVE Commands'
  OBVIOUS
<1>1. ag.insn.sew \in Sizes
  BY Requesting, InsnFacts DEF RequestIndexed, AInv
<1>2. Head(ag.spill) \in Int
  BY TailFacts DEF AInv, AGTyped, RequestIndexed
<1> QED BY <1>1, <1>2, OneBeat DEF RequestIndexed

(* Requests: what is left of the access. *)

LEMMA ARequestBurst == AInv /\ RequestBurst => AInv'
<1> SUFFICES ASSUME AInv, RequestBurst PROVE AInv'
  OBVIOUS
<1>1. PICK i \in Insns : i = ag.insn /\ ag.len >= 1 /\ MayRequest /\ i.op \in UnitStride
  BY Requesting DEF RequestBurst
<1>2. /\ ag.state = "ADDRGEN" /\ ag.axi = "AXI_ADDRGEN_REQUESTING" /\ ~ag.error
      /\ ag.elm = 0 /\ idxs = <<>> /\ ag.spill = <<>>
  <2>1. ag.state \in {"ADDRGEN", "ADDRGEN_IDX_OP"} /\ ag.axi = "AXI_ADDRGEN_REQUESTING"
    BY Requesting DEF RequestBurst
  <2>2. ag.state # "ADDRGEN_IDX_OP"
    BY <1>1 DEF AInv, Accessing, UnitStride, Indexed
  <2> QED BY <2>1, <2>2 DEF AInv, Indices, Spilled
<1>3. UNCHANGED <<prog, issued, idxs>>
  BY DEF RequestBurst, quiet_units
<1>4. PICK sew \in Nat \ {0} : sew = i.sew
  BY InsnFacts DEF AInv
<1>5. PICK next \in Int, w \in Sizes, l0 \in Int, e0 \in Int, a0 \in Int :
          /\ next = ag.stretch.next /\ w = ag.width
          /\ l0 = ag.len /\ e0 = ag.stretch.end /\ a0 = ag.addr
  BY DEF AInv, AGTyped, Stretches
<1>6. PICK left \in Nat : left = Floor0(l0 - (e0 - a0 + 1) \div sew)
  <2>1. PICK x \in Int : x = e0 - a0 + 1
    OBVIOUS
  <2>2. PICK q \in Int : q = x \div sew
    BY Divided
  <2> QED BY <2>1, <2>2 DEF Floor0
<1>7. PICK s \in Stretches : s = Stretch(next, left * sew, w)
  <2>1. left * sew \in Nat
    BY Product
  <2> QED BY <2>1, StretchTyped
<1>8. PICK g : g = [ag EXCEPT !.len = left, !.addr = next, !.stretch = s]
  OBVIOUS
<1>9. ag' = Finished(g)
  <2>1. Floor0(ag.len - (ag.stretch.end - ag.addr + 1) \div ag.insn.sew) = left
    BY <1>1, <1>4, <1>5, <1>6
  <2> QED BY <1>1, <1>4, <1>5, <1>7, <1>8, <2>1 DEF RequestBurst
<1>10. Programmed' /\ Insns' = Insns
  BY <1>3 DEF AInv, Programmed, Insns
<1>11. ~g.error /\ g.len = left /\ g.state = "ADDRGEN"
  BY <1>2, <1>8 DEF AInv, AGTyped
<1>12. CASE left # 0
  <2>1. ag' = g
    BY <1>9, <1>11, <1>12 DEF Finished
  <2>2. AGTyped'
    BY <1>3, <1>8, <1>10, <2>1 DEF AInv, AGTyped
  <2>3. /\ ag'.state = "ADDRGEN" /\ ag'.insn = i /\ ag'.axi = ag.axi /\ ag'.len = left
        /\ ag'.addr = next /\ ag'.width = w /\ ag'.stretch = s
        /\ ag'.error = ag.error /\ ag'.elm = 0 /\ ag'.spill = ag.spill
    BY <1>1, <1>2, <1>5, <1>8, <2>1 DEF AInv, AGTyped
  <2>4. Accessing'
    BY <1>1, <1>2, <1>4, <1>7, <1>10, <1>12, <2>3 DEF AInv, Accessing
  <2>5. Indices' /\ Spilled'
    BY <1>2, <1>3, <2>3 DEF AInv, Indices, Spilled
  <2> QED BY <1>10, <2>2, <2>4, <2>5 DEF AInv
<1>13. CASE left = 0
  <2>1. ag' = [g EXCEPT !.axi = "AXI_ADDRGEN_IDLE", !.state = "IDLE"]
    BY <1>9, <1>11, <1>13 DEF Finished
  <2>2. AGTyped'
    BY <1>3, <1>8, <1>10, <2>1 DEF AInv, AGTyped
  <2>3. /\ ag'.state = "IDLE" /\ ag'.insn = i /\ ag'.axi = "AXI_ADDRGEN_IDLE"
        /\ ag'.error = ag.error /\ ag'.elm = 0 /\ ag'.spill = ag.spill
    BY <1>1, <1>2, <1>8, <2>1 DEF AInv, AGTyped
  <2>4. Accessing'
    BY <2>3 DEF AInv, Accessing
  <2>5. Indices' /\ Spilled'
    BY <1>2, <1>3, <2>3 DEF AInv, Indices, Spilled
  <2> QED BY <1>10, <2>2, <2>4, <2>5 DEF AInv
<1> QED BY <1>12, <1>13

LEMMA ARequestStrided == AInv /\ RequestStrided => AInv'
<1> SUFFICES ASSUME AInv, RequestStrided PROVE AInv'
  OBVIOUS
<1>1. PICK i \in Insns : i = ag.insn /\ ag.len >= 1 /\ MayRequest /\ i.op \notin UnitStride
  BY Requesting DEF RequestStrided
<1>2. /\ ag.state = "ADDRGEN" /\ ag.axi = "AXI_ADDRGEN_REQUESTING" /\ ~ag.error
      /\ ag.elm = 0 /\ idxs = <<>> /\ ag.spill = <<>>
  <2>1. /\ ag.state \in {"ADDRGEN", "ADDRGEN_IDX_OP"} /\ ag.axi = "AXI_ADDRGEN_REQUESTING"
        /\ ag.state # "ADDRGEN_IDX_OP"
    BY Requesting DEF RequestStrided
  <2> QED BY <2>1 DEF AInv, Indices, Spilled
<1>3. UNCHANGED <<prog, issued, idxs>>
  BY DEF RequestStrided, quiet_units
<1>4. PICK left \in Nat, next \in Int : left = ag.len - 1 /\ next = ag.addr + i.stride
  <2>1. ag.len \in Nat /\ ag.addr \in Int /\ i.stride \in Int
    BY InsnFacts DEF AInv, AGTyped
  <2> QED BY <1>1, <2>1
<1>5. PICK g : g = [ag EXCEPT !.len = left, !.addr = next]
  OBVIOUS
<1>6. ag' = Finished(g)
  BY <1>1, <1>4, <1>5 DEF RequestStrided
<1>7. Programmed' /\ Insns' = Insns
  BY <1>3 DEF AInv, Programmed, Insns
<1>8. ~g.error /\ g.len = left /\ g.state = "ADDRGEN"
  BY <1>2, <1>5 DEF AInv, AGTyped
<1>9. CASE left # 0
  <2>1. ag' = g
    BY <1>6, <1>8, <1>9 DEF Finished
  <2>2. AGTyped'
    BY <1>3, <1>5, <1>7, <2>1 DEF AInv, AGTyped
  <2>3. /\ ag'.state = "ADDRGEN" /\ ag'.insn = i /\ ag'.axi = ag.axi /\ ag'.len = left
        /\ ag'.error = ag.error /\ ag'.elm = 0 /\ ag'.spill = ag.spill
    BY <1>1, <1>2, <1>5, <2>1 DEF AInv, AGTyped
  <2>4. Accessing'
    BY <1>1, <1>2, <1>7, <1>9, <2>3 DEF AInv, Accessing
  <2>5. Indices' /\ Spilled'
    BY <1>2, <1>3, <2>3 DEF AInv, Indices, Spilled
  <2> QED BY <1>7, <2>2, <2>4, <2>5 DEF AInv
<1>10. CASE left = 0
  <2>1. ag' = [g EXCEPT !.axi = "AXI_ADDRGEN_IDLE", !.state = "IDLE"]
    BY <1>6, <1>8, <1>10 DEF Finished
  <2>2. AGTyped'
    BY <1>3, <1>5, <1>7, <2>1 DEF AInv, AGTyped
  <2>3. /\ ag'.state = "IDLE" /\ ag'.insn = i /\ ag'.axi = "AXI_ADDRGEN_IDLE"
        /\ ag'.error = ag.error /\ ag'.elm = 0 /\ ag'.spill = ag.spill
    BY <1>1, <1>2, <1>5, <2>1 DEF AInv, AGTyped
  <2>4. Accessing'
    BY <2>3 DEF AInv, Accessing
  <2>5. Indices' /\ Spilled'
    BY <1>2, <1>3, <2>3 DEF AInv, Indices, Spilled
  <2> QED BY <1>7, <2>2, <2>4, <2>5 DEF AInv
<1> QED BY <1>9, <1>10

LEMMA ARequestIndexed == AInv /\ RequestIndexed => AInv'
<1> SUFFICES ASSUME AInv, RequestIndexed PROVE AInv'
  OBVIOUS
<1>1. PICK i \in Insns : i = ag.insn /\ ag.len >= 1 /\ MayRequest
  BY Requesting DEF RequestIndexed
<1>2. /\ ag.state = "ADDRGEN_IDX_OP" /\ ag.axi = "AXI_ADDRGEN_REQUESTING" /\ ~ag.error
      /\ ag.spill # <<>> /\ i.op \in Indexed
  BY <1>1 DEF RequestIndexed, MayRequest, AInv, Spilled, Accessing
<1>3. UNCHANGED <<prog, issued, idxs>>
  BY DEF RequestIndexed, quiet_units
<1>4. PICK t \in Seq(Int), k1 \in Nat :
          /\ t = Tail(ag.spill) /\ k1 = Len(t) /\ k1 <= 2 /\ Len(ag.spill) = k1 + 1
          /\ \A k \in 1..Len(t) : ~is_addr_error(t[k], i.sew)
          /\ ~is_addr_error(Head(ag.spill), i.sew)
  <2>1. PICK s \in Seq(Int) : s = ag.spill /\ s # <<>> /\ Len(s) <= 2
    BY <1>2 DEF AInv, AGTyped
  <2>2. \A k \in 1..Len(s) : ~is_addr_error(s[k], i.sew)
    BY <1>1, <2>1 DEF AInv, Spilled
  <2>3. /\ Len(s) \in Nat \ {0} /\ Head(s) = s[1]
        /\ Tail(s) \in Seq(Int) /\ Len(Tail(s)) = Len(s) - 1
        /\ \A k \in 1..Len(Tail(s)) : Tail(s)[k] = s[k + 1]
    BY <2>1, TailFacts
  <2>4. ASSUME NEW k \in 1..Len(Tail(s)) PROVE ~is_addr_error(Tail(s)[k], i.sew)
    <3>1. k + 1 \in 1..Len(s)
      BY <2>3
    <3>2. Tail(s)[k] = s[k + 1]
      BY <2>3
    <3> QED BY <2>2, <3>1, <3>2
  <2>5. ~is_addr_error(Head(s), i.sew)
    <3>1. 1 \in 1..Len(s)
      BY <2>3
    <3> QED BY <2>2, <2>3, <3>1
  <2>6. PICK t : t = Tail(s) /\ t \in Seq(Int) /\ Len(t) = Len(s) - 1
    BY <2>3
  <2>7. PICK l \in Nat \ {0} : l = Len(s) /\ l <= 2
    BY <2>1, <2>3
  <2>8. PICK k1 \in Nat : k1 = l - 1
    BY <2>7
  <2>9. Len(t) = k1 /\ Len(s) = k1 + 1 /\ k1 <= 2
    BY <2>6, <2>7, <2>8
  <2> QED BY <2>1, <2>4, <2>5, <2>6, <2>9
<1>5. PICK left \in Nat, l0 \in Nat, c0 \in Nat :
          left + 1 = l0 /\ l0 = ag.len /\ c0 = ag.cnt /\ l0 = c0 + k1 + 1
  <2>1. ag.len \in Nat /\ ag.cnt \in Nat /\ ag.len = ag.cnt + Len(ag.spill)
    BY <1>2 DEF AInv, AGTyped, Indices
  <2>2. PICK l0 \in Nat, c0 \in Nat : l0 = ag.len /\ c0 = ag.cnt /\ l0 = c0 + Len(ag.spill)
    BY <2>1
  <2>3. l0 = c0 + k1 + 1
    BY <1>4, <2>2
  <2>4. c0 + k1 \in Nat /\ c0 + k1 + 1 = l0
    BY <2>3
  <2> QED BY <2>2, <2>3, <2>4
<1>6. PICK g : g = [ag EXCEPT !.len = left, !.spill = t, !.error = FALSE]
  OBVIOUS
<1>7. ag' = Finished(g)
  <2>1. ag.len - 1 = left
    <3>1. l0 - 1 = left
      BY <1>5
    <3> QED BY <1>5, <3>1
  <2>2. is_addr_error(Head(ag.spill), ag.insn.sew) = FALSE
    BY <1>1, <1>4 DEF is_addr_error
  <2> QED BY <1>4, <1>6, <2>1, <2>2 DEF RequestIndexed
<1>8. Programmed' /\ Insns' = Insns
  BY <1>3 DEF AInv, Programmed, Insns
<1>9. ~g.error /\ g.len = left /\ g.state = "ADDRGEN_IDX_OP"
  BY <1>2, <1>6 DEF AInv, AGTyped
<1>10. InWords(i, c0, ag.elm)
  BY <1>1, <1>2, <1>5 DEF AInv, Indices
<1>11. CASE left # 0
  <2>1. ag' = g
    BY <1>7, <1>9, <1>11 DEF Finished
  <2>2. AGTyped'
    BY <1>3, <1>4, <1>6, <1>8, <2>1 DEF AInv, AGTyped
  <2>3. /\ ag'.state = "ADDRGEN_IDX_OP" /\ ag'.insn = i /\ ag'.axi = ag.axi /\ ag'.len = left
        /\ ~ag'.error /\ ag'.elm = ag.elm /\ ag'.cnt = c0 /\ ag'.spill = t
    BY <1>1, <1>2, <1>5, <1>6, <2>1 DEF AInv, AGTyped
  <2>4. Accessing'
    <3>1. i.op \notin UnitStride
      BY <1>2 DEF UnitStride, Indexed
    <3>2. left >= 1
      BY <1>11
    <3> QED BY <1>1, <1>2, <1>8, <2>3, <3>1, <3>2 DEF AInv, Accessing
  <2>5. Indices'
    <3>1. left = c0 + k1
      BY <1>5
    <3>2. InWords(ag.insn, ag.cnt, ag.elm)'
      BY <1>3, <1>10, <2>3 DEF InWords
    <3> QED BY <1>2, <1>4, <2>3, <3>1, <3>2 DEF Indices
  <2>6. Spilled'
    BY <1>4, <2>3 DEF Spilled
  <2> QED BY <1>8, <2>2, <2>4, <2>5, <2>6 DEF AInv
<1>12. CASE left = 0
  <2>1. ag' = [g EXCEPT !.axi = "AXI_ADDRGEN_IDLE", !.state = "ADDRGEN_IDX_OP_END"]
    BY <1>7, <1>9, <1>12 DEF Finished
  <2>2. AGTyped'
    BY <1>3, <1>4, <1>6, <1>8, <2>1 DEF AInv, AGTyped
  <2>3. /\ ag'.state = "ADDRGEN_IDX_OP_END" /\ ag'.insn = i /\ ag'.axi = "AXI_ADDRGEN_IDLE"
        /\ ~ag'.error /\ ag'.spill = t
    BY <1>1, <1>6, <2>1 DEF AInv, AGTyped
  <2>4. Accessing'
    BY <1>1, <1>2, <1>8, <2>3 DEF AInv, Accessing
  <2>5. c0 = 0 /\ k1 = 0
    <3>1. c0 + k1 = 0 /\ c0 \in Nat /\ k1 \in Nat
      BY <1>4, <1>5, <1>12
    <3> QED BY <3>1
  <2>6. t = <<>> /\ idxs = <<>>
    BY <1>4, <1>10, <2>5, NoneLeft DEF InWords
  <2>7. Indices' /\ Spilled'
    BY <1>3, <2>3, <2>6 DEF Indices, Spilled
  <2> QED BY <1>8, <2>2, <2>4, <2>7 DEF AInv
<1> QED BY <1>11, <1>12

LEMMA AIssue == AInv /\ Issue => AInv'
<1> SUFFICES ASSUME AInv, Issue PROVE AInv'
  OBVIOUS
<1>1. PICK i : i = prog[issued + 1]
  OBVIOUS
<1>2. /\ issued < Len(prog) /\ ag.state = "IDLE" /\ issued' = issued + 1 /\ prog' = prog
      /\ ag' = [ag EXCEPT !.state = IF i.op \in Indexed THEN "ADDRGEN_IDX_OP" ELSE "ADDRGEN",
                          !.insn = i,
                          !.cnt = IF i.op \in Indexed THEN i.vl ELSE @]
      /\ idxs' = IF i.op \in Indexed THEN idxs \o Words(i, i.vl * i.isz) ELSE idxs
  BY <1>1 DEF Issue
<1>3. Programmed' /\ i \in Insns' /\ Insns \subseteq Insns'
  BY <1>1, <1>2, NextInsn DEF AInv
<1>4. /\ ag.axi = "AXI_ADDRGEN_IDLE" /\ ag.elm = 0 /\ idxs = <<>> /\ ag.spill = <<>> /\ ~ag.error
  BY <1>2 DEF AInv, Accessing, Indices, Spilled
<1>5. CASE i.op \notin Indexed
  <2>1. ag' = [ag EXCEPT !.state = "ADDRGEN", !.insn = i] /\ idxs' = idxs
    BY <1>2, <1>5 DEF AInv, AGTyped
  <2>2. AGTyped'
    BY <1>3, <2>1 DEF AInv, AGTyped
  <2>3. /\ ag'.state = "ADDRGEN" /\ ag'.insn = i /\ ag'.axi = "AXI_ADDRGEN_IDLE"
        /\ ~ag'.error /\ ag'.elm = 0 /\ ag'.spill = <<>>
    BY <1>4, <2>1 DEF AInv, AGTyped
  <2> QED BY <1>3, <1>4, <1>5, <2>1, <2>2, <2>3 DEF AInv, Accessing, Indices, Spilled
<1>6. CASE i.op \in Indexed
  <2>1. PICK vl \in Nat \ {0}, id \in Nat : vl = i.vl /\ id = i.id
    <3>1. prog \in Programs /\ issued + 1 \in 1..Len(prog)
      <4>1. Len(prog) \in Nat /\ issued \in Nat /\ prog \in Programs
        BY ProgramsAssumption DEF AInv, Programmed
      <4> QED BY <1>2, <4>1
    <3>2. i.vl \in Nat \ {0} /\ i.id = issued + 1
      BY <1>1, <3>1, ProgramInsn
    <3> QED BY <3>1, <3>2
  <2>2. i.isz \in Sizes
    <3>1. prog \in Programs /\ issued + 1 \in 1..Len(prog)
      <4>1. Len(prog) \in Nat /\ issued \in Nat /\ prog \in Programs
        BY ProgramsAssumption DEF AInv, Programmed
      <4> QED BY <1>2, <4>1
    <3> QED BY <1>1, <3>1, ProgramInsn
  <2>3. PICK ws : ws = Words(i, i.vl * i.isz)
    OBVIOUS
  <2>31. /\ PerWord(i) \in Nat \ {0} /\ Len(ws) \in Nat \ {0}
         /\ ws \in Seq(IndexWord)
         /\ \A k \in 1..Len(ws) : ws[k] = [insn |-> id, no |-> k - 1]
    <3>1. PICK n : n = Len(ws)
      OBVIOUS
    <3>2. i.vl \in Nat \ {0} /\ i.id \in Nat /\ n = Len(Words(i, i.vl * i.isz))
      BY <2>1, <2>3, <3>1
    <3>3. /\ PerWord(i) \in Nat \ {0} /\ n \in Nat \ {0}
          /\ Words(i, i.vl * i.isz) \in Seq([insn : Nat, no : Nat])
          /\ \A k \in 1..n : Words(i, i.vl * i.isz)[k] = [insn |-> i.id, no |-> k - 1]
      BY <2>2, <3>2, IndexWords
    <3> QED BY <2>1, <2>3, <3>1, <3>3 DEF IndexWord
  <2>32. PICK n \in Nat \ {0}, P \in Nat \ {0} : n = Len(ws) /\ P = PerWord(i)
    BY <2>31
  <2>33. ws \in Seq(IndexWord) /\ \A k \in 1..n : ws[k] = [insn |-> id, no |-> k - 1]
    BY <2>31, <2>32
  <2>4. idxs' = ws
    <3>1. <<>> \o ws = ws
      BY <2>33
    <3> QED BY <1>2, <1>4, <1>6, <2>3, <3>1
  <2>5. ag' = [ag EXCEPT !.state = "ADDRGEN_IDX_OP", !.insn = i, !.cnt = vl]
    BY <1>2, <1>6, <2>1 DEF AInv, AGTyped
  <2>6. AGTyped'
    BY <1>3, <2>33, <2>4, <2>5 DEF AInv, AGTyped
  <2>7. /\ ag'.state = "ADDRGEN_IDX_OP" /\ ag'.insn = i /\ ag'.axi = "AXI_ADDRGEN_IDLE"
        /\ ~ag'.error /\ ag'.elm = 0 /\ ag'.spill = <<>> /\ ag'.cnt = vl
    BY <1>4, <2>5 DEF AInv, AGTyped
  <2>8. Accessing' /\ Spilled'
    BY <1>3, <1>6, <2>7 DEF Accessing, Spilled
  <2>9. InWords(i, vl, 0)'
    <3>0. Len(idxs') = n
      BY <2>32, <2>4
    <3>1. (n - Len(idxs')) * P + 0 = vl - vl
      <4>1. n - n = 0 /\ 0 * P = 0 /\ vl - vl = 0
        BY <2>1, <2>32
      <4>2. (n - n) * P + 0 = vl - vl
        BY <4>1
      <4> QED BY <3>0, <4>2
    <3>2. ASSUME NEW k \in 1..n PROVE ws[k].insn = id /\ ws[k].no = n - n + k - 1
      <4>1. ws[k] = [insn |-> id, no |-> k - 1]
        BY <2>33
      <4>2. k - 1 = n - n + k - 1
        BY <2>32
      <4> QED BY <4>1, <4>2
    <3>3. \A k \in 1..Len(idxs') : idxs'[k].insn = id /\ idxs'[k].no = n - Len(idxs') + k - 1
      <4>1. \A k \in 1..n : idxs'[k].insn = id /\ idxs'[k].no = n - n + k - 1
        BY <2>4, <3>2
      <4> QED BY <3>0, <4>1
    <3>4. n = Len(Words(i, i.vl * i.isz)) /\ P = PerWord(i) /\ vl = i.vl /\ id = i.id
      BY <2>1, <2>3, <2>32
    <3>5. vl <= vl /\ 0 < P /\ vl # 0
      BY <2>1, <2>32
    <3> QED BY <3>1, <3>3, <3>4, <3>5 DEF InWords
  <2>10. Indices'
    BY <2>1, <2>7, <2>9 DEF Indices, InWords
  <2> QED BY <1>3, <2>6, <2>8, <2>10 DEF AInv
<1> QED BY <1>5, <1>6

-----------------------------------------------------------------------------
(* The units only take the first command. *)

TakesCommand == cmd' = cmd \/ (cmd # <<>> /\ cmd' = Tail(cmd))

LEMMA LoadTakes == ASSUME NEW new, LoadCycle(new) PROVE TakesCommand
<1>1. PICK r_valid \in {FALSE} \cup {Reads}, mask_valid \in {FALSE} \cup {masks # <<>>} :
          \E r \in {Read(r_valid, mask_valid)} : \E granted, writes, word :
              LoadStep(new, r, granted, writes, word)
  BY DEF LoadCycle
<1>2. PICK r, granted, writes, word :
          r = Read(r_valid, mask_valid) /\ LoadStep(new, r, granted, writes, word)
  BY <1>1
<1>3. cmd' = IF r.popped THEN Tail(cmd) ELSE cmd
  BY <1>2 DEF LoadStep
<1>4. CASE r_valid
  <2>1. Reads
    BY <1>4
  <2> QED BY <1>3, <2>1 DEF TakesCommand, Reads
<1>5. CASE ~r_valid
  <2>1. ~r.popped
    BY <1>2, <1>5 DEF Read
  <2> QED BY <1>3, <2>1 DEF TakesCommand
<1> QED BY <1>4, <1>5

LEMMA StoreTakes == ASSUME NEW new, StoreCycle(new) PROVE TakesCommand
<1>1. PICK mask_valid \in {FALSE} \cup {masks # <<>>}, w_ready \in BOOLEAN,
           b_valid \in {FALSE} \cup {owed # <<>>} :
          \E sends \in {w_ready /\ Sends(mask_valid)} :
          \E w \in {IF sends THEN WriteBeat(st, Head(cmd))
                    ELSE [unit |-> st, popped |-> FALSE, word |-> FALSE]} :
              StoreStep(new, mask_valid, b_valid, sends, w)
  BY DEF StoreCycle
<1>10. PICK sends \in {w_ready /\ Sends(mask_valid)} :
          \E w \in {IF sends THEN WriteBeat(st, Head(cmd))
                    ELSE [unit |-> st, popped |-> FALSE, word |-> FALSE]} :
              StoreStep(new, mask_valid, b_valid, sends, w)
  BY <1>1
<1>11. PICK w : /\ w = IF sends THEN WriteBeat(st, Head(cmd))
                       ELSE [unit |-> st, popped |-> FALSE, word |-> FALSE]
                /\ cmd' = IF w.popped THEN Tail(cmd) ELSE cmd
  BY <1>10 DEF StoreStep
<1>2. CASE sends
  <2>1. Sends(mask_valid)
    BY <1>2, <1>10
  <2> QED BY <1>11, <2>1 DEF TakesCommand, Sends
<1>3. CASE ~sends
  <2>1. ~w.popped
    BY <1>3, <1>11
  <2> QED BY <1>11, <2>1 DEF TakesCommand
<1> QED BY <1>2, <1>3

LEMMA TakenCommands == Commands /\ TakesCommand => Commands'
<1> SUFFICES ASSUME Commands, TakesCommand PROVE Commands'
  OBVIOUS
<1>1. CASE cmd' = cmd
  BY <1>1 DEF Commands
<1>2. CASE cmd # <<>> /\ cmd' = Tail(cmd)
  <2>1. PICK c : c = cmd /\ c \in Seq(Bursts)
    BY DEF Commands
  <2>2. PICK t : t = Tail(c)
    OBVIOUS
  <2>21. PICK n \in Nat \ {0} : n = Len(c)
    BY <1>2, <2>1, TailFacts
  <2>3. /\ t \in Seq(Bursts) /\ Len(t) = n - 1
        /\ \A k \in 1..Len(t) : t[k] = c[k + 1]
    BY <1>2, <2>1, <2>2, <2>21, TailFacts
  <2>4. ASSUME NEW k \in 1..Len(t) PROVE InPage(t[k])
    <3>1. k + 1 \in 1..n /\ t[k] = c[k + 1]
      BY <2>3
    <3>2. InPage(c[k + 1])
      BY <2>1, <2>21, <3>1 DEF Commands
    <3> QED BY <3>1, <3>2
  <2>5. Len(t) <= CmdDepth
    <3>1. n <= CmdDepth /\ CmdDepth \in Nat
      BY <2>1, <2>21, ProgramsAssumption DEF Commands
    <3> QED BY <2>3, <3>1
  <2> QED BY <1>2, <2>1, <2>2, <2>3, <2>4, <2>5 DEF Commands
<1> QED BY <1>1, <1>2 DEF TakesCommand

LEMMA IssueTakes == Issue => TakesCommand
<1> SUFFICES ASSUME Issue PROVE TakesCommand
  OBVIOUS
<1>1. LoadCycle({prog[issued + 1]}) \/ StoreCycle({prog[issued + 1]})
  BY DEF Issue
<1> QED BY <1>1, LoadTakes, StoreTakes

(* All steps *)

LEMMA AGNext == AInv /\ AlignedIndices(prog) /\ [Next]_vars => AInv'
<1> SUFFICES ASSUME AInv, AlignedIndices(prog), [Next]_vars PROVE AInv'
  OBVIOUS
<1>1. CASE Issue
  BY <1>1, AIssue
<1>2. CASE AddressGenerator
  BY <1>2, AMisaligned, AAxiIdle, AAxiMisaligned, AAxiWaiting, ANextIndex, ARequestBurst,
     ARequestStrided, ARequestIndexed, AIndexedEnd DEF AddressGenerator
<1>3. ASSUME UNCHANGED <<prog, issued, ag, idxs>> PROVE AInv'
  BY <1>3 DEF AInv, Programmed, Insns, AGTyped, Accessing, Indices, InWords, Spilled
<1>4. CASE LoadUnit
  BY <1>3, <1>4 DEF LoadUnit
<1>5. CASE StoreUnit
  BY <1>3, <1>5 DEF StoreUnit
<1>6. CASE UNCHANGED vars
  BY <1>3, <1>6 DEF vars, units, lanes
<1> QED BY <1>1, <1>2, <1>4, <1>5, <1>6 DEF Next

LEMMA CommandsNext == AInv /\ Commands /\ [Next]_vars => Commands'
<1> SUFFICES ASSUME AInv, Commands, [Next]_vars PROVE Commands'
  OBVIOUS
<1>1. CASE Issue
  BY <1>1, IssueTakes, TakenCommands
<1>2. CASE RequestBurst
  BY <1>2, CRequestBurst
<1>3. CASE RequestStrided
  BY <1>3, CRequestStrided
<1>4. CASE RequestIndexed
  BY <1>4, CRequestIndexed
<1>5. ASSUME UNCHANGED cmd PROVE Commands'
  BY <1>5 DEF Commands
<1>6. CASE Misaligned \/ AxiIdle \/ AxiMisaligned \/ AxiWaiting \/ NextIndex \/ IndexedEnd
  BY <1>5, <1>6 DEF Misaligned, AxiIdle, AxiMisaligned, AxiWaiting, NextIndex, IndexedEnd
<1>7. CASE LoadUnit
  BY <1>7, LoadTakes, TakenCommands DEF LoadUnit
<1>8. CASE StoreUnit
  BY <1>8, StoreTakes, TakenCommands DEF StoreUnit
<1>9. CASE UNCHANGED vars
  BY <1>5, <1>9 DEF vars, units
<1> QED BY <1>1, <1>2, <1>3, <1>4, <1>6, <1>7, <1>8, <1>9 DEF Next, AddressGenerator

-----------------------------------------------------------------------------
(***************************************************************************)
(* The books of the load unit.  Of n instructions, the last c are to be    *)
(* issued, the first of these with "left" bytes of its x.  The first one   *)
(* of all has "bytes" bytes to commit, the second is of y bytes.  There    *)
(* are k results in the queue: j of the first instruction, the others of   *)
(* the second.                                                             *)
(***************************************************************************)
Times(k) == IF k = 0 THEN 0 ELSE IF k = 1 THEN VrfBytes ELSE VrfBytes + VrfBytes
Spans(b, j) ==
    \/ j = 0 /\ b = 0
    \/ j = 1 /\ 1 <= b /\ b <= VrfBytes
    \/ j = 2 /\ VrfBytes < b /\ b <= VrfBytes + VrfBytes

Books(n, c, left, bytes, k, x, y) ==
    \/ c = n /\ left + Times(k) = bytes
    \/ /\ c + 1 = n
       /\ \E j \in 0..k : Spans(bytes, j) /\ left + Times(k - j) = x
    \/ /\ c + 2 = n /\ k # 0
       /\ Spans(bytes, k - 1) /\ Spans(y, 1) /\ left = x

LEMMA BooksRead ==
    ASSUME NEW n \in Nat, NEW c \in Nat, NEW left \in Nat, NEW bytes \in Nat \ {0},
           NEW k \in 0..1, NEW x \in Nat, NEW y \in Nat,
           Books(n, c, left, bytes, k, x, y), left > VrfBytes
    PROVE  Books(n, c, left - VrfBytes, bytes, k + 1, x, y)
<1>0. VrfBytes \in Nat \ {0}
  BY UnitsAssumption
<1>1. PICK v \in Nat \ {0} : v = VrfBytes
  BY <1>0
<1>2. CASE c = n /\ left + Times(k) = bytes
  <2>1. left - VrfBytes + Times(k + 1) = bytes
    BY <1>1, <1>2 DEF Times
  <2> QED BY <1>2, <2>1 DEF Books
<1>3. CASE c + 1 = n /\ \E j \in 0..k : Spans(bytes, j) /\ left + Times(k - j) = x
  <2>1. PICK j \in 0..k : Spans(bytes, j) /\ left + Times(k - j) = x
    BY <1>3
  <2>2. j = 1 /\ k = 1
    BY <1>1, <2>1 DEF Spans
  <2>3. left - VrfBytes + Times(k + 1 - j) = x
    BY <1>1, <2>1, <2>2 DEF Times
  <2>4. j \in 0..(k + 1)
    OBVIOUS
  <2> QED BY <1>3, <2>1, <2>3, <2>4 DEF Books
<1>4. CASE c + 2 = n /\ k # 0 /\ Spans(bytes, k - 1) /\ Spans(y, 1) /\ left = x
  BY <1>1, <1>4 DEF Spans
<1> QED BY <1>2, <1>3, <1>4 DEF Books

LEMMA BooksIssued ==
    ASSUME NEW n \in Nat, NEW c \in Nat \ {0}, NEW left \in Nat \ {0}, NEW bytes \in Nat \ {0},
           NEW k \in 0..1, NEW x \in Nat, NEW y \in Nat, NEW next \in Nat,
           Books(n, c, left, bytes, k, x, y), left <= VrfBytes,
           c + 1 = n => x = y
    PROVE  Books(n, c - 1, next, bytes, k + 1, next, y)
<1>1. PICK v \in Nat \ {0} : v = VrfBytes
  BY UnitsAssumption
<1>2. CASE c = n /\ left + Times(k) = bytes
  <2>1. Spans(bytes, k + 1)
    BY <1>1, <1>2 DEF Spans, Times
  <2>2. k + 1 \in 0..(k + 1) /\ next + Times(k + 1 - (k + 1)) = next /\ c - 1 + 1 = n
    BY <1>2 DEF Times
  <2> QED BY <2>1, <2>2 DEF Books
<1>3. CASE c + 1 = n /\ \E j \in 0..k : Spans(bytes, j) /\ left + Times(k - j) = x
  <2>1. PICK j \in 0..k : Spans(bytes, j) /\ left + Times(k - j) = x
    BY <1>3
  <2>2. j = 1 /\ k = 1
    BY <1>1, <2>1 DEF Spans
  <2>3. left = y
    BY <1>3, <2>1, <2>2 DEF Times
  <2>4. Spans(y, 1) /\ Spans(bytes, k)
    BY <1>1, <2>1, <2>2, <2>3 DEF Spans
  <2>5. c - 1 + 2 = n /\ k + 1 # 0 /\ k + 1 - 1 = k
    BY <1>3
  <2> QED BY <2>4, <2>5 DEF Books
<1>4. CASE c + 2 = n /\ k # 0 /\ Spans(bytes, k - 1) /\ Spans(y, 1) /\ left = x
  BY <1>1, <1>4 DEF Spans
<1> QED BY <1>2, <1>3, <1>4 DEF Books

LEMMA BooksCommit ==
    ASSUME NEW n \in Nat, NEW c \in Nat, NEW left \in Nat, NEW bytes \in Nat \ {0},
           NEW k \in 1..2, NEW x \in Nat, NEW y \in Nat,
           Books(n, c, left, bytes, k, x, y)
    PROVE  /\ Floor0(bytes - VrfBytes) \in Nat
           /\ Books(n, c, left, Floor0(bytes - VrfBytes), k - 1, x, y)
<1>1. PICK v \in Nat \ {0} : v = VrfBytes
  BY UnitsAssumption
<1>2. PICK b \in Nat : b = Floor0(bytes - VrfBytes)
  BY <1>1 DEF Floor0
<1>3. ASSUME NEW j \in 0..2, Spans(bytes, j)
      PROVE  j >= 1 /\ Spans(b, j - 1)
  BY <1>1, <1>2, <1>3 DEF Spans, Floor0
<1>4. CASE c = n /\ left + Times(k) = bytes
  <2>1. left + Times(k - 1) = b
    BY <1>1, <1>2, <1>4 DEF Times, Floor0
  <2> QED BY <1>2, <1>4, <2>1 DEF Books
<1>5. CASE c + 1 = n /\ \E j \in 0..k : Spans(bytes, j) /\ left + Times(k - j) = x
  <2>1. PICK j \in 0..k : Spans(bytes, j) /\ left + Times(k - j) = x
    BY <1>5
  <2>2. j >= 1 /\ Spans(b, j - 1)
    BY <1>3, <2>1
  <2>3. j - 1 \in 0..(k - 1) /\ (k - 1) - (j - 1) = k - j
    BY <2>2
  <2> QED BY <1>2, <1>5, <2>1, <2>2, <2>3 DEF Books
<1>6. CASE c + 2 = n /\ k # 0 /\ Spans(bytes, k - 1) /\ Spans(y, 1) /\ left = x
  <2>1. k - 1 >= 1 /\ Spans(b, (k - 1) - 1)
    BY <1>3, <1>6
  <2>2. k - 1 # 0
    BY <2>1
  <2> QED BY <1>2, <1>6, <2>1, <2>2 DEF Books
<1> QED BY <1>2, <1>4, <1>5, <1>6 DEF Books

LEMMA BooksDone ==
    ASSUME NEW n \in Nat \ {0}, NEW c \in Nat, NEW left \in Nat,
           NEW k \in 0..2, NEW x \in Nat, NEW y \in Nat, NEW z \in Nat,
           Books(n, c, left, 0, k, x, y),
           c # 0 => left # 0,
           c = 0 => left = 0 /\ x = 0,
           c # 0 /\ c + 1 = n => x = y
    PROVE  c < n /\ Books(n - 1, c, left, IF n > 1 THEN y ELSE 0, k, x, z)
<1>1. PICK v \in Nat \ {0} : v = VrfBytes
  BY UnitsAssumption
<1>2. Times(k) \in Nat /\ Times(0) = 0
  BY <1>1 DEF Times
<1>3. CASE c = n /\ left + Times(k) = 0
  BY <1>2, <1>3
<1>4. CASE c + 1 = n /\ \E j \in 0..k : Spans(0, j) /\ left + Times(k - j) = x
  <2>1. PICK j \in 0..k : Spans(0, j) /\ left + Times(k - j) = x
    BY <1>4
  <2>2. j = 0
    BY <1>1, <2>1 DEF Spans
  <2>3. left + Times(k) = x
    BY <2>1, <2>2
  <2>4. c = n - 1 /\ x = IF n > 1 THEN y ELSE 0
    BY <1>4
  <2> QED BY <1>4, <2>3, <2>4 DEF Books
<1>5. CASE c + 2 = n /\ k # 0 /\ Spans(0, k - 1) /\ Spans(y, 1) /\ left = x
  <2>1. k = 1 /\ n > 1
    BY <1>1, <1>5 DEF Spans
  <2>2. c + 1 = n - 1 /\ 1 \in 0..k /\ left + Times(k - 1) = x
    BY <1>2, <1>5, <2>1
  <2> QED BY <1>5, <2>1, <2>2 DEF Books
<1> QED BY <1>3, <1>4, <1>5 DEF Books

LEMMA BooksAccept ==
    ASSUME NEW n \in Nat, NEW c \in Nat, NEW left \in Nat, NEW bytes \in Nat,
           NEW k \in 0..2, NEW x \in Nat, NEW y \in Nat, NEW new \in Nat, NEW z \in Nat,
           Books(n, c, left, bytes, k, x, y),
           c = 0 => left = 0 /\ x = 0,
           n = 0 => bytes = 0,
           n >= 2 => z = y
    PROVE  Books(n + 1, c + 1, IF c = 0 THEN new ELSE left, IF n = 0 THEN new ELSE bytes, k,
                 IF c = 0 THEN new ELSE x, z)
<1>1. PICK v \in Nat \ {0} : v = VrfBytes
  BY UnitsAssumption
<1>2. Times(0) = 0 /\ Times(1) = v /\ Times(2) = v + v
  BY <1>1 DEF Times
<1>3. CASE c = n /\ left + Times(k) = bytes
  <2>1. CASE n = 0
    <3>1. Times(k) = 0
      BY <1>1, <1>3, <2>1 DEF Times
    <3> QED BY <1>3, <2>1, <3>1 DEF Books
  <2>2. CASE n # 0
    BY <1>3, <2>2 DEF Books
  <2> QED BY <2>1, <2>2
<1>4. CASE c + 1 = n /\ \E j \in 0..k : Spans(bytes, j) /\ left + Times(k - j) = x
  <2>1. PICK j \in 0..k : Spans(bytes, j) /\ left + Times(k - j) = x
    BY <1>4
  <2>2. CASE c = 0
    <3>1. Times(k - j) = 0
      BY <1>1, <2>1, <2>2 DEF Times
    <3>2. c + 1 + 1 = n + 1 /\ n # 0 /\ new + Times(k - j) = new
      BY <1>4, <3>1
    <3> QED BY <2>1, <2>2, <3>2 DEF Books
  <2>3. CASE c # 0
    <3>1. c + 1 + 1 = n + 1 /\ n # 0
      BY <1>4
    <3> QED BY <2>1, <2>3, <3>1 DEF Books
  <2> QED BY <2>2, <2>3
<1>5. CASE c + 2 = n /\ k # 0 /\ Spans(bytes, k - 1) /\ Spans(y, 1) /\ left = x
  <2>1. c + 1 + 2 = n + 1 /\ n # 0 /\ z = y
    BY <1>5
  <2> QED BY <1>5, <2>1 DEF Books
<1> QED BY <1>3, <1>4, <1>5 DEF Books

-----------------------------------------------------------------------------
(***************************************************************************)
(* Units: their queue of instructions and their position in the word.      *)
(***************************************************************************)
IsSeq(s) == \E S : s \in Seq(S)

LEMMA SeqTail ==
    ASSUME NEW s, IsSeq(s), s # <<>>
    PROVE  IsSeq(Tail(s)) /\ Len(s) \in Nat \ {0} /\ Len(Tail(s)) = Len(s) - 1
<1>1. PICK S : s \in Seq(S)
  BY DEF IsSeq
<1> QED BY <1>1, TailFacts DEF IsSeq

LEMMA SeqAppend ==
    ASSUME NEW s, IsSeq(s), NEW x
    PROVE  IsSeq(Append(s, x)) /\ Len(s) \in Nat /\ Len(Append(s, x)) = Len(s) + 1
<1>1. PICK S : s \in Seq(S)
  BY DEF IsSeq
<1>2. PICK T : T = S \cup {x}
  OBVIOUS
<1>3. s \in Seq(T) /\ x \in T
  BY <1>1, <1>2
<1> QED BY <1>3, AppendFacts DEF IsSeq

LEMMA SeqExcept ==
    ASSUME NEW s, IsSeq(s), NEW k, NEW x
    PROVE  IsSeq([s EXCEPT ![k] = x]) /\ Len([s EXCEPT ![k] = x]) = Len(s)
<1>1. PICK S : s \in Seq(S)
  BY DEF IsSeq
<1>2. PICK T : T = S \cup {x}
  OBVIOUS
<1>3. s \in Seq(T) /\ x \in T
  BY <1>1, <1>2
<1>4. PICK t : t = [s EXCEPT ![k] = x]
  OBVIOUS
<1>5. PICK n \in Nat : n = Len(s) /\ s \in [1..n -> T]
  BY <1>3
<1>6. t \in [1..n -> T]
  BY <1>3, <1>4, <1>5
<1>7. t \in Seq(T) /\ Len(t) = n
  BY <1>6
<1> QED BY <1>4, <1>5, <1>7 DEF IsSeq

\* The bytes of the instruction that is issued, and of the second of all.
Unissued(u) == IF u.issue_cnt = 0 THEN 0 ELSE VectorBytes(Issued(u))
Second(u) == IF Len(u.vinsn) > 1 THEN VectorBytes(u.vinsn[2]) ELSE 0

\* (What is issued so far is not needed: this is about a unit at any time.)
AllInsns == UNION {{p[n] : n \in 1..Len(p)} : p \in Programs}
UnitTyped(u) ==
    /\ u.vinsn \in Seq(AllInsns) /\ u.issue_cnt \in 0..Len(u.vinsn)
    /\ u.issue_bytes \in Nat /\ u.vrf_pnt \in Nat /\ u.len \in 0..(MaxBeats - 1)

\* The position in the word is before the end of the word and of the instruction.
InWord(u) ==
    /\ u.vrf_pnt < VrfBytes
    /\ u.issue_cnt = 0 => u.vrf_pnt = 0 /\ u.issue_bytes = 0
    /\ u.issue_cnt # 0 => u.vrf_pnt < u.issue_bytes

LoadFields == {"vinsn", "issue_cnt", "issue_bytes", "commit_bytes", "len", "r_pnt",
               "vrf_pnt", "word", "result_queue", "final_gnt"}
LoadTyped(u) ==
    /\ DOMAIN u = LoadFields
    /\ UnitTyped(u) /\ u.commit_bytes \in Nat /\ u.r_pnt \in Nat
    /\ IsSeq(u.result_queue) /\ Len(u.result_queue) \in 0..2

InBooks(u) ==
    Books(Len(u.vinsn), u.issue_cnt, u.issue_bytes, u.commit_bytes, Len(u.result_queue),
          Unissued(u), Second(u))

\* Within a cycle, and at its start.
LoadKept(u) == LoadTyped(u) /\ InWord(u) /\ InBooks(u)
LoadOK(u) == LoadKept(u) /\ (u.commit_bytes = 0 <=> u.vinsn = <<>>)

\* The byte of the beat the load unit has come to.
Room(b, n) == beat_upper_byte(b, n) - beat_lower_byte(b, n) + 1
InBeat(u, b) == u.r_pnt # 0 => u.r_pnt < Room(b, u.len)

LEMMA UnitBytes ==
    ASSUME NEW u, UnitTyped(u)
    PROVE  /\ Len(u.vinsn) \in Nat
           /\ Unissued(u) \in Nat /\ Second(u) \in Nat
           /\ u.issue_cnt # 0 => Unissued(u) # 0
           /\ u.issue_cnt = 0 => Unissued(u) = 0
           /\ u.issue_cnt # 0 /\ u.issue_cnt + 1 = Len(u.vinsn) => Unissued(u) = Second(u)
           /\ \A k \in 1..Len(u.vinsn) : VectorBytes(u.vinsn[k]) \in Nat \ {0}
<1>1. PICK n \in Nat : n = Len(u.vinsn)
  BY DEF UnitTyped
<1>2. ASSUME NEW k \in 1..n PROVE VectorBytes(u.vinsn[k]) \in Nat \ {0}
  <2>1. u.vinsn[k] \in AllInsns
    BY <1>1 DEF UnitTyped
  <2> QED BY <2>1, ProgramInsn DEF AllInsns
<1>3. PICK c \in 0..n : c = u.issue_cnt
  BY <1>1 DEF UnitTyped
<1>4. Second(u) \in Nat
  <2>1. CASE n > 1
    <3>1. 2 \in 1..n
      BY <2>1
    <3> QED BY <1>1, <1>2, <2>1, <3>1 DEF Second
  <2>2. CASE ~(n > 1)
    BY <1>1, <2>2 DEF Second
  <2> QED BY <2>1, <2>2
<1>5. CASE c = 0
  BY <1>1, <1>2, <1>3, <1>4, <1>5 DEF Unissued
<1>6. CASE c # 0
  <2>1. PICK k \in 1..n : k = n - c + 1
    BY <1>6
  <2>2. Unissued(u) = VectorBytes(u.vinsn[k])
    BY <1>1, <1>3, <1>6, <2>1 DEF Unissued, Issued
  <2>3. c + 1 = n => k = 2 /\ n > 1
    BY <1>6, <2>1
  <2>4. c + 1 = n => Unissued(u) = Second(u)
    BY <1>1, <2>2, <2>3 DEF Second
  <2> QED BY <1>1, <1>2, <1>3, <1>4, <1>6, <2>2, <2>4
<1> QED BY <1>5, <1>6

\* The rest of a word: what a unit moves at once is no more than that.
LEMMA Moved ==
    ASSUME NEW u, InWord(u), u.vrf_pnt \in Nat, u.issue_bytes \in Nat, u.issue_cnt # 0,
           NEW room \in Nat, NEW n, n = ValidBytes(u, room)
    PROVE  /\ n \in Nat /\ n <= room
           /\ u.vrf_pnt + n <= VrfBytes /\ u.vrf_pnt + n <= u.issue_bytes
<1>1. VrfBytes \in Nat \ {0}
  BY UnitsAssumption
<1> QED BY <1>1 DEF ValidBytes, Least, InWord

-----------------------------------------------------------------------------
(* The load unit and the store unit *)

\* n bytes of a beat are copied to the word.
Copied(q, n, word) == [q EXCEPT !.r_pnt = @ + n, !.vrf_pnt = @ + n, !.word = word]

\* Copying bytes of a beat, and ending a word by it.
LEMMA Stored ==
    ASSUME NEW q, LoadTyped(q), NEW n \in Nat, NEW word, NEW c,
           c = Copied(q, n, word),
           NEW s, s = NextWord(Enqueue(c))
    PROVE  /\ DOMAIN s = LoadFields /\ s.vinsn = q.vinsn /\ s.issue_cnt = q.issue_cnt
           /\ s.commit_bytes = q.commit_bytes /\ s.len = q.len /\ s.r_pnt = q.r_pnt + n
           /\ c.r_pnt = q.r_pnt + n
           /\ WordEnds(c) <=> q.vrf_pnt + n = VrfBytes \/ q.vrf_pnt + n = q.issue_bytes
           /\ ~WordEnds(c) => /\ s.result_queue = q.result_queue /\ s.vrf_pnt = q.vrf_pnt + n
                              /\ s.issue_bytes = q.issue_bytes
           /\ WordEnds(c) => /\ s.vrf_pnt = 0 /\ s.issue_bytes = Floor0(q.issue_bytes - VrfBytes)
                             /\ IsSeq(s.result_queue)
                             /\ Len(s.result_queue) = Len(q.result_queue) + 1
<1>1. /\ DOMAIN c = LoadFields /\ c.vinsn = q.vinsn /\ c.issue_cnt = q.issue_cnt
      /\ c.commit_bytes = q.commit_bytes /\ c.len = q.len /\ c.r_pnt = q.r_pnt + n
      /\ c.vrf_pnt = q.vrf_pnt + n /\ c.issue_bytes = q.issue_bytes
      /\ c.result_queue = q.result_queue
  BY DEF Copied, LoadTyped, LoadFields
<1>2. WordEnds(c) <=> q.vrf_pnt + n = VrfBytes \/ q.vrf_pnt + n = q.issue_bytes
  BY <1>1 DEF WordEnds
<1>3. CASE ~WordEnds(c)
  <2>1. s = c
    BY <1>3 DEF Enqueue, NextWord
  <2> QED BY <1>1, <1>2, <1>3, <2>1
<1>4. CASE WordEnds(c)
  <2>1. PICK x : Enqueue(c) = [c EXCEPT !.result_queue = Append(@, x), !.word = {}]
    BY <1>4 DEF Enqueue
  <2>2. PICK d : d = Enqueue(c)
    OBVIOUS
  <2>3. /\ DOMAIN d = LoadFields /\ d.vinsn = c.vinsn /\ d.issue_cnt = c.issue_cnt
        /\ d.commit_bytes = c.commit_bytes /\ d.len = c.len /\ d.r_pnt = c.r_pnt
        /\ d.vrf_pnt = c.vrf_pnt /\ d.issue_bytes = c.issue_bytes
        /\ d.result_queue = Append(c.result_queue, x)
    BY <1>1, <2>1, <2>2 DEF LoadFields
  <2>4. WordEnds(d)
    BY <1>4, <2>3 DEF WordEnds
  <2>5. s = [d EXCEPT !.vrf_pnt = 0, !.issue_bytes = Floor0(@ - VrfBytes)]
    BY <2>2, <2>4 DEF NextWord
  <2>6. /\ DOMAIN s = LoadFields /\ s.vinsn = d.vinsn /\ s.issue_cnt = d.issue_cnt
        /\ s.commit_bytes = d.commit_bytes /\ s.len = d.len /\ s.r_pnt = d.r_pnt
        /\ s.vrf_pnt = 0 /\ s.issue_bytes = Floor0(d.issue_bytes - VrfBytes)
        /\ s.result_queue = d.result_queue
    BY <2>3, <2>5 DEF LoadFields
  <2>7. IsSeq(d.result_queue) /\ Len(d.result_queue) = Len(q.result_queue) + 1
    BY <1>1, <2>3, SeqAppend DEF LoadTyped
  <2> QED BY <1>1, <1>2, <1>4, <2>3, <2>6, <2>7
<1> QED BY <1>3, <1>4

\* The next instruction is issued.
LEMMA Finishes ==
    ASSUME NEW q, UnitTyped(q), q.issue_cnt # 0,
           NEW e, e.vinsn = q.vinsn, e.issue_cnt = q.issue_cnt,
           "vinsn" \in DOMAIN e, "issue_cnt" \in DOMAIN e, "issue_bytes" \in DOMAIN e,
           NEW f, f = FinishIssue(e)
    PROVE  /\ DOMAIN f = DOMAIN e /\ f.issue_cnt = q.issue_cnt - 1 /\ f.vinsn = q.vinsn
           /\ f.issue_bytes \in Nat /\ f.issue_bytes = Unissued(f)
           /\ f.issue_cnt # 0 => f.issue_bytes # 0
           /\ f.issue_cnt = 0 => f.issue_bytes = 0
           /\ \A x \in DOMAIN e \ {"issue_cnt", "issue_bytes"} : f[x] = e[x]
<1>0. PICK n \in Nat : n = Len(q.vinsn)
  BY DEF UnitTyped
<1>1. PICK c \in 1..n : n = Len(q.vinsn) /\ c = q.issue_cnt
  BY <1>0 DEF UnitTyped
<1>2. PICK next : next = IF c > 1 THEN VectorBytes(q.vinsn[n - c + 2]) ELSE 0
  OBVIOUS
<1>3. f = [e EXCEPT !.issue_cnt = c - 1, !.issue_bytes = next]
  BY <1>1, <1>2 DEF FinishIssue
<1>4. /\ DOMAIN f = DOMAIN e /\ f.issue_cnt = c - 1 /\ f.vinsn = q.vinsn
      /\ f.issue_bytes = next
      /\ \A x \in DOMAIN e \ {"issue_cnt", "issue_bytes"} : f[x] = e[x]
  BY <1>3
<1>5. CASE c = 1
  <2>1. next = 0 /\ f.issue_cnt = 0
    BY <1>2, <1>4, <1>5
  <2> QED BY <1>1, <1>4, <2>1 DEF Unissued
<1>6. CASE c > 1
  <2>1. PICK k \in 1..n : k = n - c + 2
    BY <1>6
  <2>2. next = VectorBytes(q.vinsn[k]) /\ next \in Nat \ {0}
    BY <1>1, <1>2, <1>6, <2>1, UnitBytes
  <2>3. n - (c - 1) + 1 = k /\ c - 1 # 0
    BY <1>6, <2>1
  <2>4. Unissued(f) = next
    BY <1>1, <1>4, <2>2, <2>3 DEF Unissued, Issued
  <2> QED BY <1>1, <1>4, <2>2, <2>3, <2>4
<1> QED BY <1>5, <1>6

\* The beat is taken.
NextBeat(s) == [s EXCEPT !.r_pnt = 0, !.len = (@ + 1) % MaxBeats]

\* What a burst leaves of the positions.
LEMMA Positions ==
    ASSUME NEW s, DOMAIN s = LoadFields, s.len \in 0..(MaxBeats - 1), s.r_pnt \in Nat, NEW b,
           NEW t, t = s \/ t = NextBeat(s),
           NEW e, e = EndBurst(t, b)
    PROVE  /\ DOMAIN e = LoadFields /\ e.len \in 0..(MaxBeats - 1) /\ e.r_pnt \in Nat
           /\ \A x \in LoadFields \ {"len", "r_pnt"} : e[x] = s[x]
           /\ BurstEnds(t, b) => e.r_pnt = 0
           /\ t.r_pnt = 0 => e.r_pnt = 0
           /\ t = NextBeat(s) => t.r_pnt = 0
           /\ ~BurstEnds(t, b) /\ t = s => e = s
<1>1. MaxBeats \in Nat \ {0}
  BY AxiAssumption
<1>2. (s.len + 1) % MaxBeats \in 0..(MaxBeats - 1)
  <2>1. PICK l \in Nat : l = s.len
    BY <1>1
  <2>2. l + 1 \in Int
    OBVIOUS
  <2> QED BY <1>1, <2>1, <2>2, Divided
<1>3. /\ DOMAIN t = LoadFields /\ t.len \in 0..(MaxBeats - 1) /\ t.r_pnt \in Nat
      /\ \A x \in LoadFields \ {"len", "r_pnt"} : t[x] = s[x]
      /\ t = NextBeat(s) => t.r_pnt = 0
  <2>0. t = NextBeat(s) => t.r_pnt = 0
    BY DEF NextBeat, LoadFields
  <2>1. CASE t = s
    BY <2>0, <2>1
  <2>2. CASE t = NextBeat(s)
    <3>1. /\ DOMAIN t = LoadFields /\ t.len = (s.len + 1) % MaxBeats /\ t.r_pnt = 0
          /\ \A x \in LoadFields \ {"len", "r_pnt"} : t[x] = s[x]
      BY <2>2 DEF NextBeat, LoadFields
    <3> QED BY <1>2, <3>1
  <2> QED BY <2>1, <2>2
<1>4. e = t \/ e = [t EXCEPT !.len = 0, !.r_pnt = 0]
  BY DEF EndBurst
<1>5. BurstEnds(t, b) => e = [t EXCEPT !.len = 0, !.r_pnt = 0]
  BY DEF EndBurst
<1>6. ~BurstEnds(t, b) => e = t
  BY DEF EndBurst
<1>7. 0 \in 0..(MaxBeats - 1) /\ 0 \in Nat
  BY <1>1
<1> QED BY <1>3, <1>4, <1>5, <1>6, <1>7 DEF LoadFields

\* The parts of a read, one after another.
Moves(q, unmasked, room) == IF Loads(q, unmasked) THEN ValidBytes(q, room) ELSE 0

Parts(q, b, lower, upper, n, r, word, taken, c, s, t, e) ==
    /\ taken \in BOOLEAN
    /\ c = Copied(q, n, word)
    /\ s = NextWord(Enqueue(c))
    /\ taken <=> c.r_pnt = upper - lower + 1 \/ s.issue_bytes = 0
    /\ t = IF taken THEN NextBeat(s) ELSE s
    /\ e = EndBurst(t, b)
    /\ r.unit = IF e.issue_bytes = 0 THEN FinishIssue(e) ELSE e
    /\ r.popped = BurstEnds(t, b)
    /\ r.taken <=> taken

LEMMA ReadParts ==
    ASSUME NEW q, NEW b, NEW data, NEW unmasked, NEW mask,
           NEW r, r = ReadBeat(q, b, data, unmasked, mask),
           NEW lower, lower = beat_lower_byte(b, q.len),
           NEW upper, upper = beat_upper_byte(b, q.len),
           NEW n, n = Moves(q, unmasked, upper - lower - q.r_pnt + 1)
    PROVE  \E word, taken, c, s, t, e :
               Parts(q, b, lower, upper, n, r, word, taken, c, s, t, e)
<1> DEFINE Lower == beat_lower_byte(b, q.len)
           Upper == beat_upper_byte(b, q.len)
           N == IF Loads(q, unmasked) THEN ValidBytes(q, Upper - Lower - q.r_pnt + 1) ELSE 0
           Word == IF N = 0 THEN q.word ELSE q.word \cup BeatBytes(q, Lower, Upper, data, mask)
           C == [q EXCEPT !.r_pnt = @ + N, !.vrf_pnt = @ + N, 
                          !.word = IF N = 0 THEN @
                                   ELSE @ \cup BeatBytes(q, Lower, Upper, data, mask)]
           S == NextWord(Enqueue(C))
           Taken == C.r_pnt = Upper - Lower + 1 \/ S.issue_bytes = 0
           T == IF Taken THEN NextBeat(S) ELSE S
           E == EndBurst(T, b)
<1>1. r = [unit |-> IF E.issue_bytes = 0 THEN FinishIssue(E) ELSE E,
           taken |-> Taken, popped |-> BurstEnds(T, b),
           unmasks |-> WordEnds(C) /\ Issued(q).masked]
  BY Zenon DEF ReadBeat, NextBeat
<1> HIDE DEF E
<1>2. E = EndBurst(T, b)
  BY DEF E
<1> HIDE DEF T
<1>3. T = IF Taken THEN NextBeat(S) ELSE S
  BY DEF T
<1> HIDE DEF Taken
<1>4. Taken <=> C.r_pnt = Upper - Lower + 1 \/ S.issue_bytes = 0
  BY DEF Taken
<1> HIDE DEF S
<1>5. S = NextWord(Enqueue(C))
  BY DEF S
<1> HIDE DEF C
<1>6. C = Copied(q, N, Word)
  BY DEF C, Copied
<1>7. n = N /\ lower = Lower /\ upper = Upper
  BY DEF Moves
<1> HIDE DEF N, Word, Lower, Upper
<1>8. r.unit = (IF E.issue_bytes = 0 THEN FinishIssue(E) ELSE E) /\ r.popped = BurstEnds(T, b)
      /\ r.taken = Taken
  BY <1>1
<1>9. PICK taken \in BOOLEAN : taken <=> Taken
  OBVIOUS
<1>91. r.taken <=> taken
  BY <1>8, <1>9
<1>10. C = Copied(q, n, Word)
  BY <1>6, <1>7
<1>11. taken <=> C.r_pnt = upper - lower + 1 \/ S.issue_bytes = 0
  BY <1>4, <1>7, <1>9
<1>12. T = IF taken THEN NextBeat(S) ELSE S
  BY <1>3, <1>9
<1>13. Parts(q, b, lower, upper, n, r, Word, taken, C, S, T, E)
  BY <1>2, <1>5, <1>8, <1>9, <1>91, <1>10, <1>11, <1>12 DEF Parts
<1> QED BY <1>13

LEMMA ReadKeeps ==
    ASSUME NEW q, LoadKept(q), q.commit_bytes # 0, q.issue_cnt # 0,
           Len(q.result_queue) \in 0..1, NEW b \in Bursts, InBeat(q, b),
           NEW data, NEW unmasked, NEW mask, NEW r, r = ReadBeat(q, b, data, unmasked, mask)
    PROVE  /\ LoadKept(r.unit) /\ r.unit.vinsn = q.vinsn
           /\ Len(r.unit.result_queue) >= Len(q.result_queue)
           /\ r.unit.commit_bytes = q.commit_bytes
           /\ r.popped => r.unit.r_pnt = 0
           /\ ~r.popped => InBeat(r.unit, b)
<1>1. PICK lower \in Nat, upper \in Nat, room \in Nat \ {0} :
          /\ lower = beat_lower_byte(b, q.len) /\ upper = beat_upper_byte(b, q.len)
          /\ room = upper - lower + 1 /\ room = Room(b, q.len)
  <2>1. b.addr \in Int /\ b.size \in Sizes /\ q.len \in Nat
    BY DEF Bursts, LoadKept, LoadTyped, UnitTyped
  <2>2. /\ beat_lower_byte(b, q.len) \in 0..(AxiBytes - 1)
        /\ beat_upper_byte(b, q.len) \in 0..(AxiBytes - 1)
        /\ beat_lower_byte(b, q.len) <= beat_upper_byte(b, q.len)
    BY <2>1, BeatLimits
  <2>3. AxiBytes \in Nat \ {0}
    BY AxiAssumption
  <2>4. PICK l \in Nat, u \in Nat : /\ l = beat_lower_byte(b, q.len)
                                    /\ u = beat_upper_byte(b, q.len) /\ l <= u
    BY <2>2, <2>3
  <2>5. u - l + 1 \in Nat \ {0} /\ Room(b, q.len) = u - l + 1
    BY <2>4 DEF Room
  <2> QED BY <2>4, <2>5
<1>2. PICK rp \in Nat : rp = q.r_pnt /\ rp < room
  BY <1>1 DEF LoadKept, LoadTyped, InBeat
<1>3. PICK n : n = Moves(q, unmasked, upper - lower - q.r_pnt + 1)
  OBVIOUS
<1>4. PICK vp \in Nat, left \in Nat, v \in Nat \ {0} :
          vp = q.vrf_pnt /\ left = q.issue_bytes /\ v = VrfBytes /\ vp < v /\ vp < left
  BY UnitsAssumption DEF LoadKept, LoadTyped, UnitTyped, InWord
<1>5. n \in Nat /\ n <= room - rp /\ vp + n <= v /\ vp + n <= left
  <2>0. room = upper - lower + 1
    BY <1>1
  <2>01. upper - lower - rp + 1 = room - rp /\ room - rp \in Nat
    BY <1>2, <2>0
  <2>1. upper - lower - q.r_pnt + 1 = room - rp /\ room - rp \in Nat
    BY <1>2, <2>01
  <2>2. CASE Loads(q, unmasked)
    <3>1. n = ValidBytes(q, room - rp)
      BY <1>3, <2>1, <2>2 DEF Moves
    <3>2. n \in Nat /\ n <= room - rp /\ q.vrf_pnt + n <= VrfBytes /\ q.vrf_pnt + n <= q.issue_bytes
      BY <1>4, <2>1, <3>1, Moved DEF LoadKept
    <3> QED BY <1>4, <3>2
  <2>3. CASE ~Loads(q, unmasked)
    BY <1>3, <1>4, <2>01, <2>3 DEF Moves
  <2> QED BY <2>2, <2>3
<1>6. PICK word, taken, c, s, t, e :
          Parts(q, b, lower, upper, n, r, word, taken, c, s, t, e)
  <2>1. /\ lower = beat_lower_byte(b, q.len) /\ upper = beat_upper_byte(b, q.len)
        /\ n = Moves(q, unmasked, upper - lower - q.r_pnt + 1)
    BY <1>1, <1>3
  <2> QED BY <2>1, ReadParts
<1>7. /\ taken \in BOOLEAN
      /\ c = Copied(q, n, word)
      /\ s = NextWord(Enqueue(c))
      /\ e = EndBurst(t, b)
      /\ r.unit = IF e.issue_bytes = 0 THEN FinishIssue(e) ELSE e
      /\ r.popped = BurstEnds(t, b)
  BY <1>6 DEF Parts
<1>8. /\ taken <=> c.r_pnt = upper - lower + 1 \/ s.issue_bytes = 0
      /\ t = IF taken THEN NextBeat(s) ELSE s
  BY <1>6 DEF Parts
<1>9. /\ DOMAIN s = LoadFields /\ s.vinsn = q.vinsn /\ s.issue_cnt = q.issue_cnt
      /\ s.commit_bytes = q.commit_bytes /\ s.len = q.len /\ s.r_pnt = rp + n
      /\ c.r_pnt = rp + n
      /\ WordEnds(c) <=> vp + n = v \/ vp + n = left
      /\ ~WordEnds(c) => /\ s.result_queue = q.result_queue /\ s.vrf_pnt = vp + n
                         /\ s.issue_bytes = left
      /\ WordEnds(c) => /\ s.vrf_pnt = 0 /\ s.issue_bytes = Floor0(left - v)
                        /\ IsSeq(s.result_queue)
                        /\ Len(s.result_queue) = Len(q.result_queue) + 1
  <2>1. LoadTyped(q) /\ n \in Nat
    BY <1>5 DEF LoadKept
  <2>2. /\ DOMAIN s = LoadFields /\ s.vinsn = q.vinsn /\ s.issue_cnt = q.issue_cnt
        /\ s.commit_bytes = q.commit_bytes /\ s.len = q.len /\ s.r_pnt = q.r_pnt + n
        /\ c.r_pnt = q.r_pnt + n
        /\ WordEnds(c) <=> q.vrf_pnt + n = VrfBytes \/ q.vrf_pnt + n = q.issue_bytes
        /\ ~WordEnds(c) => /\ s.result_queue = q.result_queue /\ s.vrf_pnt = q.vrf_pnt + n
                           /\ s.issue_bytes = q.issue_bytes
        /\ WordEnds(c) => /\ s.vrf_pnt = 0 /\ s.issue_bytes = Floor0(q.issue_bytes - VrfBytes)
                          /\ IsSeq(s.result_queue)
                          /\ Len(s.result_queue) = Len(q.result_queue) + 1
    BY <1>7, <2>1, Stored
  <2> QED BY <1>2, <1>4, <2>2
<1>10. /\ DOMAIN e = LoadFields /\ e.len \in 0..(MaxBeats - 1) /\ e.r_pnt \in Nat
       /\ \A x \in LoadFields \ {"len", "r_pnt"} : e[x] = s[x]
       /\ r.popped => e.r_pnt = 0
       /\ taken => e.r_pnt = 0
       /\ ~r.popped /\ ~taken => e = s
  <2>1. s.len \in 0..(MaxBeats - 1) /\ s.r_pnt \in Nat
    <3>1. q.len \in 0..(MaxBeats - 1)
      BY DEF LoadKept, LoadTyped, UnitTyped
    <3>2. s.len = q.len /\ s.r_pnt = rp + n
      BY <1>9
    <3>3. rp + n \in Nat
      BY <1>2, <1>5
    <3> QED BY <3>1, <3>2, <3>3
  <2>2. t = s \/ t = NextBeat(s)
    BY <1>8
  <2>3. /\ DOMAIN e = LoadFields /\ e.len \in 0..(MaxBeats - 1) /\ e.r_pnt \in Nat
        /\ \A x \in LoadFields \ {"len", "r_pnt"} : e[x] = s[x]
        /\ BurstEnds(t, b) => e.r_pnt = 0
        /\ t.r_pnt = 0 => e.r_pnt = 0
        /\ t = NextBeat(s) => t.r_pnt = 0
        /\ ~BurstEnds(t, b) /\ t = s => e = s
    BY <1>7, <1>9, <2>1, <2>2, Positions
  <2>4. taken => t = NextBeat(s)
    BY <1>8
  <2>5. ~taken => t = s
    BY <1>8
  <2> QED BY <1>7, <2>3, <2>4, <2>5
<1>11. /\ e.vinsn = q.vinsn /\ e.issue_cnt = q.issue_cnt /\ e.commit_bytes = q.commit_bytes
       /\ e.vrf_pnt = s.vrf_pnt /\ e.issue_bytes = s.issue_bytes
       /\ e.result_queue = s.result_queue
  BY <1>9, <1>10 DEF LoadFields
<1>12. ~r.popped => InBeat(e, b)
  <2>1. ASSUME ~r.popped, e.r_pnt # 0 PROVE e.r_pnt < Room(b, e.len)
    <3>1. ~taken /\ e = s
      BY <1>10, <2>1
    <3>2. e.len = q.len /\ e.r_pnt = rp + n
      BY <1>9, <3>1
    <3>3. PICK z \in Nat : z = rp + n /\ z <= room
      BY <1>2, <1>5
    <3>4. c.r_pnt # upper - lower + 1 /\ c.r_pnt = z /\ e.r_pnt = z
      BY <1>8, <1>9, <3>1, <3>2, <3>3
    <3>5. room = upper - lower + 1
      BY <1>1
    <3>6. z # room
      BY <3>4, <3>5
    <3>7. z < room
      BY <3>3, <3>6
    <3> QED BY <1>1, <3>2, <3>4, <3>7
  <2> QED BY <2>1 DEF InBeat
<1>13. PICK len \in Nat, bytes \in Nat \ {0}, k \in 0..1, x \in Nat \ {0}, y \in Nat :
          /\ len = Len(q.vinsn) /\ bytes = q.commit_bytes /\ k = Len(q.result_queue)
          /\ x = Unissued(q) /\ y = Second(q)
  BY UnitBytes DEF LoadKept, LoadTyped
<1>14. PICK cnt \in 1..len : cnt = q.issue_cnt
  BY <1>13 DEF LoadKept, LoadTyped, UnitTyped
<1>15. Books(len, cnt, left, bytes, k, x, y) /\ (cnt + 1 = len => x = y)
  <2>1. UnitTyped(q) /\ InBooks(q)
    BY DEF LoadKept, LoadTyped
  <2>2. cnt # 0
    OBVIOUS
  <2>3. cnt + 1 = len => x = y
    BY <1>13, <1>14, <2>1, <2>2, UnitBytes
  <2>4. Books(Len(q.vinsn), q.issue_cnt, q.issue_bytes, q.commit_bytes, Len(q.result_queue),
              Unissued(q), Second(q))
    BY <2>1 DEF InBooks
  <2>5. /\ len = Len(q.vinsn) /\ bytes = q.commit_bytes /\ k = Len(q.result_queue)
        /\ x = Unissued(q) /\ y = Second(q) /\ cnt = q.issue_cnt /\ left = q.issue_bytes
    BY <1>4, <1>13, <1>14
  <2>6. Books(len, cnt, left, bytes, k, x, y)
    BY <2>4, <2>5
  <2> QED BY <2>3, <2>6
<1>16. UnitTyped(q) /\ IsSeq(q.result_queue)
  BY DEF LoadKept, LoadTyped
<1>17. CASE ~WordEnds(c)
  <2>1. left # 0 /\ e.issue_bytes = left /\ e.vrf_pnt = vp + n /\ vp + n < v /\ vp + n < left
        /\ e.result_queue = q.result_queue
    BY <1>4, <1>5, <1>9, <1>11, <1>17
  <2>2. r.unit = e
    BY <1>7, <2>1
  <2>3. Unissued(e) = x /\ Second(e) = y
    BY <1>11, <1>13 DEF Unissued, Issued, Second
  <2>4. InBooks(e)
    <3>1. /\ Len(e.vinsn) = len /\ e.issue_cnt = cnt /\ e.issue_bytes = left
          /\ e.commit_bytes = bytes /\ Len(e.result_queue) = k
      BY <1>11, <1>13, <1>14, <2>1
    <3> QED BY <1>15, <2>3, <3>1 DEF InBooks
  <2>5. LoadTyped(e)
    <3>1. vp + n \in Nat
      BY <1>5
    <3>2. UnitTyped(e)
      BY <1>10, <1>11, <1>16, <2>1, <3>1 DEF UnitTyped
    <3> QED BY <1>10, <1>11, <2>1, <3>2 DEF LoadKept, LoadTyped
  <2>6. InWord(e)
    BY <1>4, <1>11, <1>14, <2>1 DEF InWord
  <2>7. Len(r.unit.result_queue) >= Len(q.result_queue)
    BY <1>13, <2>1, <2>2
  <2>8. LoadKept(e)
    BY <2>4, <2>5, <2>6 DEF LoadKept
  <2> QED BY <1>11, <1>12, <1>10, <2>2, <2>7, <2>8
<1>18. CASE WordEnds(c) /\ left > v
  <2>1. e.issue_bytes = left - v /\ e.vrf_pnt = 0 /\ left - v \in Nat \ {0}
        /\ IsSeq(e.result_queue) /\ Len(e.result_queue) = k + 1
    BY <1>4, <1>9, <1>11, <1>13, <1>18 DEF Floor0
  <2>2. r.unit = e
    BY <1>7, <2>1
  <2>3. Unissued(e) = x /\ Second(e) = y
    BY <1>11, <1>13 DEF Unissued, Issued, Second
  <2>4. InBooks(e)
    <3>1. Books(len, cnt, left - v, bytes, k + 1, x, y)
      <4>1. left > VrfBytes /\ v = VrfBytes /\ cnt \in Nat
        BY <1>4, <1>18
      <4>2. Books(len, cnt, left - VrfBytes, bytes, k + 1, x, y)
        BY <1>15, <4>1, BooksRead
      <4> QED BY <4>1, <4>2
    <3> QED BY <1>11, <1>13, <1>14, <2>1, <2>3, <3>1 DEF InBooks
  <2>5. LoadTyped(e)
    BY <1>4, <1>5, <1>10, <1>11, <2>1 DEF LoadKept, LoadTyped, UnitTyped
  <2>6. InWord(e)
    BY <1>4, <1>11, <1>14, <2>1 DEF InWord
  <2>7. Len(r.unit.result_queue) >= Len(q.result_queue)
    BY <1>13, <2>1, <2>2
  <2>8. LoadKept(e)
    BY <2>4, <2>5, <2>6 DEF LoadKept
  <2> QED BY <1>11, <1>12, <1>10, <2>2, <2>7, <2>8
<1>19. CASE WordEnds(c) /\ left <= v
  <2>1. e.issue_bytes = 0 /\ e.vrf_pnt = 0
        /\ IsSeq(e.result_queue) /\ Len(e.result_queue) = k + 1
    BY <1>4, <1>9, <1>11, <1>13, <1>19 DEF Floor0
  <2>2. PICK f : f = FinishIssue(e) /\ f = r.unit
    BY <1>7, <2>1
  <2>3. /\ DOMAIN f = LoadFields /\ f.issue_cnt = cnt - 1 /\ f.vinsn = q.vinsn
        /\ f.issue_bytes \in Nat /\ f.issue_bytes = Unissued(f)
        /\ f.issue_cnt # 0 => f.issue_bytes # 0
        /\ f.issue_cnt = 0 => f.issue_bytes = 0
        /\ \A z \in LoadFields \ {"issue_cnt", "issue_bytes"} : f[z] = e[z]
    <3>1. DOMAIN e = LoadFields /\ "vinsn" \in DOMAIN e /\ "issue_cnt" \in DOMAIN e
          /\ "issue_bytes" \in DOMAIN e
      BY <1>10 DEF LoadFields
    <3>0. e.vinsn = q.vinsn /\ e.issue_cnt = q.issue_cnt /\ f = FinishIssue(e)
      BY <1>11, <2>2
    <3>2. /\ DOMAIN f = DOMAIN e /\ f.issue_cnt = q.issue_cnt - 1 /\ f.vinsn = q.vinsn
          /\ f.issue_bytes \in Nat /\ f.issue_bytes = Unissued(f)
          /\ f.issue_cnt # 0 => f.issue_bytes # 0
          /\ f.issue_cnt = 0 => f.issue_bytes = 0
          /\ \A z \in DOMAIN e \ {"issue_cnt", "issue_bytes"} : f[z] = e[z]
      BY <1>16, <3>0, <3>1, Finishes
    <3> QED BY <1>14, <3>1, <3>2
  <2>4. /\ f.commit_bytes = bytes /\ f.len = e.len /\ f.r_pnt = e.r_pnt /\ f.vrf_pnt = 0
        /\ f.result_queue = e.result_queue
    BY <1>11, <1>13, <2>1, <2>3 DEF LoadFields
  <2>5. Second(f) = y
    BY <1>13, <2>3 DEF Second
  <2>6. PICK next \in Nat : next = f.issue_bytes
    BY <2>3
  <2>7. Books(len, cnt - 1, next, bytes, k + 1, next, y)
    <3>1. left <= VrfBytes /\ left \in Nat \ {0} /\ cnt \in Nat \ {0} /\ x \in Nat
      BY <1>4, <1>19
    <3> QED BY <1>15, <3>1, BooksIssued
  <2>8. InBooks(f)
    BY <1>13, <2>1, <2>3, <2>4, <2>5, <2>6, <2>7 DEF InBooks
  <2>9. LoadTyped(f)
    <3>1. cnt - 1 \in 0..len
      OBVIOUS
    <3>11. f.vinsn \in Seq(AllInsns) /\ f.issue_cnt \in 0..Len(f.vinsn)
      BY <1>13, <1>16, <2>3, <3>1 DEF UnitTyped
    <3>12. f.issue_bytes \in Nat /\ f.vrf_pnt \in Nat /\ f.len \in 0..(MaxBeats - 1)
      BY <1>10, <2>3, <2>4
    <3>2. UnitTyped(f)
      BY <3>11, <3>12 DEF UnitTyped
    <3>21. k + 1 \in 0..2
      OBVIOUS
    <3>3. IsSeq(f.result_queue) /\ Len(f.result_queue) \in 0..2
      BY <2>1, <2>4, <3>21, Zenon
    <3> QED BY <1>10, <2>3, <2>4, <3>2, <3>3 DEF LoadTyped
  <2>10. InWord(f)
    BY <1>4, <2>3, <2>4 DEF InWord
  <2>11. InBeat(e, b) => InBeat(f, b)
    BY <2>4 DEF InBeat
  <2>12. Len(f.result_queue) >= Len(q.result_queue)
    <3>1. k + 1 >= k
      OBVIOUS
    <3> QED BY <1>13, <2>1, <2>4, <3>1
  <2>13. LoadKept(f)
    BY <2>8, <2>9, <2>10 DEF LoadKept
  <2> QED BY <1>10, <1>12, <1>13, <2>2, <2>3, <2>4, <2>11, <2>12, <2>13
<1> QED BY <1>4, <1>17, <1>18, <1>19

\* The stages that leave the instructions and the positions alone.
LEMMA SameKept ==
    ASSUME NEW u, LoadKept(u), NEW w, DOMAIN w = LoadFields,
           \A x \in LoadFields \ {"word", "final_gnt", "result_queue"} : w[x] = u[x],
           IsSeq(w.result_queue), Len(w.result_queue) = Len(u.result_queue)
    PROVE  LoadKept(w)
<1>1. /\ w.vinsn = u.vinsn /\ w.issue_cnt = u.issue_cnt /\ w.issue_bytes = u.issue_bytes
      /\ w.commit_bytes = u.commit_bytes /\ w.len = u.len /\ w.r_pnt = u.r_pnt
      /\ w.vrf_pnt = u.vrf_pnt
  BY DEF LoadFields
<1>2. LoadTyped(w)
  BY <1>1 DEF LoadKept, LoadTyped, UnitTyped
<1>3. InWord(w)
  BY <1>1 DEF LoadKept, InWord
<1>4. Unissued(w) = Unissued(u) /\ Second(w) = Second(u)
  BY <1>1 DEF Unissued, Issued, Second
<1>5. InBooks(w)
  BY <1>1, <1>4 DEF LoadKept, InBooks
<1> QED BY <1>2, <1>3, <1>5 DEF LoadKept

LEMMA WriteKeeps ==
    ASSUME NEW u, LoadKept(u), NEW q, NEW granted, NEW final,
           NEW w, w = WriteResult(u, q, granted, final)
    PROVE  /\ LoadKept(w) /\ w.vinsn = u.vinsn /\ w.commit_bytes = u.commit_bytes
           /\ w.len = u.len /\ w.r_pnt = u.r_pnt
           /\ Len(w.result_queue) = Len(u.result_queue)
<1>1. DOMAIN u = LoadFields /\ IsSeq(u.result_queue)
  BY DEF LoadKept, LoadTyped
<1>2. PICK rq, gnt : w = [u EXCEPT !.result_queue = rq, !.final_gnt = gnt]
                     /\ IsSeq(rq) /\ Len(rq) = Len(u.result_queue)
  <2>1. CASE q.result_queue = <<>>
    <3>1. PICK gnt : w = [u EXCEPT !.final_gnt = gnt]
      BY <2>1 DEF WriteResult
    <3>2. w = [u EXCEPT !.result_queue = u.result_queue, !.final_gnt = gnt]
      BY <1>1, <3>1 DEF LoadFields
    <3> QED BY <1>1, <3>2
  <2>2. CASE q.result_queue # <<>>
    <3>1. PICK x, gnt : w = [u EXCEPT !.result_queue = [u.result_queue EXCEPT ![1] = x],
                                      !.final_gnt = gnt]
      BY <2>2 DEF WriteResult
    <3>2. PICK rq : rq = [u.result_queue EXCEPT ![1] = x]
      OBVIOUS
    <3>3. IsSeq(rq) /\ Len(rq) = Len(u.result_queue)
      BY <1>1, <3>2, SeqExcept
    <3> QED BY <3>1, <3>2, <3>3
  <2> QED BY <2>1, <2>2
<1>3. /\ DOMAIN w = LoadFields /\ w.result_queue = rq
      /\ \A x \in LoadFields \ {"word", "final_gnt", "result_queue"} : w[x] = u[x]
  BY <1>1, <1>2 DEF LoadFields
<1>4. LoadKept(w)
  BY <1>2, <1>3, SameKept
<1> QED BY <1>2, <1>3, <1>4 DEF LoadFields

\* The first result is written by all lanes.
LEMMA CommitKeeps ==
    ASSUME NEW u, LoadKept(u), NEW q,
           q.result_queue # <<>> => u.commit_bytes # 0 /\ Len(u.result_queue) >= 1,
           NEW w, w = CommitWord(u, q)
    PROVE  /\ LoadKept(w) /\ w.vinsn = u.vinsn /\ w.len = u.len /\ w.r_pnt = u.r_pnt
           /\ u.commit_bytes = 0 => w.commit_bytes = 0
<1>1. CASE ~WordCommitted(u, q)
  BY <1>1 DEF CommitWord
<1>2. CASE WordCommitted(u, q)
  <2>1. u.commit_bytes # 0 /\ Len(u.result_queue) >= 1
    BY <1>2 DEF WordCommitted
  <2>2. PICK len \in Nat, bytes \in Nat \ {0}, k \in 1..2, x \in Nat, y \in Nat :
            /\ len = Len(u.vinsn) /\ bytes = u.commit_bytes /\ k = Len(u.result_queue)
            /\ x = Unissued(u) /\ y = Second(u)
    BY <2>1, UnitBytes DEF LoadKept, LoadTyped
  <2>3. PICK cnt \in Nat, left \in Nat : cnt = u.issue_cnt /\ left = u.issue_bytes
    BY <2>2 DEF LoadKept, LoadTyped, UnitTyped
  <2>4. Books(len, cnt, left, bytes, k, x, y)
    <3>1. Books(Len(u.vinsn), u.issue_cnt, u.issue_bytes, u.commit_bytes, Len(u.result_queue),
                Unissued(u), Second(u))
      BY DEF LoadKept, InBooks
    <3> QED BY <2>2, <2>3, <3>1
  <2>5. PICK rest : rest = Floor0(bytes - VrfBytes)
    OBVIOUS
  <2>6. rest \in Nat /\ Books(len, cnt, left, rest, k - 1, x, y)
    BY <2>4, <2>5, BooksCommit
  <2>7. PICK t : t = Tail(u.result_queue)
    OBVIOUS
  <2>8. IsSeq(t) /\ Len(t) = k - 1
    <3>1. IsSeq(u.result_queue) /\ u.result_queue # <<>>
      <4>1. <<>> \in Seq({}) /\ Len(<<>>) = 0
        OBVIOUS
      <4> QED BY <2>1, <4>1 DEF LoadKept, LoadTyped
    <3> QED BY <2>2, <2>7, <3>1, SeqTail
  <2>9. w = [u EXCEPT !.result_queue = t, !.commit_bytes = rest]
    BY <1>2, <2>2, <2>5, <2>7 DEF CommitWord
  <2>10. /\ DOMAIN w = LoadFields /\ w.vinsn = u.vinsn /\ w.issue_cnt = u.issue_cnt
         /\ w.issue_bytes = u.issue_bytes /\ w.len = u.len /\ w.r_pnt = u.r_pnt
         /\ w.vrf_pnt = u.vrf_pnt /\ w.commit_bytes = rest /\ w.result_queue = t
    BY <2>9 DEF LoadKept, LoadTyped, LoadFields
  <2>11. Unissued(w) = x /\ Second(w) = y
    BY <2>2, <2>10 DEF Unissued, Issued, Second
  <2>12. InBooks(w)
    BY <2>2, <2>3, <2>6, <2>8, <2>10, <2>11 DEF InBooks
  <2>13. LoadTyped(w)
    <3>1. UnitTyped(w)
      BY <2>10 DEF LoadKept, LoadTyped, UnitTyped
    <3>2. k - 1 \in 0..2
      OBVIOUS
    <3> QED BY <2>6, <2>8, <2>10, <3>1, <3>2 DEF LoadKept, LoadTyped
  <2>14. InWord(w)
    BY <2>10 DEF LoadKept, InWord
  <2> QED BY <2>1, <2>10, <2>12, <2>13, <2>14 DEF LoadKept
<1> QED BY <1>1, <1>2

\* The first instruction is done.
LEMMA DoneKeeps ==
    ASSUME NEW u, LoadKept(u), NEW q, q.vinsn = u.vinsn,
           u.vinsn = <<>> => u.commit_bytes = 0,
           NEW w, w = CommitLoad(u, q)
    PROVE  /\ LoadOK(w) /\ w.len = u.len /\ w.r_pnt = u.r_pnt
           /\ w.vinsn = u.vinsn \/ (u.vinsn # <<>> /\ w.vinsn = Tail(u.vinsn))
<1>1. CASE ~LoadDone(u, q)
  BY <1>1 DEF CommitLoad, LoadDone, LoadOK
<1>2. CASE LoadDone(u, q)
  <2>1. u.vinsn # <<>> /\ u.commit_bytes = 0
    BY <1>2 DEF LoadDone
  <2>2. PICK len \in Nat \ {0}, k \in 0..2, x \in Nat, y \in Nat :
            /\ len = Len(u.vinsn) /\ k = Len(u.result_queue)
            /\ x = Unissued(u) /\ y = Second(u)
    <3>1. u.vinsn \in Seq(AllInsns) /\ UnitTyped(u) /\ Len(u.result_queue) \in 0..2
      BY DEF LoadKept, LoadTyped, UnitTyped
    <3>2. Len(u.vinsn) \in Nat \ {0}
      BY <2>1, <3>1, TailFacts
    <3> QED BY <3>1, <3>2, UnitBytes
  <2>3. PICK cnt \in Nat, left \in Nat : cnt = u.issue_cnt /\ left = u.issue_bytes
    BY <2>2 DEF LoadKept, LoadTyped, UnitTyped
  <2>4. Books(len, cnt, left, 0, k, x, y)
    <3>1. Books(Len(u.vinsn), u.issue_cnt, u.issue_bytes, u.commit_bytes, Len(u.result_queue),
                Unissued(u), Second(u))
      BY DEF LoadKept, InBooks
    <3> QED BY <2>1, <2>2, <2>3, <3>1
  <2>5. PICK t : t = Tail(u.vinsn) /\ t \in Seq(AllInsns) /\ Len(t) = len - 1
                 /\ \A z \in 1..Len(t) : t[z] = u.vinsn[z + 1]
    <3>1. u.vinsn \in Seq(AllInsns)
      BY DEF LoadKept, LoadTyped, UnitTyped
    <3>2. /\ Tail(u.vinsn) \in Seq(AllInsns) /\ Len(Tail(u.vinsn)) = Len(u.vinsn) - 1
          /\ \A z \in 1..Len(Tail(u.vinsn)) : Tail(u.vinsn)[z] = u.vinsn[z + 1]
      BY <2>1, <3>1, TailFacts
    <3> QED BY <2>2, <3>2
  <2>6. w = [u EXCEPT !.vinsn = t, !.commit_bytes = Second(u)]
    BY <1>2, <2>5 DEF CommitLoad, Second
  <2>7. /\ DOMAIN w = LoadFields /\ w.vinsn = t /\ w.issue_cnt = cnt
        /\ w.issue_bytes = left /\ w.len = u.len /\ w.r_pnt = u.r_pnt
        /\ w.vrf_pnt = u.vrf_pnt /\ w.commit_bytes = y /\ w.result_queue = u.result_queue
    BY <2>2, <2>3, <2>6 DEF LoadKept, LoadTyped, LoadFields
  <2>8. y = IF len > 1 THEN y ELSE 0
    BY <2>2 DEF Second
  <2>9. /\ cnt # 0 => left # 0
        /\ cnt = 0 => left = 0 /\ x = 0
        /\ cnt # 0 /\ cnt + 1 = len => x = y
    <3>1. UnitTyped(u) /\ InWord(u) /\ u.vrf_pnt \in Nat
      BY DEF LoadKept, LoadTyped, UnitTyped
    <3>2. cnt # 0 => left # 0
      BY <2>3, <3>1 DEF InWord
    <3>3. cnt = 0 => left = 0
      BY <2>3, <3>1 DEF InWord
    <3> QED BY <2>2, <2>3, <3>1, <3>2, <3>3, UnitBytes
  <2>10. PICK z : z = Second(w)
    OBVIOUS
  <2>11. UnitTyped(w)
    <3>1. cnt < len
      BY <2>4, <2>9, BooksDone
    <3>2. cnt \in 0..(len - 1)
      BY <3>1
    <3> QED BY <2>3, <2>5, <2>7, <3>2 DEF LoadKept, LoadTyped, UnitTyped
  <2>12. z \in Nat
    BY <2>10, <2>11, UnitBytes
  <2>13. cnt < len /\ Books(len - 1, cnt, left, IF len > 1 THEN y ELSE 0, k, x, z)
    BY <2>4, <2>9, <2>12, BooksDone
  <2>14. Unissued(w) = x
    <3>1. CASE cnt = 0
      BY <2>2, <2>3, <2>7, <3>1 DEF Unissued
    <3>2. CASE cnt # 0
      <4>1. PICK a \in 1..(len - 1) : a = (len - 1) - cnt + 1 /\ a + 1 = len - cnt + 1
        BY <2>13, <3>2
      <4>2. Unissued(w) = VectorBytes(t[a])
        BY <2>5, <2>7, <3>2, <4>1 DEF Unissued, Issued
      <4>3. x = VectorBytes(u.vinsn[a + 1])
        BY <2>2, <2>3, <3>2, <4>1 DEF Unissued, Issued
      <4> QED BY <2>5, <4>1, <4>2, <4>3
    <3> QED BY <3>1, <3>2
  <2>15. InBooks(w)
    <3>1. Books(len - 1, cnt, left, y, k, x, z)
      BY <2>8, <2>13
    <3> QED BY <2>2, <2>5, <2>7, <2>10, <2>14, <3>1 DEF InBooks
  <2>16. LoadTyped(w)
    BY <2>7, <2>11 DEF LoadKept, LoadTyped
  <2>17. InWord(w)
    BY <2>3, <2>7 DEF LoadKept, InWord
  <2>18. w.commit_bytes = 0 <=> w.vinsn = <<>>
    <3>1. CASE len > 1
      <4>1. 2 \in 1..len
        BY <3>1
      <4>2. y # 0
        <5>1. UnitTyped(u)
          BY DEF LoadKept, LoadTyped
        <5>2. y = VectorBytes(u.vinsn[2])
          BY <2>2, <3>1 DEF Second
        <5>3. \A n \in 1..Len(u.vinsn) : VectorBytes(u.vinsn[n]) \in Nat \ {0}
          BY <5>1, UnitBytes
        <5>4. VectorBytes(u.vinsn[2]) # 0
          BY <2>2, <4>1, <5>3
        <5> QED BY <5>2, <5>4
      <4>11. len - 1 # 0
        BY <3>1
      <4>12. Len(t) # 0
        BY <2>5, <4>11
      <4>3. t # <<>>
        BY <4>12
      <4> QED BY <2>7, <4>2, <4>3
    <3>2. CASE ~(len > 1)
      <4>1. y = 0
        BY <2>2, <3>2 DEF Second
      <4>11. len - 1 = 0
        BY <3>2
      <4>2. Len(t) = 0
        BY <2>5, <4>11
      <4> QED BY <2>5, <2>7, <4>1, <4>2, NoneLeft
    <3> QED BY <3>1, <3>2
  <2> QED BY <2>1, <2>5, <2>7, <2>15, <2>16, <2>17, <2>18 DEF LoadOK, LoadKept
<1> QED BY <1>1, <1>2

\* The instruction the unit accepts is the last one.
LEMMA AcceptKeeps ==
    ASSUME NEW u, LoadOK(u), NEW insn \in AllInsns, NEW w, w = AcceptLoad(u, insn)
    PROVE  /\ LoadOK(w) /\ w.len = u.len /\ w.r_pnt = u.r_pnt
           /\ w.vinsn = Append(u.vinsn, insn)
<1>1. LoadKept(u) /\ LoadTyped(u) /\ UnitTyped(u)
  BY DEF LoadOK, LoadKept, LoadTyped
<1>2. PICK len \in Nat, k \in 0..2, x \in Nat, y \in Nat, left \in Nat, bytes \in Nat :
          /\ len = Len(u.vinsn) /\ k = Len(u.result_queue)
          /\ x = Unissued(u) /\ y = Second(u) /\ left = u.issue_bytes /\ bytes = u.commit_bytes
  BY <1>1, UnitBytes DEF LoadTyped, UnitTyped
<1>3. PICK cnt \in 0..len : cnt = u.issue_cnt
  BY <1>1, <1>2 DEF UnitTyped
<1>4. Books(len, cnt, left, bytes, k, x, y)
  <2>1. Books(Len(u.vinsn), u.issue_cnt, u.issue_bytes, u.commit_bytes, Len(u.result_queue),
              Unissued(u), Second(u))
    BY <1>1 DEF LoadKept, InBooks
  <2> QED BY <1>2, <1>3, <2>1
<1>5. PICK new \in Nat \ {0} : new = VectorBytes(insn)
  BY ProgramInsn DEF AllInsns
<1>6. PICK t : /\ t = Append(u.vinsn, insn) /\ t \in Seq(AllInsns) /\ Len(t) = len + 1
               /\ \A z \in 1..len : t[z] = u.vinsn[z]
               /\ t[len + 1] = insn /\ t # <<>>
  <2>1. u.vinsn \in Seq(AllInsns)
    BY <1>1 DEF UnitTyped
  <2>2. PICK t : t = Append(u.vinsn, insn)
    OBVIOUS
  <2>3. /\ t \in Seq(AllInsns) /\ Len(t) = Len(u.vinsn) + 1
        /\ t[Len(u.vinsn) + 1] = insn
        /\ \A z \in 1..Len(u.vinsn) : t[z] = u.vinsn[z]
    BY <2>1, <2>2, AppendFacts
  <2>4. Len(t) = len + 1 /\ t[len + 1] = insn /\ \A z \in 1..len : t[z] = u.vinsn[z]
    BY <1>2, <2>3
  <2>5. t # <<>>
    <3>1. Len(t) # 0
      BY <1>2, <2>4
    <3> QED BY <3>1
  <2> QED BY <2>2, <2>3, <2>4, <2>5
<1>7. PICK l1 \in Nat : l1 = IF cnt = 0 THEN new ELSE left
  OBVIOUS
<1>8. PICK b1 \in Nat : b1 = IF len = 0 THEN new ELSE bytes
  OBVIOUS
<1>9. u.vinsn = <<>> <=> len = 0
  BY <1>1, <1>2, NoneLeft DEF UnitTyped
<1>10. w = [u EXCEPT !.vinsn = t, !.issue_cnt = cnt + 1, !.issue_bytes = l1, !.commit_bytes = b1]
  BY <1>2, <1>3, <1>5, <1>6, <1>7, <1>8, <1>9 DEF AcceptLoad
<1>11. /\ DOMAIN w = LoadFields /\ w.vinsn = t /\ w.issue_cnt = cnt + 1
       /\ w.issue_bytes = l1 /\ w.len = u.len /\ w.r_pnt = u.r_pnt
       /\ w.vrf_pnt = u.vrf_pnt /\ w.commit_bytes = b1 /\ w.result_queue = u.result_queue
  BY <1>1, <1>10 DEF LoadTyped, LoadFields
<1>12. UnitTyped(w)
  <2>1. cnt + 1 \in 0..(len + 1)
    OBVIOUS
  <2> QED BY <1>1, <1>6, <1>11, <2>1 DEF UnitTyped
<1>13. PICK z \in Nat : z = Second(w)
  BY <1>12, UnitBytes
<1>14. len >= 2 => z = y
  <2>1. ASSUME len >= 2 PROVE z = y
    <3>1. 2 \in 1..len /\ len + 1 > 1 /\ len > 1
      BY <2>1
    <3>2. z = VectorBytes(t[2])
      BY <1>6, <1>11, <1>13, <3>1 DEF Second
    <3>3. y = VectorBytes(u.vinsn[2])
      BY <1>2, <3>1 DEF Second
    <3> QED BY <1>6, <3>1, <3>2, <3>3
  <2> QED BY <2>1
<1>15. Unissued(w) = IF cnt = 0 THEN new ELSE x
  <2>1. PICK a \in 1..(len + 1) : a = (len + 1) - (cnt + 1) + 1 /\ a = len - cnt + 1
    OBVIOUS
  <2>2. Unissued(w) = VectorBytes(t[a])
    <3>1. cnt + 1 # 0
      OBVIOUS
    <3> QED BY <1>6, <1>11, <2>1, <3>1 DEF Unissued, Issued
  <2>3. CASE cnt = 0
    <3>1. a = len + 1
      BY <2>1, <2>3
    <3> QED BY <1>5, <1>6, <2>2, <2>3, <3>1
  <2>4. CASE cnt # 0
    <3>1. a \in 1..len
      BY <2>1, <2>4
    <3>2. x = VectorBytes(u.vinsn[a])
      BY <1>2, <1>3, <2>1, <2>4 DEF Unissued, Issued
    <3> QED BY <1>6, <2>2, <2>4, <3>1, <3>2
  <2> QED BY <2>3, <2>4
<1>16. /\ cnt = 0 => left = 0 /\ x = 0
       /\ cnt # 0 => left # 0
       /\ len = 0 => bytes = 0
       /\ len # 0 => bytes # 0
  <2>1. InWord(u) /\ u.vrf_pnt \in Nat /\ (u.commit_bytes = 0 <=> u.vinsn = <<>>)
    BY <1>1 DEF LoadKept, LoadOK, UnitTyped
  <2>2. (cnt = 0 => left = 0) /\ (cnt # 0 => left # 0)
    BY <1>2, <1>3, <2>1 DEF InWord
  <2>3. cnt = 0 => x = 0
    BY <1>2, <1>3 DEF Unissued
  <2> QED BY <1>2, <1>9, <2>1, <2>2, <2>3
<1>17. InBooks(w)
  <2>1. Books(len + 1, cnt + 1, IF cnt = 0 THEN new ELSE left, IF len = 0 THEN new ELSE bytes, k,
              IF cnt = 0 THEN new ELSE x, z)
    <3>1. cnt \in Nat /\ new \in Nat
      OBVIOUS
    <3>2. (cnt = 0 => left = 0 /\ x = 0) /\ (len = 0 => bytes = 0)
      BY <1>16
    <3> QED BY <1>4, <1>14, <3>1, <3>2, BooksAccept
  <2>2. Books(len + 1, cnt + 1, l1, b1, k, Unissued(w), z)
    BY <1>7, <1>8, <1>15, <2>1
  <2> QED BY <1>2, <1>6, <1>11, <1>13, <2>2 DEF InBooks
<1>18. LoadTyped(w)
  BY <1>1, <1>11, <1>12 DEF LoadTyped
<1>19. InWord(w)
  <2>1. u.vrf_pnt < VrfBytes /\ u.vrf_pnt \in Nat
    BY <1>1 DEF LoadKept, InWord, UnitTyped
  <2>2. CASE cnt = 0
    <3>1. u.vrf_pnt = 0 /\ l1 # 0
      BY <1>1, <1>3, <1>7, <2>2 DEF LoadKept, InWord
    <3> QED BY <1>11, <2>1, <3>1 DEF InWord
  <2>3. CASE cnt # 0
    <3>1. u.vrf_pnt < l1
      BY <1>1, <1>2, <1>3, <1>7, <2>3 DEF LoadKept, InWord
    <3> QED BY <1>11, <2>1, <3>1 DEF InWord
  <2> QED BY <2>2, <2>3
<1>20. w.commit_bytes # 0
  BY <1>5, <1>8, <1>11, <1>16
<1> QED BY <1>6, <1>11, <1>17, <1>18, <1>19, <1>20 DEF LoadOK, LoadKept

\* A result in the queue is of an instruction with bytes to commit.
LEMMA Waits ==
    ASSUME NEW u, LoadOK(u), u.result_queue # <<>>
    PROVE  u.commit_bytes # 0 /\ Len(u.result_queue) >= 1
<1>1. IsSeq(u.result_queue) /\ UnitTyped(u) /\ Len(u.result_queue) \in 0..2
  BY DEF LoadOK, LoadKept, LoadTyped
<1>2. Len(u.result_queue) \in Nat \ {0}
  BY <1>1, SeqTail
<1>3. ASSUME u.commit_bytes = 0 PROVE FALSE
  <2>1. u.vinsn = <<>>
    BY <1>3 DEF LoadOK
  <2>2. Len(u.vinsn) = 0
    BY <2>1
  <2>3. u.issue_cnt = 0
    BY <1>1, <2>2 DEF UnitTyped
  <2>4. u.issue_bytes = 0
    BY <2>3 DEF LoadOK, LoadKept, InWord
  <2>5. PICK k \in 1..2 : k = Len(u.result_queue)
    BY <1>1, <1>2
  <2>6. PICK x, y : Books(0, 0, 0, 0, k, x, y)
    BY <1>3, <2>2, <2>3, <2>4, <2>5 DEF LoadOK, LoadKept, InBooks
  <2>7. 0 + Times(k) = 0
    BY <2>6 DEF Books
  <2>8. PICK v \in Nat \ {0} : v = VrfBytes
    BY UnitsAssumption
  <2> QED BY <2>7, <2>8 DEF Times
<1>4. Len(u.result_queue) >= 1
  BY <1>2
<1> QED BY <1>3, <1>4

\* The load unit is within a beat of the first command.
LoadInBeat ==
    ld.r_pnt # 0 => /\ cmd # <<>> /\ Head(cmd).is_load
                    /\ ld.r_pnt < Room(Head(cmd), ld.len)

\* What the load unit reads.
LEMMA LoadReads ==
    ASSUME Commands, LoadOK(ld), LoadInBeat, NEW mask_valid,
           NEW r_valid \in {FALSE} \cup {Reads}, NEW r, r = Read(r_valid, mask_valid)
    PROVE  /\ LoadKept(r.unit) /\ r.unit.vinsn = ld.vinsn
           /\ r.unit.commit_bytes = ld.commit_bytes
           /\ Len(r.unit.result_queue) >= Len(ld.result_queue)
           /\ r.popped => r.unit.r_pnt = 0
           /\ ~r.popped /\ r.unit.r_pnt # 0 =>
                 /\ cmd # <<>> /\ Head(cmd).is_load
                 /\ r.unit.r_pnt < Room(Head(cmd), r.unit.len)
<1>1. LoadKept(ld) /\ LoadTyped(ld) /\ UnitTyped(ld)
  BY DEF LoadOK, LoadKept, LoadTyped
<1>2. CASE ~r_valid
  <2>1. r.unit = ld /\ ~r.popped
    BY <1>2 DEF Read
  <2>2. Len(ld.result_queue) >= Len(ld.result_queue)
    BY <1>1 DEF LoadTyped
  <2> QED BY <1>1, <2>1, <2>2 DEF LoadInBeat
<1>3. CASE r_valid
  <2>1. Reads
    BY <1>3
  <2>2. PICK b : b = Head(cmd) /\ b \in Bursts
    BY <2>1, TailFacts DEF Reads, Commands
  <2>3. /\ cmd # <<>> /\ b.is_load /\ ld.issue_cnt # 0 /\ Len(ld.result_queue) < 2
    BY <2>1, <2>2 DEF Reads, ResultQueueDepth
  <2>4. Len(ld.result_queue) \in 0..1
    BY <1>1, <2>3 DEF LoadTyped
  <2>5. ld.commit_bytes # 0
    <3>1. Len(ld.vinsn) # 0
      BY <1>1, <2>3 DEF UnitTyped
    <3>2. ld.vinsn # <<>>
      BY <3>1
    <3> QED BY <3>2 DEF LoadOK
  <2>6. InBeat(ld, b)
    BY <2>2 DEF LoadInBeat, InBeat
  <2>7. PICK data, unmasked, mask : r = ReadBeat(ld, b, data, unmasked, mask)
    BY <1>3, <2>2 DEF Read
  <2>8. /\ LoadKept(r.unit) /\ r.unit.vinsn = ld.vinsn
        /\ Len(r.unit.result_queue) >= Len(ld.result_queue)
        /\ r.unit.commit_bytes = ld.commit_bytes
        /\ r.popped => r.unit.r_pnt = 0
        /\ ~r.popped => InBeat(r.unit, b)
    BY <1>1, <2>2, <2>3, <2>4, <2>5, <2>6, <2>7, ReadKeeps
  <2> QED BY <2>2, <2>3, <2>8 DEF InBeat
<1> QED BY <1>2, <1>3

LEMMA LoadWorks ==
    ASSUME Commands, LoadOK(ld), LoadInBeat, NEW new, LoadCycle(new)
    PROVE  \E unit :
              /\ LoadOK(unit)
              /\ unit.vinsn = ld.vinsn \/ (ld.vinsn # <<>> /\ unit.vinsn = Tail(ld.vinsn))
              /\ ld' = IF new = {} THEN unit ELSE AcceptLoad(unit, CHOOSE i \in new : TRUE)
              /\ unit.r_pnt # 0 => /\ cmd # <<>> /\ cmd' = cmd /\ Head(cmd).is_load
                                   /\ unit.r_pnt < Room(Head(cmd), unit.len)
              /\ done' = done \/ (ld.vinsn # <<>> /\ done' = done \cup {Head(ld.vinsn).id})
<1>1. PICK r_valid \in {FALSE} \cup {Reads}, mask_valid \in {FALSE} \cup {masks # <<>>},
           writes \in SUBSET {l \in Lanes : slot[l] # None} :
          \E r \in {Read(r_valid, mask_valid)}, granted \in {Granted(writes)} :
          \E word \in {CommitWord(WriteResult(r.unit, ld, granted, final_gnt), ld)} :
              LoadStep(new, r, granted, writes, word)
  BY DEF LoadCycle
<1>2. PICK r \in {Read(r_valid, mask_valid)}, granted \in {Granted(writes)} :
          \E word \in {CommitWord(WriteResult(r.unit, ld, granted, final_gnt), ld)} :
              LoadStep(new, r, granted, writes, word)
  BY <1>1
<1>3. PICK word \in {CommitWord(WriteResult(r.unit, ld, granted, final_gnt), ld)} :
          LoadStep(new, r, granted, writes, word)
  BY <1>2
<1>4. PICK w : w = WriteResult(r.unit, ld, granted, final_gnt)
  OBVIOUS
<1>5. word = CommitWord(w, ld)
  BY <1>4
<1>6. PICK unit : unit = CommitLoad(word, ld)
  OBVIOUS
<1>7. /\ LoadKept(r.unit) /\ r.unit.vinsn = ld.vinsn
      /\ r.unit.commit_bytes = ld.commit_bytes
      /\ Len(r.unit.result_queue) >= Len(ld.result_queue)
      /\ r.popped => r.unit.r_pnt = 0
      /\ ~r.popped /\ r.unit.r_pnt # 0 =>
            /\ cmd # <<>> /\ Head(cmd).is_load
            /\ r.unit.r_pnt < Room(Head(cmd), r.unit.len)
  <2>1. r = Read(r_valid, mask_valid)
    OBVIOUS
  <2> QED BY <2>1, LoadReads
<1>8. /\ LoadKept(w) /\ w.vinsn = ld.vinsn /\ w.commit_bytes = ld.commit_bytes
      /\ w.len = r.unit.len /\ w.r_pnt = r.unit.r_pnt
      /\ Len(w.result_queue) >= Len(ld.result_queue)
  BY <1>4, <1>7, WriteKeeps
<1>9. ld.result_queue # <<>> => w.commit_bytes # 0 /\ Len(w.result_queue) >= 1
  <2>1. Len(w.result_queue) \in Nat /\ Len(ld.result_queue) \in Nat
    BY <1>8 DEF LoadKept, LoadTyped, LoadOK
  <2> QED BY <1>8, <2>1, Waits
<1>10. /\ LoadKept(word) /\ word.vinsn = ld.vinsn /\ word.len = r.unit.len
       /\ word.r_pnt = r.unit.r_pnt
       /\ ld.commit_bytes = 0 => word.commit_bytes = 0
  BY <1>5, <1>8, <1>9, CommitKeeps
<1>11. word.vinsn = <<>> => word.commit_bytes = 0
  BY <1>10 DEF LoadOK
<1>12. /\ LoadOK(unit) /\ unit.len = r.unit.len /\ unit.r_pnt = r.unit.r_pnt
       /\ unit.vinsn = ld.vinsn \/ (ld.vinsn # <<>> /\ unit.vinsn = Tail(ld.vinsn))
  BY <1>6, <1>10, <1>11, DoneKeeps
<1>13. /\ ld' = IF new = {} THEN unit ELSE AcceptLoad(unit, CHOOSE i \in new : TRUE)
       /\ cmd' = IF r.popped THEN Tail(cmd) ELSE cmd
       /\ done' = IF LoadDone(word, ld) THEN done \cup {Head(ld.vinsn).id} ELSE done
  BY <1>3, <1>6 DEF LoadStep
<1>14. done' = done \/ (ld.vinsn # <<>> /\ done' = done \cup {Head(ld.vinsn).id})
  BY <1>13 DEF LoadDone
<1>15. unit.r_pnt # 0 => /\ cmd # <<>> /\ cmd' = cmd /\ Head(cmd).is_load
                         /\ unit.r_pnt < Room(Head(cmd), unit.len)
  <2>1. ASSUME unit.r_pnt # 0 PROVE ~r.popped
    BY <1>7, <1>12, <2>1
  <2> QED BY <1>7, <1>12, <1>13, <2>1
<1> QED BY <1>12, <1>13, <1>14, <1>15

-----------------------------------------------------------------------------
(***************************************************************************)
(* The store unit.  Of its instructions, d are issued and wait for an      *)
(* answer of memory: as many as issue_pnt is ahead of commit_pnt.          *)
(***************************************************************************)
Ahead(ip, cp, d) ==
    /\ cp \in 0..(StoreDepth - 1) /\ d \in 0..StoreDepth
    /\ ip = IF cp + d >= StoreDepth THEN cp + d - StoreDepth ELSE cp + d

LEMMA Wraps ==
    ASSUME NEW x \in 0..(StoreDepth - 1)
    PROVE  (x + 1) % StoreDepth = IF x + 1 = StoreDepth THEN 0 ELSE x + 1
<1>1. PICK m \in Nat \ {0} : m = StoreDepth
  BY UnitsAssumption
<1>2. CASE x + 1 = m
  <2>1. 1 * m = m /\ 0 \in 0..(m - 1) /\ 1 \in Int
    BY <1>1
  <2>2. (1 * m + 0) % m = 0
    BY <1>1, <2>1, OneQuotient
  <2>3. 1 * m + 0 = x + 1
    BY <1>2, <2>1
  <2> QED BY <1>1, <1>2, <2>2, <2>3
<1>3. CASE x + 1 # m
  <2>1. x + 1 \in 0..(m - 1) /\ 0 \in Int
    BY <1>1, <1>3
  <2>2. (0 * m + (x + 1)) % m = x + 1
    BY <1>1, <2>1, OneQuotient
  <2>3. 0 * m + (x + 1) = x + 1
    BY <1>1
  <2> QED BY <1>1, <1>3, <2>2, <2>3
<1> QED BY <1>2, <1>3, <1>1

LEMMA AheadIssue ==
    ASSUME NEW ip, NEW cp, NEW d, Ahead(ip, cp, d), d < StoreDepth
    PROVE  Ahead((ip + 1) % StoreDepth, cp, d + 1)
<1>1. PICK m \in Nat \ {0} : m = StoreDepth
  BY UnitsAssumption
<1>2. PICK c \in 0..(m - 1), e \in 0..(m - 1) : c = cp /\ e = d
  BY <1>1 DEF Ahead
<1>3. PICK i \in 0..(m - 1) : i = ip /\ i = IF c + e >= m THEN c + e - m ELSE c + e
  BY <1>1, <1>2 DEF Ahead
<1>4. PICK j : j = (i + 1) % m
  OBVIOUS
<1>5. j = IF i + 1 = m THEN 0 ELSE i + 1
  BY <1>1, <1>4, Wraps
<1>6. j = IF c + (e + 1) >= m THEN c + (e + 1) - m ELSE c + (e + 1)
  BY <1>3, <1>5
<1>7. e + 1 \in 0..m
  OBVIOUS
<1>8. Ahead(j, c, e + 1)
  BY <1>1, <1>6, <1>7 DEF Ahead
<1> QED BY <1>1, <1>2, <1>3, <1>4, <1>8

LEMMA AheadCommit ==
    ASSUME NEW ip, NEW cp, NEW d, Ahead(ip, cp, d), ip # cp
    PROVE  d >= 1 /\ Ahead(ip, (cp + 1) % StoreDepth, d - 1)
<1>1. PICK m \in Nat \ {0} : m = StoreDepth
  BY UnitsAssumption
<1>2. PICK c \in 0..(m - 1), e \in 0..m : c = cp /\ e = d
  BY <1>1 DEF Ahead
<1>3. PICK i \in 0..(m - 1) : i = ip /\ i = IF c + e >= m THEN c + e - m ELSE c + e
  BY <1>1, <1>2 DEF Ahead
<1>31. i # c
  BY <1>2, <1>3
<1>32. e >= 1
  BY <1>3, <1>31
<1>4. PICK j : j = (c + 1) % m
  OBVIOUS
<1>5. j = IF c + 1 = m THEN 0 ELSE c + 1
  BY <1>1, <1>4, Wraps
<1>6. j \in 0..(m - 1) /\ i = IF j + (e - 1) >= m THEN j + (e - 1) - m ELSE j + (e - 1)
  BY <1>3, <1>31, <1>32, <1>5
<1>7. e - 1 \in 0..m
  BY <1>32
<1>8. Ahead(i, j, e - 1)
  BY <1>1, <1>6, <1>7 DEF Ahead
<1> QED BY <1>1, <1>2, <1>3, <1>32, <1>4, <1>8

StoreFields == {"vinsn", "issue_cnt", "issue_bytes", "issue_pnt", "commit_pnt", "len", "vrf_pnt"}
StoreTyped(u) == DOMAIN u = StoreFields /\ UnitTyped(u) /\ Len(u.vinsn) <= StoreDepth
Pointers(u) == Ahead(u.issue_pnt, u.commit_pnt, Len(u.vinsn) - u.issue_cnt)
StoreOK(u) == StoreTyped(u) /\ InWord(u) /\ Pointers(u)

\* A beat is sent: what it leaves of the word.
LEMMA Sent ==
    ASSUME NEW q, StoreOK(q), q.issue_cnt # 0, NEW b \in Bursts,
           NEW w, w = WriteBeat(q, b), NEW u, u = w.unit
    PROVE  /\ DOMAIN u = StoreFields /\ u.vinsn = q.vinsn /\ u.issue_cnt = q.issue_cnt
           /\ u.issue_pnt = q.issue_pnt /\ u.commit_pnt = q.commit_pnt
           /\ u.len \in 0..(MaxBeats - 1) /\ u.vrf_pnt \in Nat /\ u.issue_bytes \in Nat
           /\ u.vrf_pnt < VrfBytes
           /\ u.issue_bytes # 0 => u.vrf_pnt < u.issue_bytes
           /\ u.issue_bytes = 0 => u.vrf_pnt = 0
<1>1. PICK lower \in Nat, upper \in Nat, room \in Nat \ {0}, l \in 0..(MaxBeats - 1) :
          /\ lower = beat_lower_byte(b, q.len) /\ upper = beat_upper_byte(b, q.len)
          /\ room = upper - lower + 1 /\ l = q.len
  <2>1. b.addr \in Int /\ b.size \in Sizes /\ q.len \in Nat /\ q.len \in 0..(MaxBeats - 1)
    BY DEF Bursts, StoreOK, StoreTyped, UnitTyped
  <2>2. /\ beat_lower_byte(b, q.len) \in 0..(AxiBytes - 1)
        /\ beat_upper_byte(b, q.len) \in 0..(AxiBytes - 1)
        /\ beat_lower_byte(b, q.len) <= beat_upper_byte(b, q.len)
    BY <2>1, BeatLimits
  <2>3. AxiBytes \in Nat \ {0}
    BY AxiAssumption
  <2>4. PICK x \in Nat, y \in Nat : /\ x = beat_lower_byte(b, q.len)
                                    /\ y = beat_upper_byte(b, q.len) /\ x <= y
    BY <2>2, <2>3
  <2>5. y - x + 1 \in Nat \ {0}
    BY <2>4
  <2> QED BY <2>1, <2>4, <2>5
<1>2. PICK n : n = ValidBytes(q, upper - lower + 1)
  OBVIOUS
<1>3. PICK vp \in Nat, left \in Nat, v \in Nat \ {0} :
          vp = q.vrf_pnt /\ left = q.issue_bytes /\ v = VrfBytes /\ vp < v /\ vp < left
  BY UnitsAssumption DEF StoreOK, StoreTyped, UnitTyped, InWord
<1>4. n \in Nat /\ vp + n <= v /\ vp + n <= left
  <2>1. n = ValidBytes(q, room)
    BY <1>1, <1>2
  <2>2. n \in Nat /\ q.vrf_pnt + n <= VrfBytes /\ q.vrf_pnt + n <= q.issue_bytes
    BY <1>3, <2>1, Moved DEF StoreOK
  <2> QED BY <1>3, <2>2
<1>5. PICK sent : sent = [q EXCEPT !.vrf_pnt = @ + n, !.len = (@ + 1) % MaxBeats]
  OBVIOUS
<1>6. PICK e : e = IF BurstEnds(sent, b) THEN [sent EXCEPT !.len = 0] ELSE sent
  OBVIOUS
<1>7. u = NextWord(e)
  BY <1>1, <1>2, <1>5, <1>6 DEF WriteBeat
<1>8. (l + 1) % MaxBeats \in 0..(MaxBeats - 1) /\ 0 \in 0..(MaxBeats - 1)
  <2>1. MaxBeats \in Nat \ {0} /\ l + 1 \in Int
    BY AxiAssumption
  <2> QED BY <2>1, Divided
<1>9. /\ DOMAIN sent = StoreFields /\ sent.len \in 0..(MaxBeats - 1) /\ sent.vrf_pnt = vp + n
      /\ \A x \in StoreFields \ {"len", "vrf_pnt"} : sent[x] = q[x]
  BY <1>1, <1>3, <1>5, <1>8 DEF StoreOK, StoreTyped, StoreFields
<1>10. /\ DOMAIN e = StoreFields /\ e.len \in 0..(MaxBeats - 1) /\ e.vrf_pnt = vp + n
       /\ \A x \in StoreFields \ {"len", "vrf_pnt"} : e[x] = q[x]
  <2>1. CASE BurstEnds(sent, b)
    <3>1. e = [sent EXCEPT !.len = 0]
      BY <1>6, <2>1
    <3> QED BY <1>8, <1>9, <3>1 DEF StoreFields
  <2>2. CASE ~BurstEnds(sent, b)
    BY <1>6, <1>9, <2>2
  <2> QED BY <2>1, <2>2
<1>11. e.issue_bytes = left
  BY <1>3, <1>10 DEF StoreFields
<1>12. CASE ~WordEnds(e)
  <2>1. u = e
    BY <1>7, <1>12 DEF NextWord
  <2>2. vp + n # v /\ vp + n # left
    BY <1>3, <1>10, <1>11, <1>12 DEF WordEnds
  <2>3. vp + n < v /\ vp + n < left /\ vp + n \in Nat /\ left # 0
    BY <1>3, <1>4, <2>2
  <2> QED BY <1>3, <1>10, <1>11, <2>1, <2>3 DEF StoreFields
<1>13. CASE WordEnds(e)
  <2>1. PICK rest \in Nat : rest = Floor0(left - v)
    BY DEF Floor0
  <2>2. u = [e EXCEPT !.vrf_pnt = 0, !.issue_bytes = rest]
    BY <1>3, <1>7, <1>11, <1>13, <2>1 DEF NextWord
  <2>3. /\ DOMAIN u = StoreFields /\ u.vrf_pnt = 0 /\ u.issue_bytes = rest
        /\ \A x \in StoreFields \ {"vrf_pnt", "issue_bytes"} : u[x] = e[x]
    BY <1>10, <2>2 DEF StoreFields
  <2>4. /\ u.vinsn = q.vinsn /\ u.issue_cnt = q.issue_cnt /\ u.len = e.len
        /\ u.issue_pnt = q.issue_pnt /\ u.commit_pnt = q.commit_pnt
    BY <1>10, <2>3 DEF StoreFields
  <2>5. rest # 0 => 0 < rest
    OBVIOUS
  <2> QED BY <1>3, <1>10, <2>3, <2>4, <2>5
<1> QED BY <1>12, <1>13

\* The beat, and the end of the instruction it may be.
LEMMA FinishKeeps ==
    ASSUME NEW q, StoreOK(q),
           NEW u, DOMAIN u = StoreFields, u.vinsn = q.vinsn, u.issue_cnt = q.issue_cnt,
           u.issue_pnt = q.issue_pnt, u.commit_pnt = q.commit_pnt,
           u.len \in 0..(MaxBeats - 1), u.vrf_pnt \in Nat, u.issue_bytes \in Nat,
           u.vrf_pnt < VrfBytes,
           u.issue_bytes # 0 => u.vrf_pnt < u.issue_bytes,
           u.issue_bytes = 0 => u.vrf_pnt = 0,
           q.issue_cnt = 0 => u.issue_bytes = 0,
           NEW w, w = FinishStore(u, q)
    PROVE  StoreOK(w) /\ w.vinsn = q.vinsn
<1>1. PICK len \in 0..StoreDepth, d \in 0..StoreDepth :
          len = Len(q.vinsn) /\ d = Len(q.vinsn) - q.issue_cnt
  <2>1. Len(q.vinsn) \in Nat /\ Len(q.vinsn) <= StoreDepth
    BY DEF StoreOK, StoreTyped, UnitTyped
  <2> QED BY <2>1, UnitsAssumption DEF StoreOK, Pointers, Ahead
<1>2. PICK cnt \in 0..len : cnt = q.issue_cnt /\ d = len - cnt
  BY <1>1 DEF StoreOK, StoreTyped, UnitTyped
<1>3. UnitTyped(u)
  BY DEF StoreOK, StoreTyped, UnitTyped
<1>4. Ahead(q.issue_pnt, q.commit_pnt, d)
  BY <1>1 DEF StoreOK, Pointers
<1>5. CASE ~(q.issue_cnt # 0 /\ u.issue_bytes = 0)
  <2>1. w = u
    BY <1>5 DEF FinishStore
  <2>2. StoreTyped(w)
    BY <1>3, <2>1 DEF StoreOK, StoreTyped
  <2>3. InWord(w)
    BY <1>5, <2>1 DEF InWord
  <2>4. Pointers(w)
    BY <1>1, <1>4, <2>1 DEF Pointers
  <2> QED BY <2>1, <2>2, <2>3, <2>4 DEF StoreOK
<1>6. CASE q.issue_cnt # 0 /\ u.issue_bytes = 0
  <2>1. PICK f : f = FinishIssue(u)
    OBVIOUS
  <2>2. /\ DOMAIN f = StoreFields /\ f.issue_cnt = cnt - 1 /\ f.vinsn = q.vinsn
        /\ f.issue_bytes \in Nat
        /\ f.issue_cnt # 0 => f.issue_bytes # 0
        /\ f.issue_cnt = 0 => f.issue_bytes = 0
        /\ \A x \in StoreFields \ {"issue_cnt", "issue_bytes"} : f[x] = u[x]
    <3>1. UnitTyped(q) /\ "vinsn" \in DOMAIN u /\ "issue_cnt" \in DOMAIN u
          /\ "issue_bytes" \in DOMAIN u
      BY DEF StoreOK, StoreTyped, StoreFields
    <3>2. /\ DOMAIN f = DOMAIN u /\ f.issue_cnt = q.issue_cnt - 1 /\ f.vinsn = q.vinsn
          /\ f.issue_bytes \in Nat
          /\ f.issue_cnt # 0 => f.issue_bytes # 0
          /\ f.issue_cnt = 0 => f.issue_bytes = 0
          /\ \A x \in DOMAIN u \ {"issue_cnt", "issue_bytes"} : f[x] = u[x]
      BY <1>6, <2>1, <3>1, Finishes
    <3> QED BY <1>2, <3>2
  <2>3. PICK ip : ip = (q.issue_pnt + 1) % StoreDepth
    OBVIOUS
  <2>4. f.issue_pnt = q.issue_pnt
    BY <2>2 DEF StoreFields
  <2>5. w = [f EXCEPT !.issue_pnt = ip]
    BY <1>6, <2>1, <2>3, <2>4 DEF FinishStore
  <2>6. /\ DOMAIN w = StoreFields /\ w.issue_cnt = cnt - 1 /\ w.vinsn = q.vinsn
        /\ w.issue_bytes = f.issue_bytes /\ w.issue_pnt = ip /\ w.commit_pnt = q.commit_pnt
        /\ w.len = u.len /\ w.vrf_pnt = 0
    BY <1>6, <2>2, <2>5 DEF StoreFields
  <2>7. cnt - 1 \in 0..len /\ len - (cnt - 1) = d + 1 /\ d < StoreDepth
    <3>1. PICK m \in Nat \ {0} : m = StoreDepth
      BY UnitsAssumption
    <3>2. cnt # 0 /\ d = len - cnt
      BY <1>2, <1>6
    <3> QED BY <3>1, <3>2
  <2>8. StoreTyped(w)
    <3>1. w.issue_cnt \in 0..Len(w.vinsn) /\ Len(w.vinsn) <= StoreDepth
      BY <1>1, <2>6, <2>7 DEF StoreOK, StoreTyped
    <3> QED BY <1>3, <2>2, <2>6, <3>1 DEF StoreTyped, UnitTyped
  <2>9. InWord(w)
    <3>1. VrfBytes \in Nat \ {0}
      BY UnitsAssumption
    <3> QED BY <2>2, <2>6, <3>1 DEF InWord
  <2>10. Pointers(w)
    <3>1. Ahead(ip, q.commit_pnt, d + 1)
      BY <1>4, <2>3, <2>7, AheadIssue
    <3> QED BY <1>1, <2>6, <2>7, <3>1 DEF Pointers
  <2> QED BY <2>6, <2>8, <2>9, <2>10 DEF StoreOK
<1> QED BY <1>5, <1>6

\* An answer of memory.
LEMMA AnswerKeeps ==
    ASSUME NEW u, StoreOK(u), NEW w, w = CommitStore(u)
    PROVE  /\ StoreOK(w)
           /\ w.vinsn = u.vinsn \/ (u.vinsn # <<>> /\ w.vinsn = Tail(u.vinsn))
           /\ Acknowledged(u) => u.vinsn # <<>>
<1>1. CASE ~Acknowledged(u)
  BY <1>1 DEF CommitStore
<1>2. CASE Acknowledged(u)
  <2>1. PICK len \in 0..StoreDepth, d \in 0..StoreDepth :
            len = Len(u.vinsn) /\ d = Len(u.vinsn) - u.issue_cnt
    <3>1. Len(u.vinsn) \in Nat /\ Len(u.vinsn) <= StoreDepth
      BY DEF StoreOK, StoreTyped, UnitTyped
    <3> QED BY <3>1, UnitsAssumption DEF StoreOK, Pointers, Ahead
  <2>2. PICK cnt \in 0..len : cnt = u.issue_cnt /\ d = len - cnt
    BY <2>1 DEF StoreOK, StoreTyped, UnitTyped
  <2>3. PICK cp : cp = (u.commit_pnt + 1) % StoreDepth
    OBVIOUS
  <2>4. Ahead(u.issue_pnt, u.commit_pnt, d) /\ u.issue_pnt # u.commit_pnt
    BY <1>2, <2>1 DEF StoreOK, Pointers, Acknowledged
  <2>5. d >= 1 /\ Ahead(u.issue_pnt, cp, d - 1)
    BY <2>3, <2>4, AheadCommit
  <2>6. u.vinsn \in Seq(AllInsns) /\ u.vinsn # <<>>
    <3>1. len # 0
      BY <2>2, <2>5
    <3>2. u.vinsn # <<>>
      BY <2>1, <3>1
    <3> QED BY <3>2 DEF StoreOK, StoreTyped, UnitTyped
  <2>7. PICK t : t = Tail(u.vinsn) /\ t \in Seq(AllInsns) /\ Len(t) = len - 1
    BY <2>1, <2>6, TailFacts
  <2>8. w = [u EXCEPT !.vinsn = t, !.commit_pnt = cp]
    BY <1>2, <2>3, <2>7 DEF CommitStore
  <2>9. /\ DOMAIN w = StoreFields /\ w.issue_cnt = cnt /\ w.vinsn = t
        /\ w.issue_bytes = u.issue_bytes /\ w.issue_pnt = u.issue_pnt /\ w.commit_pnt = cp
        /\ w.len = u.len /\ w.vrf_pnt = u.vrf_pnt
    BY <2>2, <2>8 DEF StoreOK, StoreTyped, StoreFields
  <2>10. cnt \in 0..(len - 1) /\ (len - 1) - cnt = d - 1
    BY <2>2, <2>5
  <2>11. StoreTyped(w)
    <3>1. UnitTyped(w)
      BY <2>7, <2>9, <2>10 DEF StoreOK, StoreTyped, UnitTyped
    <3>2. len - 1 <= StoreDepth
      BY <2>1, UnitsAssumption
    <3> QED BY <2>7, <2>9, <3>1, <3>2 DEF StoreTyped
  <2>12. InWord(w)
    BY <2>2, <2>9 DEF StoreOK, InWord
  <2>13. Pointers(w)
    BY <2>5, <2>7, <2>9, <2>10 DEF Pointers
  <2> QED BY <2>6, <2>7, <2>9, <2>11, <2>12, <2>13 DEF StoreOK
<1> QED BY <1>1, <1>2

LEMMA AcceptsStore ==
    ASSUME NEW u, StoreOK(u), Len(u.vinsn) < StoreDepth, NEW insn \in AllInsns,
           NEW w, w = AcceptStore(u, insn)
    PROVE  StoreOK(w) /\ w.vinsn = Append(u.vinsn, insn)
<1>1. PICK len \in Nat, d \in 0..StoreDepth :
          len = Len(u.vinsn) /\ d = Len(u.vinsn) - u.issue_cnt /\ len < StoreDepth
  BY DEF StoreOK, StoreTyped, UnitTyped, Pointers, Ahead
<1>2. PICK cnt \in 0..len, left \in Nat :
          cnt = u.issue_cnt /\ d = len - cnt /\ left = u.issue_bytes
  BY <1>1 DEF StoreOK, StoreTyped, UnitTyped
<1>3. PICK new \in Nat \ {0} : new = VectorBytes(insn)
  BY ProgramInsn DEF AllInsns
<1>4. PICK t : t = Append(u.vinsn, insn) /\ t \in Seq(AllInsns) /\ Len(t) = len + 1
  <2>1. u.vinsn \in Seq(AllInsns)
    BY DEF StoreOK, StoreTyped, UnitTyped
  <2> QED BY <1>1, <2>1, AppendFacts
<1>5. PICK l1 \in Nat : l1 = IF cnt = 0 THEN new ELSE left
  OBVIOUS
<1>6. w = [u EXCEPT !.vinsn = t, !.issue_cnt = cnt + 1, !.issue_bytes = l1]
  BY <1>2, <1>3, <1>4, <1>5 DEF AcceptStore
<1>7. /\ DOMAIN w = StoreFields /\ w.vinsn = t /\ w.issue_cnt = cnt + 1
      /\ w.issue_bytes = l1 /\ w.len = u.len /\ w.vrf_pnt = u.vrf_pnt
      /\ w.issue_pnt = u.issue_pnt /\ w.commit_pnt = u.commit_pnt
  BY <1>6 DEF StoreOK, StoreTyped, StoreFields
<1>8. StoreTyped(w)
  <2>1. cnt + 1 \in 0..(len + 1)
    OBVIOUS
  <2>2. UnitTyped(w)
    BY <1>4, <1>7, <2>1 DEF StoreOK, StoreTyped, UnitTyped
  <2>3. len + 1 <= StoreDepth
    BY <1>1, UnitsAssumption
  <2> QED BY <1>4, <1>7, <2>2, <2>3 DEF StoreTyped
<1>9. InWord(w)
  <2>1. u.vrf_pnt < VrfBytes /\ u.vrf_pnt \in Nat
    BY DEF StoreOK, InWord, StoreTyped, UnitTyped
  <2>2. CASE cnt = 0
    <3>1. u.vrf_pnt = 0 /\ l1 # 0
      BY <1>2, <1>5, <2>2 DEF StoreOK, InWord
    <3> QED BY <1>7, <2>1, <3>1 DEF InWord
  <2>3. CASE cnt # 0
    <3>1. u.vrf_pnt < l1
      BY <1>2, <1>5, <2>3 DEF StoreOK, InWord
    <3> QED BY <1>7, <2>1, <3>1 DEF InWord
  <2> QED BY <2>2, <2>3
<1>10. Pointers(w)
  <2>1. (len + 1) - (cnt + 1) = d
    BY <1>2
  <2>2. Ahead(u.issue_pnt, u.commit_pnt, d)
    BY <1>1 DEF StoreOK, Pointers
  <2> QED BY <1>4, <1>7, <2>1, <2>2 DEF Pointers
<1> QED BY <1>4, <1>7, <1>8, <1>9, <1>10 DEF StoreOK

LEMMA StoreWorks ==
    ASSUME Commands, StoreOK(st), NEW new, StoreCycle(new)
    PROVE  \E unit :
              /\ StoreOK(unit)
              /\ unit.vinsn = st.vinsn \/ (st.vinsn # <<>> /\ unit.vinsn = Tail(st.vinsn))
              /\ st' = IF new = {} THEN unit ELSE AcceptStore(unit, CHOOSE i \in new : TRUE)
              /\ cmd' = cmd \/ (cmd # <<>> /\ ~Head(cmd).is_load /\ cmd' = Tail(cmd))
              /\ done' = done \/ (st.vinsn # <<>> /\ done' = done \cup {Head(st.vinsn).id})
<1>1. PICK mask_valid \in {FALSE} \cup {masks # <<>>}, w_ready \in BOOLEAN,
           b_valid \in {FALSE} \cup {owed # <<>>} :
          \E sends \in {w_ready /\ Sends(mask_valid)} :
          \E w \in {IF sends THEN WriteBeat(st, Head(cmd))
                    ELSE [unit |-> st, popped |-> FALSE, word |-> FALSE]} :
              StoreStep(new, mask_valid, b_valid, sends, w)
  BY DEF StoreCycle
<1>2. PICK sends \in {w_ready /\ Sends(mask_valid)} :
          \E w \in {IF sends THEN WriteBeat(st, Head(cmd))
                    ELSE [unit |-> st, popped |-> FALSE, word |-> FALSE]} :
              StoreStep(new, mask_valid, b_valid, sends, w)
  BY <1>1
<1>3. PICK w : /\ w = IF sends THEN WriteBeat(st, Head(cmd))
                      ELSE [unit |-> st, popped |-> FALSE, word |-> FALSE]
               /\ StoreStep(new, mask_valid, b_valid, sends, w)
  BY <1>2
<1>4. PICK ends : ends = FinishStore(w.unit, st)
  OBVIOUS
<1>5. PICK unit : unit = IF b_valid THEN CommitStore(ends) ELSE ends
  OBVIOUS
<1>6. /\ st' = IF new = {} THEN unit ELSE AcceptStore(unit, CHOOSE i \in new : TRUE)
      /\ cmd' = IF w.popped THEN Tail(cmd) ELSE cmd
      /\ done' = IF b_valid /\ Acknowledged(ends) THEN done \cup {Head(st.vinsn).id} ELSE done
  <2>1. StoreStep(new, mask_valid, b_valid, sends, w)
    BY <1>3
  <2>2. st' = IF new = {} THEN unit ELSE AcceptStore(unit, CHOOSE i \in new : TRUE)
    <3> DEFINE e == FinishStore(w.unit, st)
               u == IF b_valid THEN CommitStore(e) ELSE e
    <3>1. st' = IF new = {} THEN u ELSE AcceptStore(u, CHOOSE i \in new : TRUE)
      BY ONLY <2>1 DEF StoreStep
    <3>2. u = unit
      BY <1>4, <1>5
    <3> HIDE DEF u
    <3> QED BY <3>1, <3>2
  <2>3. cmd' = IF w.popped THEN Tail(cmd) ELSE cmd
    BY <2>1, Zenon DEF StoreStep
  <2>4. done' = IF b_valid /\ Acknowledged(ends) THEN done \cup {Head(st.vinsn).id} ELSE done
    BY <1>4, <2>1, Zenon DEF StoreStep
  <2> QED BY <2>2, <2>3, <2>4
<1>7. ASSUME sends
      PROVE  /\ StoreOK(ends) /\ ends.vinsn = st.vinsn
             /\ cmd' = cmd \/ (cmd # <<>> /\ ~Head(cmd).is_load /\ cmd' = Tail(cmd))
  <2>1. Sends(mask_valid)
    BY <1>2, <1>7
  <2>2. st.issue_cnt # 0 /\ cmd # <<>> /\ ~Head(cmd).is_load
    BY <2>1 DEF Sends
  <2>3. PICK b : b = Head(cmd) /\ b \in Bursts
    BY <2>2, TailFacts DEF Commands
  <2>4. PICK u : u = w.unit /\ w = WriteBeat(st, b)
    BY <1>3, <1>7, <2>3
  <2>5. /\ DOMAIN u = StoreFields /\ u.vinsn = st.vinsn /\ u.issue_cnt = st.issue_cnt
        /\ u.issue_pnt = st.issue_pnt /\ u.commit_pnt = st.commit_pnt
        /\ u.len \in 0..(MaxBeats - 1) /\ u.vrf_pnt \in Nat /\ u.issue_bytes \in Nat
        /\ u.vrf_pnt < VrfBytes
        /\ u.issue_bytes # 0 => u.vrf_pnt < u.issue_bytes
        /\ u.issue_bytes = 0 => u.vrf_pnt = 0
    BY <2>2, <2>3, <2>4, Sent
  <2>6. ends = FinishStore(u, st)
    BY <1>4, <2>4
  <2>7. StoreOK(ends) /\ ends.vinsn = st.vinsn
    BY <2>2, <2>5, <2>6, FinishKeeps
  <2>8. cmd' = cmd \/ (cmd # <<>> /\ ~Head(cmd).is_load /\ cmd' = Tail(cmd))
    BY <1>6, <2>2
  <2> QED BY <2>7, <2>8
<1>8. ASSUME ~sends
      PROVE  /\ StoreOK(ends) /\ ends.vinsn = st.vinsn
             /\ cmd' = cmd \/ (cmd # <<>> /\ ~Head(cmd).is_load /\ cmd' = Tail(cmd))
  <2>1. w.unit = st /\ ~w.popped
    BY <1>3, <1>8
  <2>2. st.issue_cnt # 0 => st.issue_bytes # 0
    BY DEF StoreOK, InWord, StoreTyped, UnitTyped
  <2>3. ends = st
    BY <1>4, <2>1, <2>2 DEF FinishStore
  <2> QED BY <1>6, <2>1, <2>3
<1>9. /\ StoreOK(ends) /\ ends.vinsn = st.vinsn
      /\ cmd' = cmd \/ (cmd # <<>> /\ ~Head(cmd).is_load /\ cmd' = Tail(cmd))
  <2>1. CASE sends
    BY <1>7, <2>1
  <2>2. CASE ~sends
    BY <1>8, <2>2
  <2> QED BY <2>1, <2>2
<1>10. Acknowledged(ends) => st.vinsn # <<>>
  <2>1. PICK c : c = CommitStore(ends)
    OBVIOUS
  <2> QED BY <1>9, <2>1, AnswerKeeps
<1>11. /\ StoreOK(unit)
       /\ unit.vinsn = st.vinsn \/ (st.vinsn # <<>> /\ unit.vinsn = Tail(st.vinsn))
  <2>1. CASE b_valid
    <3>1. unit = CommitStore(ends)
      BY <1>5, <2>1
    <3> QED BY <1>9, <3>1, AnswerKeeps
  <2>2. CASE ~b_valid
    <3>1. unit = ends
      BY <1>5, <2>2
    <3> QED BY <1>9, <3>1
  <2> QED BY <2>1, <2>2
<1>12. done' = done \/ (st.vinsn # <<>> /\ done' = done \cup {Head(st.vinsn).id})
  BY <1>6, <1>10
<1> QED BY <1>6, <1>9, <1>11, <1>12

-----------------------------------------------------------------------------
(* All together *)

\* The instructions of a queue are among the first n.
IdsIn(v, n) == \A k \in 1..Len(v) : v[k].id \in 1..n

LEMMA IdsMore ==
    ASSUME NEW v, NEW m \in Nat, NEW n \in Nat, m <= n, IdsIn(v, m)
    PROVE  IdsIn(v, n)
BY DEF IdsIn

LEMMA IdsTail ==
    ASSUME NEW S, NEW v \in Seq(S), NEW n \in Nat, IdsIn(v, n), v # <<>>
    PROVE  IdsIn(Tail(v), n) /\ Head(v).id \in 1..n /\ Len(Tail(v)) <= Len(v)
<1>1. PICK len \in Nat \ {0} : len = Len(v)
  BY TailFacts
<1>2. PICK t : t = Tail(v) /\ Len(t) = len - 1 /\ \A k \in 1..Len(t) : t[k] = v[k + 1]
  BY <1>1, TailFacts
<1>3. ASSUME NEW k \in 1..Len(t) PROVE t[k].id \in 1..n
  <2>1. k + 1 \in 1..len
    BY <1>2
  <2> QED BY <1>1, <1>2, <2>1 DEF IdsIn
<1>4. Head(v).id \in 1..n
  <2>1. 1 \in 1..len /\ Head(v) = v[1]
    BY <1>1, TailFacts
  <2> QED BY <1>1, <2>1 DEF IdsIn
<1> QED BY <1>1, <1>2, <1>3, <1>4 DEF IdsIn

LEMMA IdsAppend ==
    ASSUME NEW S, NEW v \in Seq(S), NEW n \in Nat, IdsIn(v, n), NEW i \in S, i.id \in 1..n
    PROVE  IdsIn(Append(v, i), n)
<1>1. PICK len \in Nat : len = Len(v)
  OBVIOUS
<1>2. PICK t : /\ t = Append(v, i) /\ Len(t) = len + 1 /\ t[len + 1] = i
               /\ \A k \in 1..len : t[k] = v[k]
  <2>1. /\ Len(Append(v, i)) = Len(v) + 1 /\ Append(v, i)[Len(v) + 1] = i
        /\ \A k \in 1..Len(v) : Append(v, i)[k] = v[k]
    BY AppendFacts
  <2> QED BY <1>1, <2>1
<1>3. ASSUME NEW k \in 1..(len + 1) PROVE t[k].id \in 1..n
  <2>1. CASE k = len + 1
    BY <1>2, <2>1
  <2>2. CASE k # len + 1
    <3>1. k \in 1..len
      BY <2>2
    <3> QED BY <1>1, <1>2, <3>1 DEF IdsIn
  <2> QED BY <2>1, <2>2
<1> QED BY <1>2, <1>3 DEF IdsIn

\* Between cycles: the units, and what has been reported.
UInv ==
    /\ LoadOK(ld) /\ LoadInBeat /\ Len(ld.vinsn) <= LoadDepth /\ IdsIn(ld.vinsn, issued)
    /\ StoreOK(st) /\ IdsIn(st.vinsn, issued)
    /\ done \subseteq 1..issued /\ failed \subseteq 1..issued

LEMMA LoadSide ==
    ASSUME Programmed, Commands, UInv, NEW new, NEW n \in Nat, issued <= n, LoadCycle(new),
           \/ new = {}
           \/ \E i \in AllInsns : new = {i} /\ i.id \in 1..n /\ Len(ld.vinsn) # LoadDepth
    PROVE  /\ LoadOK(ld') /\ Len(ld'.vinsn) <= LoadDepth /\ IdsIn(ld'.vinsn, n)
           /\ ld'.r_pnt # 0 => /\ cmd # <<>> /\ cmd' = cmd /\ Head(cmd).is_load
                               /\ ld'.r_pnt < Room(Head(cmd), ld'.len)
           /\ done' \subseteq 1..n
<1>1. PICK unit :
          /\ LoadOK(unit)
          /\ unit.vinsn = ld.vinsn \/ (ld.vinsn # <<>> /\ unit.vinsn = Tail(ld.vinsn))
          /\ ld' = IF new = {} THEN unit ELSE AcceptLoad(unit, CHOOSE i \in new : TRUE)
          /\ unit.r_pnt # 0 => /\ cmd # <<>> /\ cmd' = cmd /\ Head(cmd).is_load
                               /\ unit.r_pnt < Room(Head(cmd), unit.len)
          /\ done' = done \/ (ld.vinsn # <<>> /\ done' = done \cup {Head(ld.vinsn).id})
  BY LoadWorks DEF UInv
<1>2. PICK m \in Nat : m = issued /\ m <= n
  BY ProgramsAssumption DEF Programmed
<1>3. ld.vinsn \in Seq(AllInsns) /\ unit.vinsn \in Seq(AllInsns)
  BY <1>1 DEF UInv, LoadOK, LoadKept, LoadTyped, UnitTyped
<1>4. IdsIn(ld.vinsn, n)
  <2>1. IdsIn(ld.vinsn, m)
    BY <1>2 DEF UInv
  <2> QED BY <1>2, <2>1, IdsMore
<1>5. PICK depth \in Nat, l0 \in Nat, l1 \in Nat :
          /\ depth = LoadDepth /\ l0 = Len(ld.vinsn) /\ l1 = Len(unit.vinsn) /\ l0 <= depth
  <2>1. Len(ld.vinsn) \in Nat /\ Len(unit.vinsn) \in Nat
    BY <1>3
  <2>2. LoadDepth \in Nat
    BY UnitsAssumption
  <2>3. Len(ld.vinsn) <= LoadDepth
    BY DEF UInv
  <2> QED BY <2>1, <2>2, <2>3
<1>6. IdsIn(unit.vinsn, n) /\ l1 <= l0
  <2>1. CASE unit.vinsn = ld.vinsn
    BY <1>4, <1>5, <2>1
  <2>2. CASE ld.vinsn # <<>> /\ unit.vinsn = Tail(ld.vinsn)
    BY <1>3, <1>4, <1>5, <2>2, IdsTail
  <2> QED BY <1>1, <2>1, <2>2
<1>7. done' \subseteq 1..n
  <2>1. done \subseteq 1..n
    BY <1>2 DEF UInv
  <2>2. ld.vinsn # <<>> => Head(ld.vinsn).id \in 1..n
    BY <1>3, <1>4, IdsTail
  <2>3. CASE done' = done
    BY <2>1, <2>3
  <2>4. CASE ld.vinsn # <<>> /\ done' = done \cup {Head(ld.vinsn).id}
    BY <2>1, <2>2, <2>4
  <2> QED BY <1>1, <2>3, <2>4
<1>8. CASE new = {}
  <2>1. ld' = unit
    BY <1>1, <1>8
  <2> QED BY <1>1, <1>5, <1>6, <1>7, <2>1
<1>9. CASE \E i \in AllInsns : new = {i} /\ i.id \in 1..n /\ Len(ld.vinsn) # LoadDepth
  <2>1. PICK i \in AllInsns : new = {i} /\ i.id \in 1..n /\ l0 # depth
    BY <1>5, <1>9
  <2>2. (CHOOSE j \in new : TRUE) = i /\ new # {}
    BY <2>1
  <2>3. ld' = AcceptLoad(unit, i)
    BY <1>1, <2>2
  <2>4. PICK w : w = ld' /\ w = AcceptLoad(unit, i)
    BY <2>3
  <2>5. LoadOK(w) /\ w.len = unit.len /\ w.r_pnt = unit.r_pnt /\ w.vinsn = Append(unit.vinsn, i)
    <3>1. LoadOK(unit) /\ i \in AllInsns /\ w = AcceptLoad(unit, i)
      BY <1>1, <2>1, <2>4
    <3> QED BY ONLY <3>1, AcceptKeeps
  <2>6. IdsIn(w.vinsn, n) /\ Len(w.vinsn) = l1 + 1
    BY <1>3, <1>5, <1>6, <2>1, <2>5, IdsAppend, AppendFacts
  <2>7. l1 + 1 <= depth
    BY <1>5, <1>6, <2>1
  <2> QED BY <1>1, <1>5, <1>7, <2>4, <2>5, <2>6, <2>7
<1> QED BY <1>8, <1>9

LEMMA StoreSide ==
    ASSUME Programmed, Commands, UInv, NEW new, NEW n \in Nat, issued <= n, StoreCycle(new),
           \/ new = {}
           \/ \E i \in AllInsns : new = {i} /\ i.id \in 1..n /\ Len(st.vinsn) # StoreDepth
    PROVE  /\ StoreOK(st') /\ IdsIn(st'.vinsn, n)
           /\ cmd' = cmd \/ (cmd # <<>> /\ ~Head(cmd).is_load /\ cmd' = Tail(cmd))
           /\ done' \subseteq 1..n
<1>1. PICK unit :
          /\ StoreOK(unit)
          /\ unit.vinsn = st.vinsn \/ (st.vinsn # <<>> /\ unit.vinsn = Tail(st.vinsn))
          /\ st' = IF new = {} THEN unit ELSE AcceptStore(unit, CHOOSE i \in new : TRUE)
          /\ cmd' = cmd \/ (cmd # <<>> /\ ~Head(cmd).is_load /\ cmd' = Tail(cmd))
          /\ done' = done \/ (st.vinsn # <<>> /\ done' = done \cup {Head(st.vinsn).id})
  BY StoreWorks DEF UInv
<1>2. PICK m \in Nat : m = issued /\ m <= n
  BY ProgramsAssumption DEF Programmed
<1>3. st.vinsn \in Seq(AllInsns) /\ unit.vinsn \in Seq(AllInsns)
  BY <1>1 DEF UInv, StoreOK, StoreTyped, UnitTyped
<1>4. IdsIn(st.vinsn, n)
  <2>1. IdsIn(st.vinsn, m)
    BY <1>2 DEF UInv
  <2> QED BY <1>2, <2>1, IdsMore
<1>5. PICK depth \in Nat, l0 \in Nat, l1 \in Nat :
          /\ depth = StoreDepth /\ l0 = Len(st.vinsn) /\ l1 = Len(unit.vinsn) /\ l0 <= depth
  <2>1. Len(st.vinsn) \in Nat /\ Len(unit.vinsn) \in Nat
    BY <1>3
  <2>2. StoreDepth \in Nat
    BY UnitsAssumption
  <2>3. Len(st.vinsn) <= StoreDepth
    BY DEF UInv, StoreOK, StoreTyped
  <2> QED BY <2>1, <2>2, <2>3
<1>6. IdsIn(unit.vinsn, n) /\ l1 <= l0
  <2>1. CASE unit.vinsn = st.vinsn
    BY <1>4, <1>5, <2>1
  <2>2. CASE st.vinsn # <<>> /\ unit.vinsn = Tail(st.vinsn)
    BY <1>3, <1>4, <1>5, <2>2, IdsTail
  <2> QED BY <1>1, <2>1, <2>2
<1>7. done' \subseteq 1..n
  <2>1. done \subseteq 1..n
    BY <1>2 DEF UInv
  <2>2. st.vinsn # <<>> => Head(st.vinsn).id \in 1..n
    BY <1>3, <1>4, IdsTail
  <2>3. CASE done' = done
    BY <2>1, <2>3
  <2>4. CASE st.vinsn # <<>> /\ done' = done \cup {Head(st.vinsn).id}
    BY <2>1, <2>2, <2>4
  <2> QED BY <1>1, <2>3, <2>4
<1>8. CASE new = {}
  <2>1. st' = unit
    BY <1>1, <1>8
  <2> QED BY <1>1, <1>6, <1>7, <2>1
<1>9. CASE \E i \in AllInsns : new = {i} /\ i.id \in 1..n /\ Len(st.vinsn) # StoreDepth
  <2>1. PICK i \in AllInsns : new = {i} /\ i.id \in 1..n /\ l0 # depth
    BY <1>5, <1>9
  <2>2. (CHOOSE j \in new : TRUE) = i /\ new # {}
    BY <2>1
  <2>3. st' = AcceptStore(unit, i)
    BY <1>1, <2>2
  <2>4. PICK w : w = st' /\ w = AcceptStore(unit, i)
    BY <2>3
  <2>5. l1 < depth
    BY <1>5, <1>6, <2>1
  <2>6. StoreOK(w) /\ w.vinsn = Append(unit.vinsn, i)
    BY <1>1, <1>5, <2>1, <2>4, <2>5, AcceptsStore
  <2>7. IdsIn(w.vinsn, n)
    BY <1>3, <1>6, <2>1, <2>6, IdsAppend
  <2> QED BY <1>1, <1>7, <2>4, <2>6, <2>7
<1> QED BY <1>8, <1>9

\* What the units and the reports keep while the units stand still.
LEMMA Still ==
    ASSUME AInv, UInv,
           UNCHANGED <<ld, st, issued, done>>,
           failed' \subseteq 1..issued,
           cmd' = cmd \/ \E b : cmd' = Append(cmd, b), Commands
    PROVE  UInv'
<1>1. LoadInBeat'
  <2>1. ASSUME ld.r_pnt # 0
        PROVE  cmd' # <<>> /\ Head(cmd') = Head(cmd)
    <3>1. cmd # <<>> /\ cmd \in Seq(Bursts)
      BY <2>1 DEF UInv, LoadInBeat, Commands
    <3>2. ASSUME NEW b PROVE Append(cmd, b) # <<>> /\ Head(Append(cmd, b)) = Head(cmd)
      <4>1. PICK T : T = Bursts \cup {b}
        OBVIOUS
      <4>2. cmd \in Seq(T) /\ b \in T
        BY <3>1, <4>1
      <4>3. PICK t : t = Append(cmd, b) /\ t \in Seq(T) /\ t # <<>>
                     /\ \A k \in 1..Len(cmd) : t[k] = cmd[k]
        <5>1. /\ Append(cmd, b) \in Seq(T) /\ Append(cmd, b) # <<>>
              /\ \A k \in 1..Len(cmd) : Append(cmd, b)[k] = cmd[k]
          BY <4>2, AppendFacts
        <5> QED BY <5>1
      <4>4. Head(t) = t[1] /\ Head(cmd) = cmd[1] /\ 1 \in 1..Len(cmd)
        BY <3>1, <4>2, <4>3, TailFacts
      <4> QED BY <4>3, <4>4
    <3> QED BY <3>1, <3>2
  <2> QED BY <2>1 DEF UInv, LoadInBeat
<1>2. LoadOK(ld)' /\ StoreOK(st)' /\ (IdsIn(ld.vinsn, issued))' /\ (IdsIn(st.vinsn, issued))'
  BY DEF UInv
<1> QED BY <1>1, <1>2 DEF UInv

LEMMA ULoadUnit == AInv /\ Commands /\ UInv /\ LoadUnit => UInv'
<1> SUFFICES ASSUME AInv, Commands, UInv, LoadUnit PROVE UInv'
  OBVIOUS
<1>1. LoadCycle({}) /\ UNCHANGED <<issued, st, failed>>
  BY DEF LoadUnit
<1>2. issued \in Nat /\ issued <= issued /\ Programmed
  BY ProgramsAssumption DEF AInv, Programmed
<1>3. /\ LoadOK(ld') /\ Len(ld'.vinsn) <= LoadDepth /\ IdsIn(ld'.vinsn, issued)
      /\ ld'.r_pnt # 0 => /\ cmd # <<>> /\ cmd' = cmd /\ Head(cmd).is_load
                          /\ ld'.r_pnt < Room(Head(cmd), ld'.len)
      /\ done' \subseteq 1..issued
  BY <1>1, <1>2, LoadSide
<1>4. LoadInBeat'
  BY <1>3 DEF LoadInBeat
<1> QED BY <1>1, <1>3, <1>4 DEF UInv

LEMMA UStoreUnit == AInv /\ Commands /\ UInv /\ StoreUnit => UInv'
<1> SUFFICES ASSUME AInv, Commands, UInv, StoreUnit PROVE UInv'
  OBVIOUS
<1>1. StoreCycle({}) /\ UNCHANGED <<issued, ld, failed>>
  BY DEF StoreUnit
<1>2. issued \in Nat /\ issued <= issued /\ Programmed
  BY ProgramsAssumption DEF AInv, Programmed
<1>3. /\ StoreOK(st') /\ IdsIn(st'.vinsn, issued)
      /\ cmd' = cmd \/ (cmd # <<>> /\ ~Head(cmd).is_load /\ cmd' = Tail(cmd))
      /\ done' \subseteq 1..issued
  BY <1>1, <1>2, StoreSide
<1>4. LoadInBeat'
  BY <1>1, <1>3 DEF UInv, LoadInBeat
<1> QED BY <1>1, <1>3, <1>4 DEF UInv

LEMMA UIssue == AInv /\ Commands /\ UInv /\ Issue => UInv'
<1> SUFFICES ASSUME AInv, Commands, UInv, Issue PROVE UInv'
  OBVIOUS
<1>1. PICK n \in Nat, i \in AllInsns :
          /\ n = issued' /\ issued <= n /\ i = prog[issued + 1] /\ i.id \in 1..n
          /\ 1..issued \subseteq 1..n
  <2>1. PICK m \in Nat, p \in Programs : m = issued /\ p = prog /\ m < Len(p)
    BY ProgramsAssumption DEF AInv, Programmed, Issue
  <2>2. m + 1 \in 1..Len(p)
    BY <2>1, ProgramsAssumption
  <2>3. p[m + 1].id = m + 1 /\ p[m + 1] \in AllInsns
    BY <2>2, ProgramInsn DEF AllInsns
  <2>4. issued' = m + 1
    BY <2>1 DEF Issue
  <2>5. m + 1 \in Nat /\ m <= m + 1 /\ m + 1 \in 1..(m + 1) /\ 1..m \subseteq 1..(m + 1)
    OBVIOUS
  <2> QED BY <2>1, <2>3, <2>4, <2>5
<1>2. Programmed /\ failed' \subseteq 1..n
  BY <1>1 DEF AInv, UInv, Issue
<1>3. \/ /\ Len(ld.vinsn) # LoadDepth /\ LoadCycle({i}) /\ st' = st
      \/ /\ Len(st.vinsn) # StoreDepth /\ StoreCycle({i}) /\ ld' = ld
  BY <1>1 DEF Issue, vinsn_queue_full
<1>4. issued \in Nat
  BY ProgramsAssumption DEF AInv, Programmed
<1>5. CASE Len(ld.vinsn) # LoadDepth /\ LoadCycle({i}) /\ st' = st
  <2>1. /\ LoadOK(ld') /\ Len(ld'.vinsn) <= LoadDepth /\ IdsIn(ld'.vinsn, n)
        /\ ld'.r_pnt # 0 => /\ cmd # <<>> /\ cmd' = cmd /\ Head(cmd).is_load
                            /\ ld'.r_pnt < Room(Head(cmd), ld'.len)
        /\ done' \subseteq 1..n
    BY <1>1, <1>2, <1>5, LoadSide
  <2>2. LoadInBeat'
    BY <2>1 DEF LoadInBeat
  <2>3. IdsIn(st.vinsn, n)
    BY <1>1, <1>4, IdsMore DEF UInv
  <2> QED BY <1>1, <1>2, <1>5, <2>1, <2>2, <2>3 DEF UInv
<1>6. CASE Len(st.vinsn) # StoreDepth /\ StoreCycle({i}) /\ ld' = ld
  <2>1. /\ StoreOK(st') /\ IdsIn(st'.vinsn, n)
        /\ cmd' = cmd \/ (cmd # <<>> /\ ~Head(cmd).is_load /\ cmd' = Tail(cmd))
        /\ done' \subseteq 1..n
    BY <1>1, <1>2, <1>6, StoreSide
  <2>2. LoadInBeat'
    BY <1>6, <2>1 DEF UInv, LoadInBeat
  <2>3. IdsIn(ld.vinsn, n)
    BY <1>1, <1>4, IdsMore DEF UInv
  <2> QED BY <1>1, <1>2, <1>6, <2>1, <2>2, <2>3 DEF UInv
<1> QED BY <1>3, <1>5, <1>6

LEMMA UAddressGenerator == AInv /\ Commands /\ UInv /\ AddressGenerator => UInv'
<1> SUFFICES ASSUME AInv, Commands, UInv, AddressGenerator PROVE UInv'
  OBVIOUS
<1>1. UNCHANGED <<ld, st, issued, done>>
  BY DEF AddressGenerator, Misaligned, AxiIdle, AxiMisaligned, AxiWaiting, NextIndex,
         RequestBurst, RequestStrided, RequestIndexed, IndexedEnd, quiet_units
<1>2. failed' \subseteq 1..issued
  <2>1. CASE Misaligned \/ IndexedEnd
    <3>1. ag.state # "IDLE" /\ failed' \subseteq failed \cup {ag.insn.id}
      BY <2>1 DEF Misaligned, IndexedEnd
    <3>2. ag.insn \in Insns /\ Programmed
      BY <3>1 DEF AInv, Accessing
    <3>3. ag.insn.id \in 1..issued
      BY <3>2, InsnFacts
    <3> QED BY <3>1, <3>3 DEF UInv
  <2>2. CASE failed' = failed
    BY <2>2 DEF UInv
  <2> QED BY <2>1, <2>2 DEF AddressGenerator, AxiIdle, AxiMisaligned, AxiWaiting, NextIndex,
             RequestBurst, RequestStrided, RequestIndexed
<1>3. cmd' = cmd \/ \E b : cmd' = Append(cmd, b)
  <2>1. CASE RequestBurst \/ RequestStrided \/ RequestIndexed
    BY <2>1 DEF RequestBurst, RequestStrided, RequestIndexed, Request
  <2>2. CASE cmd' = cmd
    BY <2>2
  <2> QED BY <2>1, <2>2 DEF AddressGenerator, Misaligned, AxiIdle, AxiMisaligned, AxiWaiting,
             NextIndex, IndexedEnd
<1> QED BY <1>1, <1>2, <1>3, Still

LEMMA UNext == AInv /\ Commands /\ UInv /\ [Next]_vars => UInv'
<1> SUFFICES ASSUME AInv, Commands, UInv, [Next]_vars PROVE UInv'
  OBVIOUS
<1>1. CASE UNCHANGED vars
  <2>1. UNCHANGED <<ld, st, issued, done, cmd, failed>>
    BY <1>1 DEF vars, units, history
  <2>2. failed' \subseteq 1..issued
    BY <2>1 DEF UInv
  <2> QED BY <2>1, <2>2, Still
<1> QED BY <1>1, UIssue, UAddressGenerator, ULoadUnit, UStoreUnit DEF Next

LEMMA UInit == Init => Commands /\ UInv
<1> SUFFICES ASSUME Init PROVE Commands /\ UInv
  OBVIOUS
<1>1. /\ ld = IdleLoadUnit /\ st = IdleStoreUnit /\ cmd = <<>> /\ done = {} /\ failed = {}
      /\ issued = 0
  BY DEF Init
<1>2. /\ MaxBeats \in Nat \ {0} /\ VrfBytes \in Nat \ {0} /\ LoadDepth \in Nat \ {0}
      /\ StoreDepth \in Nat \ {0} /\ CmdDepth \in Nat
  BY AxiAssumption, UnitsAssumption, ProgramsAssumption
<1>3. \A S : <<>> \in Seq(S) /\ Len(<<>>) = 0
  OBVIOUS
<1>4. Commands
  BY <1>1, <1>2, <1>3 DEF Commands
<1>5. UnitTyped(ld) /\ InWord(ld) /\ UnitTyped(st) /\ InWord(st)
  BY <1>1, <1>2, <1>3 DEF UnitTyped, InWord, IdleLoadUnit, IdleStoreUnit
<1>6. LoadTyped(ld)
  BY <1>1, <1>3, <1>5 DEF LoadTyped, LoadFields, IdleLoadUnit, IsSeq
<1>7. InBooks(ld)
  <2>1. Unissued(ld) = 0 /\ Second(ld) = 0
    BY <1>1, <1>3 DEF Unissued, Second, IdleLoadUnit
  <2>2. Books(0, 0, 0, 0, 0, 0, 0)
    BY DEF Books, Times
  <2> QED BY <1>1, <1>3, <2>1, <2>2 DEF InBooks, IdleLoadUnit
<1>8. LoadOK(ld)
  BY <1>1, <1>5, <1>6, <1>7 DEF LoadOK, LoadKept, IdleLoadUnit
<1>9. StoreTyped(st)
  BY <1>1, <1>2, <1>3, <1>5 DEF StoreTyped, StoreFields, IdleStoreUnit
<1>10. Pointers(st)
  <2>1. Ahead(0, 0, 0)
    BY <1>2 DEF Ahead
  <2>2. 0 - 0 = 0
    OBVIOUS
  <2> QED BY <1>1, <1>3, <2>1, <2>2 DEF Pointers, IdleStoreUnit
<1>11. LoadInBeat
  BY <1>1 DEF LoadInBeat, IdleLoadUnit
<1>12. Len(ld.vinsn) <= LoadDepth /\ IdsIn(ld.vinsn, issued) /\ IdsIn(st.vinsn, issued)
  BY <1>1, <1>2, <1>3 DEF IdsIn, IdleLoadUnit, IdleStoreUnit
<1> QED BY <1>1, <1>4, <1>5, <1>8, <1>9, <1>10, <1>11, <1>12 DEF UInv, StoreOK

\* The inductive invariant.
VInv == AInv /\ AlignedIndices(prog) /\ Commands /\ UInv

LEMMA Bounded == VInv => WithinBounds
<1> SUFFICES ASSUME VInv PROVE TypeOK /\ BurstsInPage
  BY DEF WithinBounds
<1>1. issued \in 0..Len(prog) /\ Len(cmd) <= CmdDepth /\ Len(ag.spill) <= 2
  BY DEF VInv, AInv, Programmed, Commands, AGTyped
<1>2. LoadTyped(ld) /\ InWord(ld) /\ StoreTyped(st) /\ InWord(st)
  BY DEF VInv, UInv, LoadOK, LoadKept, StoreOK
<1>3. /\ Len(ld.vinsn) <= LoadDepth /\ ld.issue_cnt \in 0..Len(ld.vinsn)
      /\ Len(st.vinsn) <= StoreDepth /\ st.issue_cnt \in 0..Len(st.vinsn)
      /\ ld.vrf_pnt < VrfBytes /\ st.vrf_pnt < VrfBytes
      /\ done \subseteq 1..issued /\ failed \subseteq 1..issued
  <2>1. ld.issue_cnt \in 0..Len(ld.vinsn) /\ st.issue_cnt \in 0..Len(st.vinsn)
    BY <1>2 DEF LoadTyped, StoreTyped, UnitTyped
  <2>2. ld.vrf_pnt < VrfBytes /\ st.vrf_pnt < VrfBytes
    BY <1>2 DEF InWord
  <2>3. Len(ld.vinsn) <= LoadDepth /\ Len(st.vinsn) <= StoreDepth
    BY <1>2 DEF VInv, UInv, StoreTyped
  <2>4. done \subseteq 1..issued /\ failed \subseteq 1..issued
    BY DEF VInv, UInv
  <2> QED BY <2>1, <2>2, <2>3, <2>4, Zenon
<1>4. Len(ld.result_queue) <= ResultQueueDepth
  <2>1. Len(ld.result_queue) \in 0..2
    BY <1>2 DEF LoadTyped
  <2>2. PICK k \in 0..2 : k = Len(ld.result_queue)
    BY <2>1
  <2>3. k <= 2
    OBVIOUS
  <2> QED BY <2>2, <2>3 DEF ResultQueueDepth
<1>5. ld.r_pnt < AxiBytes
  <2>1. PICK x \in Nat \ {0} : x = AxiBytes
    BY AxiAssumption
  <2>2. PICK r \in Nat : r = ld.r_pnt
    BY <1>2 DEF LoadTyped
  <2>3. CASE r = 0
    BY <2>1, <2>2, <2>3
  <2>4. CASE r # 0
    <3>1. PICK b \in Bursts : r < Room(b, ld.len)
      <4>1. cmd # <<>> /\ cmd \in Seq(Bursts) /\ ld.r_pnt < Room(Head(cmd), ld.len)
        BY <2>2, <2>4 DEF VInv, UInv, LoadInBeat, Commands
      <4>2. Head(cmd) \in Bursts
        BY <4>1, TailFacts
      <4> QED BY <2>2, <4>1, <4>2
    <3>2. b.addr \in Int /\ b.size \in Sizes /\ ld.len \in Nat
      BY <1>2 DEF Bursts, LoadTyped, UnitTyped
    <3>3. PICK lower \in 0..(x - 1), upper \in 0..(x - 1) :
              lower = beat_lower_byte(b, ld.len) /\ upper = beat_upper_byte(b, ld.len)
      BY <2>1, <3>2, BeatLimits
    <3>4. r < upper - lower + 1
      BY <3>1, <3>3 DEF Room
    <3>5. r < x
      BY <3>4
    <3> QED BY <2>1, <2>2, <3>5
  <2> QED BY <2>3, <2>4
<1>6. BurstsInPage
  <2>1. ASSUME NEW b \in {cmd[n] : n \in DOMAIN cmd}
        PROVE  b.len \in 0..(MaxBeats - 1) /\ InPage(b)
    <3>1. PICK n \in DOMAIN cmd : b = cmd[n]
      BY <2>1
    <3>2. cmd \in Seq(Bursts) /\ \A k \in 1..Len(cmd) : InPage(cmd[k])
      BY DEF VInv, Commands
    <3>3. n \in 1..Len(cmd) /\ cmd[n] \in Bursts
      BY <3>1, <3>2
    <3> QED BY <3>1, <3>2, <3>3 DEF Bursts
  <2> QED BY <2>1 DEF BurstsInPage, InPage
<1> QED BY <1>1, <1>3, <1>4, <1>5, <1>6 DEF TypeOK

LEMMA SameProgram == [Next]_vars => prog' = prog
<1> SUFFICES ASSUME [Next]_vars PROVE prog' = prog
  OBVIOUS
<1>1. CASE Issue
  BY <1>1 DEF Issue
<1>2. CASE AddressGenerator
  BY <1>2 DEF AddressGenerator, Misaligned, AxiIdle, AxiMisaligned, AxiWaiting, NextIndex,
     RequestBurst, RequestStrided, RequestIndexed, IndexedEnd, quiet_units
<1>3. CASE LoadUnit \/ StoreUnit
  BY <1>3 DEF LoadUnit, StoreUnit
<1>4. CASE UNCHANGED vars
  BY <1>4 DEF vars
<1> QED BY <1>1, <1>2, <1>3, <1>4 DEF Next

(***************************************************************************)
(* Queues, positions and bursts keep their limits for any program whose    *)
(* indexed accesses are aligned: a burst stays in its page and is never    *)
(* longer than AXI allows, no queue overflows, no unit runs past the end   *)
(* of a beat or of a word (p_addr_generation, p_vldu, p_vstu).             *)
(***************************************************************************)
THEOREM AlwaysWithinBounds == Spec /\ AlignedIndices(prog) => []WithinBounds
<1>1. Init /\ AlignedIndices(prog) => VInv
  BY AInit, UInit DEF VInv
<1>2. VInv /\ [Next]_vars => VInv'
  <2> SUFFICES ASSUME VInv, [Next]_vars PROVE VInv'
    OBVIOUS
  <2>1. AInv' /\ Commands' /\ UInv'
    BY AGNext, CommandsNext, UNext DEF VInv
  <2>2. AlignedIndices(prog)'
    BY SameProgram DEF VInv, AlignedIndices
  <2> QED BY <2>1, <2>2 DEF VInv
<1> QED BY <1>1, <1>2, Bounded, PTL DEF Spec
=============================================================================
