-------------------------- MODULE InvalFilterProofs --------------------------
(***************************************************************************)
(* What the invalidation filter promises, proved for any bursts, any width *)
(* of a cache line and any depth of the FIFO.                              *)
(***************************************************************************)
EXTENDS InvalFilter, TLAPS

(***************************************************************************)
(* The addresses asked for a burst: its own, then the start of every       *)
(* further line.  The offset of the first is 0.                            *)
(***************************************************************************)
Offset(b, n) == IF n = 0 THEN 0 ELSE ToNextLine(b) + (n - 1) * L1LineWidth

InOrder(b, s) == \A i \in 1..Len(s) : s[i] = b.addr + Offset(b, i - 1)

\* The first burst of the FIFO has been asked for so far, and not to its end.
Progress ==
    state = "Invalidating" =>
        /\ Len(asked) >= 1
        /\ InOrder(Head(aw_fifo), asked)
        /\ inval_offset = Offset(Head(aw_fifo), Len(asked))
        /\ inval_offset < bytes(Head(aw_fifo))

\* The addresses of a burst that is done end where its bytes do.
Covered(b, s) ==
    /\ Len(s) >= 1
    /\ InOrder(b, s)
    /\ Offset(b, Len(s)) >= bytes(b)
    /\ Len(s) > 1 => Offset(b, Len(s) - 1) < bytes(b)

IInv ==
    /\ TypeOK
    /\ Progress
    /\ finished.burst # None => Covered(finished.burst, finished.asked)

-----------------------------------------------------------------------------
(* Arithmetic *)

\* A line is the quotient of an address, whatever the rest.
LEMMA Quotient ==
    ASSUME NEW w \in Nat \ {0}, NEW q \in Int, NEW r \in 0..w - 1
    PROVE  (q * w + r) \div w = q
OBVIOUS

LEMMA Divided ==
    ASSUME NEW w \in Nat \ {0}, NEW a \in Nat
    PROVE  /\ a \div w \in Nat
           /\ a % w \in 0..w - 1
           /\ a = (a \div w) * w + (a % w)
OBVIOUS

\* An address further on is not on an earlier line.
LEMMA Monotone ==
    ASSUME NEW w \in Nat \ {0}, NEW a \in Nat, NEW c \in Nat, a <= c
    PROVE  a \div w <= c \div w
OBVIOUS

\* The lines of addresses, whatever their width.
LEMMA Lines ==
    ASSUME NEW a \in Nat, NEW c \in Nat
    PROVE  /\ LineOf(a) \in Nat
           /\ LineOf(a) * L1LineWidth <= a
           /\ a <= c => LineOf(a) <= LineOf(c)
<1>1. L1LineWidth \in Nat \ {0}
  BY SizesAssumption
<1>2. LineOf(a) \in Nat /\ a % L1LineWidth \in 0..L1LineWidth - 1
      /\ a = LineOf(a) * L1LineWidth + (a % L1LineWidth)
  BY <1>1, Divided DEF LineOf
<1>3. a <= c => LineOf(a) <= LineOf(c)
  BY <1>1, Monotone DEF LineOf
<1>4. LineOf(a) * L1LineWidth \in Nat
  BY <1>1, <1>2
<1> QED BY <1>1, <1>2, <1>3, <1>4

\* Whole lines are as long as the one that counts more of them.
LEMMA Longer ==
    ASSUME NEW w \in Nat \ {0}, NEW x \in Nat, NEW y \in Nat, x <= y
    PROVE  x * w <= y * w
OBVIOUS

\* A burst has a byte, and the next line begins at most a line further on.
LEMMA BurstType ==
    ASSUME NEW b \in Bursts
    PROVE  /\ b.addr \in Nat
           /\ bytes(b) \in Nat \ {0}
           /\ ToNextLine(b) \in 1..L1LineWidth
           /\ b.addr + ToNextLine(b) = (LineOf(b.addr) + 1) * L1LineWidth
           /\ LineOf(b.addr) \in Nat
<1>1. b.addr \in Nat /\ b.len \in Nat /\ b.size \in Nat \ {0}
  BY BurstsAssumption
<1>2. bytes(b) \in Nat \ {0}
  <2>1. b.len + 1 \in Nat \ {0}
    BY <1>1
  <2>2. \A m, n \in Nat \ {0} : m * n \in Nat \ {0}
    OBVIOUS
  <2> QED BY <1>1, <2>1, <2>2 DEF bytes
<1> DEFINE q == b.addr \div L1LineWidth
           r == b.addr % L1LineWidth
<1>3. q \in Nat /\ r \in 0..L1LineWidth - 1 /\ b.addr = q * L1LineWidth + r
  BY <1>1, Divided, SizesAssumption
<1>4. ToNextLine(b) = L1LineWidth - r /\ LineOf(b.addr) = q
  BY DEF ToNextLine, LineOf
<1> HIDE DEF q, r
<1>5. q * L1LineWidth + L1LineWidth = (q + 1) * L1LineWidth
  BY <1>3, SizesAssumption
<1> QED BY <1>1, <1>2, <1>3, <1>4, <1>5, SizesAssumption

\* The offsets go up by a line, and each is on a line of its own.
LEMMA OffsetLine ==
    ASSUME NEW b \in Bursts, NEW n \in Nat
    PROVE  /\ Offset(b, n) \in Nat
           /\ n > 0 => b.addr + Offset(b, n) = (LineOf(b.addr) + n) * L1LineWidth
           /\ n > 0 => Offset(b, n + 1) = Offset(b, n) + L1LineWidth
           /\ LineOf(b.addr + Offset(b, n)) = LineOf(b.addr) + n
<1> DEFINE q == LineOf(b.addr)
<1>1. /\ b.addr \in Nat /\ ToNextLine(b) \in 1..L1LineWidth /\ q \in Nat
      /\ b.addr + ToNextLine(b) = (q + 1) * L1LineWidth
  BY BurstType
<1>2. CASE n = 0
  BY <1>1, <1>2 DEF Offset
<1>3. CASE n > 0
  <2> DEFINE m == n - 1
  <2>1. m \in Nat /\ n = m + 1
    BY <1>3
  <2>2. Offset(b, n) = ToNextLine(b) + m * L1LineWidth
    BY <1>3 DEF Offset
  <2>3. Offset(b, n + 1) = ToNextLine(b) + n * L1LineWidth
    BY <1>3 DEF Offset
  <2> HIDE DEF m, q
  <2>4. n * L1LineWidth = m * L1LineWidth + L1LineWidth /\ m * L1LineWidth \in Nat
    BY <2>1, SizesAssumption
  <2>5. (q + 1) * L1LineWidth + m * L1LineWidth = (q + n) * L1LineWidth
    BY <1>1, <2>1, SizesAssumption
  <2>6. b.addr + Offset(b, n) = (q + n) * L1LineWidth
    BY <1>1, <2>2, <2>4, <2>5, SizesAssumption
  <2>7. LineOf(b.addr + Offset(b, n)) = q + n
    <3>1. ((q + n) * L1LineWidth + 0) \div L1LineWidth = q + n
      BY <1>1, Quotient, SizesAssumption
    <3>2. (q + n) * L1LineWidth + 0 = (q + n) * L1LineWidth
      BY <1>1, SizesAssumption
    <3> QED BY <2>6, <3>1, <3>2 DEF LineOf
  <2> QED BY <1>1, <1>3, <2>2, <2>3, <2>4, <2>6, <2>7, SizesAssumption DEF q
<1> QED BY <1>2, <1>3

-----------------------------------------------------------------------------
(***************************************************************************)
(* A burst whose addresses end where its bytes do has all its lines asked. *)
(***************************************************************************)
LEMMA CoveredInvalidated ==
    ASSUME NEW b \in Bursts, NEW s \in Seq(Nat), Covered(b, s)
    PROVE  LET lines == {LineOf(s[i]) : i \in DOMAIN s}
               first == LineOf(b.addr)
           IN  /\ LinesOf(b) \subseteq lines
               /\ \A i \in DOMAIN s : LineOf(s[i]) = first + i - 1
               /\ \A l \in lines : l <= LineOf(b.addr + bytes(b) - 1)
<1> DEFINE first == LineOf(b.addr)
           n == Len(s)
           last == b.addr + bytes(b) - 1
           lines == {LineOf(s[i]) : i \in DOMAIN s}
<1>1. DOMAIN s = 1..n /\ n \in Nat \ {0}
  BY DEF Covered
<1>2. b.addr \in Nat /\ bytes(b) \in Nat \ {0} /\ first \in Nat
  BY BurstType
<1>3. last \in Nat
  BY <1>2
<1>4. LineOf(last) \in Nat /\ LineOf(last) * L1LineWidth <= last
  BY <1>3, Lines
<1>5. \A i \in 1..n : LineOf(s[i]) = first + (i - 1)
  <2> SUFFICES ASSUME NEW i \in 1..n PROVE LineOf(s[i]) = first + (i - 1)
    OBVIOUS
  <2>1. s[i] = b.addr + Offset(b, i - 1)
    BY DEF Covered, InOrder
  <2>2. i - 1 \in Nat
    BY <1>1
  <2>3. LineOf(b.addr + Offset(b, i - 1)) = first + (i - 1)
    BY <2>2, OffsetLine
  <2> QED BY <2>1, <2>3
\* The last line is among those asked for.
<1>6. LineOf(last) < first + n
  <2>1. b.addr + Offset(b, n) = (first + n) * L1LineWidth /\ Offset(b, n) \in Nat
    BY <1>1, OffsetLine
  <2>2. Offset(b, n) >= bytes(b)
    BY DEF Covered
  <2>3. last < (first + n) * L1LineWidth
    BY <1>2, <2>1, <2>2
  <2>4. first + n \in Nat
    BY <1>1, <1>2
  <2> HIDE DEF first, n, last
  <2>5. CASE LineOf(last) >= first + n
    <3>1. (first + n) * L1LineWidth <= LineOf(last) * L1LineWidth
      BY <1>4, <2>4, <2>5, Longer, SizesAssumption
    <3>2. /\ (first + n) * L1LineWidth \in Nat
          /\ LineOf(last) * L1LineWidth \in Nat
      BY <1>4, <2>4, SizesAssumption
    <3> QED BY <1>3, <1>4, <2>3, <3>1, <3>2
  <2> QED BY <1>4, <2>4, <2>5
\* None asked for is past it.
<1>7. first + (n - 1) <= LineOf(last)
  <2>1. CASE n = 1
    <3>1. b.addr <= last
      BY <1>2
    <3>2. first <= LineOf(last)
      BY <1>2, <1>3, <3>1, Lines
    <3> QED BY <1>2, <2>1, <3>2
  <2>2. CASE n > 1
    <3>1. n - 1 \in Nat
      BY <1>1
    <3>2. /\ Offset(b, n - 1) \in Nat
          /\ LineOf(b.addr + Offset(b, n - 1)) = first + (n - 1)
      BY <3>1, OffsetLine
    <3>3. Offset(b, n - 1) < bytes(b)
      BY <2>2 DEF Covered
    <3>4. b.addr + Offset(b, n - 1) <= last /\ b.addr + Offset(b, n - 1) \in Nat
      BY <1>2, <3>2, <3>3
    <3>5. LineOf(b.addr + Offset(b, n - 1)) <= LineOf(last)
      BY <1>3, <3>4, Lines
    <3> QED BY <3>2, <3>5
  <2> QED BY <1>1, <2>1, <2>2
<1>8. LinesOf(b) \subseteq lines
  <2> DEFINE start == b.addr - (b.addr % b.size)
             end == start + bytes(b) - 1
  <2>1. start \in Nat /\ start <= b.addr
    <3>1. b.size \in Nat \ {0}
      BY BurstsAssumption
    <3>2. \A a \in Nat, w \in Nat \ {0} : a - (a % w) \in Nat /\ a - (a % w) <= a
      OBVIOUS
    <3> QED BY <1>2, <3>1, <3>2
  <2>2. end \in Nat /\ end <= last
    BY <1>2, <2>1
  <2>3. LineOf(end) <= LineOf(last) /\ LineOf(end) \in Nat
    BY <1>3, <2>2, Lines
  <2>4. LinesOf(b) = first..LineOf(end)
    BY DEF LinesOf
  <2> HIDE DEF end, first, n, last
  <2>5. ASSUME NEW l \in first..LineOf(end) PROVE l \in lines
    <3> DEFINE i == l - first + 1
    <3>1. i \in 1..n /\ first + (i - 1) = l
      BY <1>1, <1>2, <1>4, <1>6, <2>3
    <3>2. LineOf(s[i]) = l
      BY <1>5, <3>1
    <3> QED BY <1>1, <3>1, <3>2
  <2> QED BY <2>4, <2>5
<1>9. \A l \in lines : l <= LineOf(last)
  <2> SUFFICES ASSUME NEW i \in 1..n PROVE LineOf(s[i]) <= LineOf(last)
    BY <1>1
  <2>1. LineOf(s[i]) = first + (i - 1)
    BY <1>5
  <2> HIDE DEF first, n, last
  <2> QED BY <1>1, <1>2, <1>4, <1>7, <2>1
<1>10. \A i \in DOMAIN s : LineOf(s[i]) = first + i - 1
  <2> HIDE DEF first, n
  <2> QED BY <1>1, <1>2, <1>5
<1> QED BY <1>8, <1>9, <1>10

-----------------------------------------------------------------------------
(* The invariant is kept *)

LEMMA InitInv == Init => IInv
BY SizesAssumption DEF Init, IInv, TypeOK, Progress

\* A burst is only added behind the others, and while there is room.
LEMMA SeenType ==
    ASSUME TypeOK, NEW en \in BOOLEAN, NEW aw_ready \in BOOLEAN
    PROVE  /\ Seen(en, aw_ready) \in Seq(Bursts)
           /\ Len(Seen(en, aw_ready)) <= MaxTxns
           /\ aw_fifo # <<>> => /\ Seen(en, aw_ready) # <<>>
                                /\ Head(Seen(en, aw_ready)) = Head(aw_fifo)
<1>1. CASE en /\ Passes(aw_ready)
  <2>1. aw \in Bursts
    BY <1>1 DEF TypeOK, Passes
  <2>2. Len(aw_fifo) < MaxTxns
    BY <1>1, SizesAssumption DEF TypeOK, Passes, aw_fifo_full
  <2>3. Seen(en, aw_ready) = Append(aw_fifo, aw)
    BY <1>1 DEF Seen
  <2> QED BY <2>1, <2>2, <2>3, SizesAssumption DEF TypeOK
<1>2. CASE ~(en /\ Passes(aw_ready))
  BY <1>2 DEF Seen, TypeOK
<1> QED BY <1>1, <1>2

\* The address asked for now continues those asked for before.
LEMMA AskInOrder ==
    ASSUME IInv, NEW b \in Bursts,
           state = "Invalidating" => b = Head(aw_fifo),
           state = "Invalidating" => inval_offset = Offset(b, Len(asked))
    PROVE  /\ Ask(b) \in Seq(Nat)
           /\ Len(Ask(b)) = Len(asked) + 1
           /\ InOrder(b, Ask(b))
<1>1. /\ asked \in Seq(Nat) /\ inval_offset \in Nat
      /\ state = "Idle" => asked = <<>> /\ inval_offset = 0
      /\ state \in {"Idle", "Invalidating"}
  BY DEF IInv, TypeOK
<1>2. b.addr \in Nat
  BY BurstType
<1>3. Ask(b) \in Seq(Nat) /\ Len(Ask(b)) = Len(asked) + 1
  BY <1>1, <1>2 DEF Ask
<1>4. inval_offset = Offset(b, Len(asked))
  BY <1>1 DEF Offset
<1>5. ASSUME NEW i \in 1..Len(Ask(b)) PROVE Ask(b)[i] = b.addr + Offset(b, i - 1)
  <2>1. CASE i = Len(asked) + 1
    <3>1. Ask(b)[i] = b.addr + inval_offset
      BY <1>1, <1>2, <2>1 DEF Ask
    <3>2. i - 1 = Len(asked)
      BY <1>1, <2>1
    <3> QED BY <1>4, <3>1, <3>2
  <2>2. CASE i # Len(asked) + 1
    <3>1. i \in 1..Len(asked)
      BY <1>1, <1>3, <2>2
    <3>2. Ask(b)[i] = asked[i]
      BY <1>1, <1>2, <3>1 DEF Ask
    <3>3. state = "Invalidating"
      BY <1>1, <3>1
    <3> QED BY <3>1, <3>2, <3>3 DEF IInv, Progress, InOrder
  <2> QED BY <2>1, <2>2
<1> QED BY <1>3, <1>5 DEF InOrder

\* The first burst leaves: what was asked for it covers its bytes.
LEMMA PopKeeps ==
    ASSUME IInv, NEW fifo \in Seq(Bursts), Len(fifo) <= MaxTxns, fifo # <<>>,
           aw' \in Bursts \cup {None}, Pop(fifo),
           Covered(Head(fifo), Ask(Head(fifo))), Ask(Head(fifo)) \in Seq(Nat)
    PROVE  IInv'
<1>1. Head(fifo) \in Bursts /\ Tail(fifo) \in Seq(Bursts) /\ Len(Tail(fifo)) <= MaxTxns
  BY SizesAssumption
<1>2. TypeOK'
  BY <1>1 DEF TypeOK, Pop
<1>3. Progress'
  BY DEF Progress, Pop
<1>4. Covered(finished.burst, finished.asked)'
  BY DEF Pop, Covered, InOrder, Offset, ToNextLine, bytes
<1> QED BY <1>2, <1>3, <1>4 DEF IInv

\* The first burst stays, with a line more asked for.
LEMMA GoOnKeeps ==
    ASSUME IInv, NEW fifo \in Seq(Bursts), Len(fifo) <= MaxTxns, fifo # <<>>,
           aw' \in Bursts \cup {None}, NEW offset \in Nat, GoOn(fifo, offset),
           Ask(Head(fifo)) \in Seq(Nat), Len(Ask(Head(fifo))) >= 1,
           InOrder(Head(fifo), Ask(Head(fifo))),
           offset = Offset(Head(fifo), Len(Ask(Head(fifo)))),
           offset < bytes(Head(fifo))
    PROVE  IInv'
<1>1. TypeOK'
  BY DEF TypeOK, GoOn, IInv
<1>2. Progress'
  BY DEF Progress, GoOn, InOrder, Offset, ToNextLine, bytes
<1>3. (finished.burst # None => Covered(finished.burst, finished.asked))'
  BY DEF GoOn, IInv, Covered, InOrder, Offset, ToNextLine, bytes
<1> QED BY <1>1, <1>2, <1>3 DEF IInv

LEMMA WaitKeeps ==
    ASSUME IInv, NEW fifo \in Seq(Bursts), Len(fifo) <= MaxTxns,
           aw_fifo # <<>> => fifo # <<>> /\ Head(fifo) = Head(aw_fifo),
           aw' \in Bursts \cup {None}, Wait(fifo)
    PROVE  IInv'
<1>1. TypeOK'
  BY DEF TypeOK, Wait, IInv
<1>2. Progress'
  BY DEF Progress, Wait, IInv, TypeOK, InOrder, Offset, ToNextLine, bytes
<1>3. (finished.burst # None => Covered(finished.burst, finished.asked))'
  BY DEF Wait, IInv, Covered, InOrder, Offset, ToNextLine, bytes
<1> QED BY <1>1, <1>2, <1>3 DEF IInv

LEMMA NextInv == IInv /\ [Next]_vars => IInv'
<1> SUFFICES ASSUME IInv, [Next]_vars PROVE IInv'
  OBVIOUS
<1>1. CASE UNCHANGED vars
  BY <1>1 DEF vars, IInv, TypeOK, Progress, Covered, InOrder, Offset, ToNextLine, bytes
<1>2. ASSUME NEW en \in BOOLEAN, NEW aw_ready \in BOOLEAN, NEW inval_ready \in BOOLEAN,
             Cycle(en, aw_ready, inval_ready)
      PROVE  IInv'
  <2> DEFINE fifo == Seen(en, aw_ready)
             b == Head(fifo)
  <2>1. /\ fifo \in Seq(Bursts) /\ Len(fifo) <= MaxTxns
        /\ aw_fifo # <<>> => fifo # <<>> /\ b = Head(aw_fifo)
    BY SeenType DEF IInv
  <2>2. aw' \in Bursts \cup {None}
    BY <1>2 DEF Cycle, StoreUnit, IInv, TypeOK
  <2>3. \/ fifo # <<>> /\ (FirstLine(fifo) \/ NextLine(fifo))
        \/ Wait(fifo)
    BY <1>2 DEF Cycle
  <2> HIDE DEF fifo
  <2>4. CASE Wait(fifo)
    BY <2>1, <2>2, <2>4, WaitKeeps
  <2>5. CASE fifo # <<>> /\ (FirstLine(fifo) \/ NextLine(fifo))
    <3>1. b \in Bursts
      BY <2>1, <2>5
    <3>2. state = "Invalidating" => b = Head(aw_fifo)
      BY <2>1 DEF IInv, TypeOK
    <3>3. state = "Invalidating" => inval_offset = Offset(b, Len(asked))
      BY <3>2 DEF IInv, Progress
    <3>4. Ask(b) \in Seq(Nat) /\ Len(Ask(b)) = Len(asked) + 1 /\ InOrder(b, Ask(b))
      BY <3>1, <3>2, <3>3, AskInOrder
    <3>5. bytes(b) \in Nat \ {0} /\ ToNextLine(b) \in Nat
      BY <3>1, BurstType
    <3>6. Len(asked) \in Nat /\ inval_offset \in Nat
      BY DEF IInv, TypeOK
    <3>7. CASE FirstLine(fifo)
      <4> DEFINE n == Len(Ask(b))
      <4>1. n = 1
        BY <3>4, <3>7 DEF FirstLine, IInv, TypeOK
      <4>2. Offset(b, n) = ToNextLine(b) /\ n >= 1 /\ ~(n > 1)
        <5> HIDE DEF n
        <5> QED BY <3>5, <4>1, SizesAssumption DEF Offset
      <4>3. CASE ToNextLine(b) < bytes(b)
        <5>1. GoOn(fifo, ToNextLine(b))
          BY <3>7, <4>3 DEF FirstLine
        <5> QED BY <2>1, <2>2, <2>5, <3>4, <3>5, <4>2, <4>3, <5>1, GoOnKeeps
      <4>4. CASE ~(ToNextLine(b) < bytes(b))
        <5>1. Pop(fifo)
          BY <3>7, <4>4 DEF FirstLine
        <5>2. Offset(b, n) >= bytes(b)
          BY <3>5, <4>2, <4>4
        <5>3. Covered(b, Ask(b))
          BY <3>4, <4>2, <5>2 DEF Covered
        <5> QED BY <2>1, <2>2, <2>5, <3>4, <5>1, <5>3, PopKeeps
      <4> QED BY <4>3, <4>4
    <3>8. CASE NextLine(fifo)
      <4> DEFINE offset == inval_offset + L1LineWidth
      <4>1. state = "Invalidating" /\ b = Head(aw_fifo)
        BY <3>2, <3>8 DEF NextLine
      <4>2. /\ Len(asked) >= 1
            /\ inval_offset = Offset(b, Len(asked))
            /\ inval_offset < bytes(b)
        BY <4>1 DEF IInv, Progress
      <4>3. offset = Offset(b, Len(asked) + 1) /\ offset \in Nat
        <5>1. Len(asked) > 0
          BY <3>6, <4>2
        <5>2. Offset(b, Len(asked) + 1) = Offset(b, Len(asked)) + L1LineWidth
          BY <3>1, <3>6, <5>1, OffsetLine
        <5> QED BY <3>6, <4>2, <5>2, SizesAssumption
      <4>4. CASE offset >= bytes(b)
        <5>1. Pop(fifo)
          BY <3>8, <4>4 DEF NextLine
        <5>2. Covered(b, Ask(b))
          BY <3>4, <3>6, <4>2, <4>3, <4>4 DEF Covered
        <5> QED BY <2>1, <2>2, <2>5, <3>4, <5>1, <5>2, PopKeeps
      <4>5. CASE ~(offset >= bytes(b))
        <5>1. GoOn(fifo, offset)
          BY <3>8, <4>5 DEF NextLine
        <5>2. offset < bytes(b)
          BY <3>5, <4>3, <4>5
        <5>3. Len(Ask(b)) >= 1
          BY <3>4, <3>6
        <5>4. offset = Offset(b, Len(Ask(b)))
          BY <3>4, <4>3
        <5> HIDE DEF offset
        <5> QED BY <2>1, <2>2, <2>5, <3>4, <4>3, <5>1, <5>2, <5>3, <5>4, GoOnKeeps
      <4> QED BY <4>4, <4>5
    <3> QED BY <2>5, <3>7, <3>8
  <2> QED BY <2>3, <2>4, <2>5
<1> QED BY <1>1, <1>2 DEF Next

LEMMA InvImplies == IInv => EveryLineInvalidated
<1> SUFFICES ASSUME IInv, finished.burst # None
             PROVE  EveryLineInvalidated
  BY DEF EveryLineInvalidated
<1>1. finished.burst \in Bursts /\ finished.asked \in Seq(Nat)
  BY DEF IInv, TypeOK
<1>2. Covered(finished.burst, finished.asked)
  BY DEF IInv
<1> QED BY <1>1, <1>2, CoveredInvalidated DEF EveryLineInvalidated

-----------------------------------------------------------------------------
(***************************************************************************)
(* The filter never holds more bursts than its FIFO has room for, and only *)
(* asks for lines of a burst it holds (axi_inval_filter.sv).               *)
(***************************************************************************)
THEOREM FilterTypeCorrect == Spec => []TypeOK
<1>1. IInv => TypeOK
  BY DEF IInv
<1> QED BY InitInv, NextInv, <1>1, PTL DEF Spec

(***************************************************************************)
(* Whatever the bursts, the width of a line and the depth of the FIFO,     *)
(* every line a burst writes to is invalidated once and in order before    *)
(* the burst is forgotten, and none past the bytes it counts.              *)
(***************************************************************************)
THEOREM LinesInvalidated == Spec => []EveryLineInvalidated
<1> QED BY InitInv, NextInv, InvImplies, PTL DEF Spec
=============================================================================
