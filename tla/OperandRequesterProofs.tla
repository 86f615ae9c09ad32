----------------------- MODULE OperandRequesterProofs -----------------------
(***************************************************************************)
(* Proofs about a lane, for any programs, banks and depths of queues.      *)
(***************************************************************************)
EXTENDS OperandRequester, WellFoundedInduction, TLAPS

-----------------------------------------------------------------------------
(***************************************************************************)
(* What flows through a queue: an instruction n of D sends its words       *)
(* B[n] + lo[n] to B[n] + hi[n] - 1, in order and after those of the       *)
(* instructions before it.                                                 *)
(***************************************************************************)
Flow(s, D, B, lo, hi) ==
    /\ \A k \in 1..Len(s) :
          /\ s[k].id \in D
          /\ B[s[k].id] + lo[s[k].id] <= s[k].addr
          /\ s[k].addr < B[s[k].id] + hi[s[k].id]
    /\ \A j, k \in 1..Len(s) : j < k =>
          \/ s[j].id < s[k].id
          \/ s[j].id = s[k].id /\ s[j].addr < s[k].addr
    /\ \A n \in D :
          /\ lo[n] <= hi[n]
          /\ \A w \in lo[n]..(hi[n] - 1) :
                \E k \in 1..Len(s) : s[k].id = n /\ s[k].addr = B[n] + w

\* Sets of numbered words, and functions that count them.
Words(S) == \A x \in S : x.id \in Nat /\ x.addr \in Int
Counts(D, B, lo, hi) ==
    \A n \in D : n \in Nat /\ B[n] \in Int /\ lo[n] \in Nat /\ hi[n] \in Nat

\* Word e may enter the queue; n has one more word.
Enters(s, e, S, D, B, hi) ==
    /\ e \in S /\ e.id \in D /\ e.addr = B[e.id] + hi[e.id]
    /\ \A k \in 1..Len(s) : s[k].id <= e.id
OneMore(n, D, c, c2) == \A m \in D : c2[m] = IF m = n THEN c[m] + 1 ELSE c[m]

\* The first word leaves the queue or stays; word e enters it or none does.
Leaves(s, pop, D, lo, lo2) ==
    IF pop THEN s # <<>> /\ OneMore(Head(s).id, D, lo, lo2)
    ELSE \A n \in D : lo2[n] = lo[n]
Joins(s, push, e, S, D, B, hi, hi2) ==
    IF push THEN Enters(s, e, S, D, B, hi) /\ OneMore(e.id, D, hi, hi2)
    ELSE \A n \in D : hi2[n] = hi[n]

LEMMA FlowHead ==
    ASSUME NEW S, NEW s \in Seq(S), NEW D, NEW B, NEW lo, NEW hi,
           Words(S), Counts(D, B, lo, hi), Flow(s, D, B, lo, hi), s # <<>>
    PROVE  /\ Head(s) = s[1] /\ 1 \in 1..Len(s) /\ Head(s) \in S
           /\ Head(s).id \in D
           /\ Head(s).addr = B[Head(s).id] + lo[Head(s).id]
           /\ lo[Head(s).id] + 1 <= hi[Head(s).id]
<1>1. Head(s) = s[1] /\ 1 \in 1..Len(s) /\ Head(s) \in S /\ Len(s) \in Nat
  OBVIOUS
<1>2. PICK n, a : n = s[1].id /\ a = s[1].addr /\ n \in Nat /\ a \in Int
  BY <1>1 DEF Words
<1>3. /\ n \in D /\ B[n] + lo[n] <= a /\ a < B[n] + hi[n]
      /\ B[n] \in Int /\ lo[n] \in Nat /\ hi[n] \in Nat
  BY <1>1, <1>2 DEF Flow, Counts
<1>4. lo[n] + 1 <= hi[n] /\ lo[n] \in lo[n]..(hi[n] - 1)
  <2>1. PICK b \in Int, l \in Nat, h \in Nat : b = B[n] /\ l = lo[n] /\ h = hi[n]
    BY <1>3
  <2>2. b + l <= a /\ a < b + h /\ a \in Int
    BY <1>2, <1>3, <2>1
  <2>3. l + 1 <= h /\ l \in l..(h - 1)
    BY <2>2
  <2> QED BY <2>1, <2>3
<1>5. PICK k \in 1..Len(s) : s[k].id = n /\ s[k].addr = B[n] + lo[n]
  BY <1>3, <1>4 DEF Flow
<1>6. a = B[n] + lo[n]
  <2>1. CASE k = 1
    BY <1>2, <1>5, <2>1
  <2>2. CASE k # 1
    <3>1. s[1].id < s[k].id \/ (s[1].id = s[k].id /\ s[1].addr < s[k].addr)
      BY <1>1, <2>2 DEF Flow
    <3> QED BY <1>2, <1>3, <1>5, <3>1
  <2> QED BY <2>1, <2>2
<1> QED BY <1>1, <1>2, <1>3, <1>4, <1>6

LEMMA FlowPop ==
    ASSUME NEW S, NEW s \in Seq(S), NEW D, NEW B, NEW lo, NEW hi, NEW lo2,
           Words(S), Counts(D, B, lo, hi), Flow(s, D, B, lo, hi), s # <<>>,
           OneMore(Head(s).id, D, lo, lo2)
    PROVE  /\ Tail(s) \in Seq(S) /\ Counts(D, B, lo2, hi)
           /\ Flow(Tail(s), D, B, lo2, hi)
<1> USE DEF OneMore
<1> DEFINE t == Tail(s)
<1>1. /\ t \in Seq(S) /\ Len(t) = Len(s) - 1 /\ Len(s) \in Nat /\ Len(t) \in Nat
      /\ \A k \in 1..Len(t) : t[k] = s[k + 1] /\ k + 1 \in 1..Len(s)
  OBVIOUS
<1>2. Counts(D, B, lo2, hi)
  BY DEF Counts
<1>3. /\ Head(s) = s[1] /\ 1 \in 1..Len(s) /\ s[1].id \in D
      /\ s[1].addr = B[s[1].id] + lo[s[1].id]
      /\ lo[s[1].id] + 1 <= hi[s[1].id]
  BY FlowHead
<1> HIDE DEF t
<1>4. ASSUME NEW k \in 1..Len(t)
      PROVE  /\ t[k].id \in D
             /\ B[t[k].id] + lo2[t[k].id] <= t[k].addr
             /\ t[k].addr < B[t[k].id] + hi[t[k].id]
  <2>1. PICK j \in 1..Len(s) : j = k + 1 /\ t[k] = s[j]
    BY <1>1
  <2>2. /\ s[j].id \in D /\ B[s[j].id] + lo[s[j].id] <= s[j].addr
        /\ s[j].addr < B[s[j].id] + hi[s[j].id]
    BY DEF Flow
  <2>3. s[1].id < s[j].id \/ (s[1].id = s[j].id /\ s[1].addr < s[j].addr)
    BY <1>1, <1>3, <2>1 DEF Flow
  <2>4. /\ s[j].addr \in Int /\ B[s[j].id] \in Int /\ lo[s[j].id] \in Nat
        /\ s[1].addr \in Int /\ s[1].id \in Nat /\ s[j].id \in Nat
    <3>1. s[j] \in S /\ s[1] \in S
      BY <1>1, <1>3
    <3>2. /\ s[j].addr \in Int /\ s[j].id \in Nat
          /\ s[1].addr \in Int /\ s[1].id \in Nat
      BY <3>1 DEF Words
    <3>3. PICK d \in D : d = s[j].id
      BY <2>2
    <3>4. B[d] \in Int /\ lo[d] \in Nat
      BY <3>3 DEF Counts
    <3> QED BY <3>2, <3>3, <3>4
  <2>5. B[s[j].id] + lo2[s[j].id] <= s[j].addr
    <3>1. PICK n : n = s[j].id
      OBVIOUS
    <3>2. PICK b \in Int, l \in Nat, a \in Int :
             b = B[n] /\ l = lo[n] /\ a = s[j].addr
      BY <2>4, <3>1
    <3>3. b + l <= a /\ lo2[n] = IF n = Head(s).id THEN l + 1 ELSE l
      BY <2>2, <3>1, <3>2
    <3>4. CASE n = Head(s).id
      <4>1. n = s[1].id /\ lo2[n] = l + 1
        BY <1>3, <3>3, <3>4
      <4>2. s[1].addr = b + l
        BY <1>3, <3>2, <4>1
      <4>3. s[1].addr < a
        <5>1. ~(s[1].id < s[j].id)
          BY <2>4, <3>1, <4>1
        <5> QED BY <2>3, <3>2, <5>1
      <4>4. b + l < a
        BY <4>2, <4>3
      <4>5. b + (l + 1) <= a
        BY <3>2, <4>4
      <4> QED BY <3>1, <3>2, <4>1, <4>5
    <3> QED BY <3>1, <3>2, <3>3, <3>4
  <2> QED BY <2>1, <2>2, <2>5
<1>5. ASSUME NEW j \in 1..Len(t), NEW k \in 1..Len(t), j < k
      PROVE  \/ t[j].id < t[k].id
             \/ t[j].id = t[k].id /\ t[j].addr < t[k].addr
  <2>1. PICK x \in 1..Len(s), y \in 1..Len(s) :
           x = j + 1 /\ y = k + 1 /\ t[j] = s[x] /\ t[k] = s[y]
    BY <1>1
  <2>2. x < y
    BY <1>1, <1>5, <2>1
  <2> QED BY <2>1, <2>2 DEF Flow
<1>6. ASSUME NEW n \in D
      PROVE  /\ lo2[n] <= hi[n]
             /\ \A w \in lo2[n]..(hi[n] - 1) :
                   \E k \in 1..Len(t) : t[k].id = n /\ t[k].addr = B[n] + w
  <2>1. lo[n] <= hi[n] /\ lo[n] \in Nat /\ hi[n] \in Nat /\ B[n] \in Int
    BY DEF Flow, Counts
  <2>2. lo2[n] <= hi[n]
    BY <1>3, <2>1
  <2>3. ASSUME NEW w \in lo2[n]..(hi[n] - 1)
        PROVE  \E k \in 1..Len(t) : t[k].id = n /\ t[k].addr = B[n] + w
    <3>1. lo[n] <= w
      BY <2>1, <2>3
    <3>2. PICK j \in 1..Len(s) : s[j].id = n /\ s[j].addr = B[n] + w
      BY <2>3, <3>1 DEF Flow
    <3>3. j # 1
      BY <1>3, <2>1, <2>3, <3>2
    <3>4. PICK k \in 1..Len(t) : k + 1 = j
      <4>1. j - 1 \in 1..Len(t) /\ (j - 1) + 1 = j
        BY <1>1, <3>3
      <4> QED BY <4>1
    <3> QED BY <1>1, <3>2, <3>4
  <2> QED BY <2>2, <2>3
<1>7. Flow(t, D, B, lo2, hi)
  BY <1>4, <1>5, <1>6 DEF Flow
<1> QED BY <1>1, <1>2, <1>7 DEF t

LEMMA FlowPush ==
    ASSUME NEW S, NEW s \in Seq(S), NEW D, NEW B, NEW lo, NEW hi, NEW hi2,
           Words(S), Counts(D, B, lo, hi), Flow(s, D, B, lo, hi),
           NEW e, Enters(s, e, S, D, B, hi), OneMore(e.id, D, hi, hi2)
    PROVE  /\ Append(s, e) \in Seq(S) /\ Counts(D, B, lo, hi2)
           /\ Flow(Append(s, e), D, B, lo, hi2)
<1> USE DEF Enters, OneMore
<1> DEFINE t == Append(s, e)
<1>1. /\ t \in Seq(S) /\ Len(t) = Len(s) + 1 /\ Len(s) \in Nat
      /\ t[Len(t)] = e
      /\ \A k \in 1..Len(s) : t[k] = s[k] /\ k \in 1..Len(t)
      /\ \A k \in 1..Len(t) : k = Len(t) \/ k \in 1..Len(s)
  OBVIOUS
<1>2. Counts(D, B, lo, hi2)
  BY DEF Counts
<1> HIDE DEF t
<1>3. /\ e.id \in Nat /\ B[e.id] \in Int /\ lo[e.id] \in Nat /\ hi[e.id] \in Nat
      /\ lo[e.id] <= hi[e.id] /\ hi2[e.id] = hi[e.id] + 1
  BY DEF Counts, Flow
<1>4. ASSUME NEW k \in 1..Len(s)
      PROVE  /\ s[k].id \in D /\ s[k].id \in Nat /\ s[k].addr \in Int
             /\ B[s[k].id] + lo[s[k].id] <= s[k].addr
             /\ s[k].addr < B[s[k].id] + hi[s[k].id]
             /\ s[k].addr < B[s[k].id] + hi2[s[k].id]
             /\ s[k].id < e.id \/ (s[k].id = e.id /\ s[k].addr < e.addr)
  <2>1. /\ s[k].id \in D /\ s[k] \in S
        /\ B[s[k].id] + lo[s[k].id] <= s[k].addr
        /\ s[k].addr < B[s[k].id] + hi[s[k].id]
        /\ s[k].id <= e.id
    BY DEF Flow
  <2>2. s[k].id \in Nat /\ s[k].addr \in Int
    BY <2>1 DEF Words
  <2>3. /\ B[s[k].id] \in Int /\ hi[s[k].id] \in Nat
        /\ hi2[s[k].id] = IF s[k].id = e.id THEN hi[s[k].id] + 1 ELSE hi[s[k].id]
    BY <2>1 DEF Counts
  <2>4. s[k].addr < B[s[k].id] + hi2[s[k].id]
    BY <2>1, <2>2, <2>3
  <2>5. s[k].id < e.id \/ (s[k].id = e.id /\ s[k].addr < e.addr)
    BY <1>3, <2>1, <2>2
  <2> QED BY <2>1, <2>2, <2>4, <2>5
<1>5. ASSUME NEW k \in 1..Len(t)
      PROVE  /\ t[k].id \in D
             /\ B[t[k].id] + lo[t[k].id] <= t[k].addr
             /\ t[k].addr < B[t[k].id] + hi2[t[k].id]
  <2>1. CASE k \in 1..Len(s)
    BY <1>1, <1>4, <2>1
  <2>2. CASE k = Len(t)
    <3>1. t[k] = e
      BY <1>1, <2>2
    <3>2. /\ B[e.id] + lo[e.id] <= B[e.id] + hi[e.id]
          /\ B[e.id] + hi[e.id] < B[e.id] + hi2[e.id]
      BY <1>3
    <3> QED BY <3>1, <3>2
  <2> QED BY <1>1, <2>1, <2>2
<1>6. ASSUME NEW j \in 1..Len(t), NEW k \in 1..Len(t), j < k
      PROVE  \/ t[j].id < t[k].id
             \/ t[j].id = t[k].id /\ t[j].addr < t[k].addr
  <2>1. j \in 1..Len(s)
    BY <1>1, <1>6
  <2>2. CASE k = Len(t)
    BY <1>1, <1>4, <2>1, <2>2
  <2>3. CASE k \in 1..Len(s)
    BY <1>1, <1>6, <2>1, <2>3 DEF Flow
  <2> QED BY <1>1, <2>2, <2>3
<1>7. ASSUME NEW n \in D
      PROVE  /\ lo[n] <= hi2[n]
             /\ \A w \in lo[n]..(hi2[n] - 1) :
                   \E k \in 1..Len(t) : t[k].id = n /\ t[k].addr = B[n] + w
  <2>1. /\ lo[n] <= hi[n] /\ lo[n] \in Nat /\ hi[n] \in Nat
        /\ hi2[n] = IF n = e.id THEN hi[n] + 1 ELSE hi[n]
    BY DEF Flow, Counts
  <2>2. ASSUME NEW w \in lo[n]..(hi2[n] - 1)
        PROVE  \E k \in 1..Len(t) : t[k].id = n /\ t[k].addr = B[n] + w
    <3>1. CASE w < hi[n]
      <4>0. w \in lo[n]..(hi[n] - 1)
        BY <2>1, <3>1
      <4>1. PICK k \in 1..Len(s) : s[k].id = n /\ s[k].addr = B[n] + w
        BY <4>0 DEF Flow
      <4> QED BY <1>1, <4>1
    <3>2. CASE ~(w < hi[n])
      <4>1. n = e.id /\ w = hi[n]
        BY <2>1, <2>2, <3>2
      <4>2. Len(t) \in 1..Len(t)
        BY <1>1
      <4> QED BY <1>1, <4>1, <4>2
    <3> QED BY <3>1, <3>2
  <2> QED BY <2>1, <2>2
<1>8. Flow(t, D, B, lo, hi2)
  BY <1>5, <1>6, <1>7 DEF Flow
<1> QED BY <1>1, <1>2, <1>8 DEF t

\* A cycle of a queue: a word may leave it, and another one may enter it.
LEMMA FlowStep ==
    ASSUME NEW S, NEW s \in Seq(S), NEW D, NEW B, NEW lo, NEW hi,
           NEW lo2, NEW hi2, NEW pop \in BOOLEAN, NEW push \in BOOLEAN, NEW e,
           Words(S), Counts(D, B, lo, hi), Flow(s, D, B, lo, hi),
           Leaves(s, pop, D, lo, lo2), Joins(s, push, e, S, D, B, hi, hi2)
    PROVE  /\ Push(Pop(s, pop), push, e) \in Seq(S)
           /\ Flow(Push(Pop(s, pop), push, e), D, B, lo2, hi2)
<1> USE DEF Leaves, Joins
<1> DEFINE t == Pop(s, pop)
<1>1. t \in Seq(S) /\ Counts(D, B, lo2, hi) /\ Flow(t, D, B, lo2, hi)
  <2>1. CASE pop
    BY <2>1, FlowPop DEF Pop
  <2>2. CASE ~pop
    <3>1. \A n \in D : lo2[n] = lo[n]
      BY <2>2
    <3>2. Counts(D, B, lo2, hi)
      BY <3>1 DEF Counts
    <3>3. Flow(s, D, B, lo2, hi)
      BY <3>1 DEF Flow
    <3> QED BY <2>2, <3>2, <3>3 DEF Pop
  <2> QED BY <2>1, <2>2
<1>2. push => Enters(t, e, S, D, B, hi)
  <2> USE DEF Enters
  <2>1. CASE pop
    <3>1. s # <<>> /\ t = Tail(s)
      BY <2>1 DEF Pop
    <3>2. \A k \in 1..Len(t) : t[k] = s[k + 1] /\ k + 1 \in 1..Len(s)
      BY <3>1
    <3> QED BY <3>2
  <2>2. CASE ~pop
    BY <2>2 DEF Pop
  <2> QED BY <2>1, <2>2
<1> HIDE DEF t
<1>3. Push(t, push, e) \in Seq(S) /\ Flow(Push(t, push, e), D, B, lo2, hi2)
  <2>1. CASE push
    <3>1. Append(t, e) \in Seq(S) /\ Flow(Append(t, e), D, B, lo2, hi2)
      BY <1>1, <1>2, <2>1, FlowPush
    <3> QED BY <2>1, <3>1 DEF Push
  <2>2. CASE ~push
    <3>1. \A n \in D : hi2[n] = hi[n]
      BY <2>2
    <3>2. Flow(t, D, B, lo2, hi2)
      BY <1>1, <3>1 DEF Flow
    <3> QED BY <1>1, <2>2, <3>2 DEF Push
  <2> QED BY <2>1, <2>2
<1> QED BY <1>3 DEF t

-----------------------------------------------------------------------------
(***************************************************************************)
(* The invariant, for all programs: types; what each unit has to execute   *)
(* is what it was given and has not executed, in order, and only the first *)
(* is begun; an instruction that is not running has executed and written   *)
(* everything; the result queues hold what is executed and not written.    *)
(***************************************************************************)
RequesterStates ==
    [state : {"IDLE", "REQUESTING"}, id : 0..issued, addr : Int, len : Nat,
     hazard : SUBSET Prog, is_widening : BOOLEAN, waw : SUBSET Prog]

Operands == [id : Nat, addr : Int, writer : Nat]
Products == [id : Nat, addr : Int]

Typed ==
    /\ prog \in Programs
    /\ issued \in 0..Len(prog)
    /\ running \subseteq 1..issued
    /\ table \in [Prog -> SUBSET Prog]
    /\ opreq \in [Queues -> 0..issued]
    /\ requester \in [Queues -> RequesterStates]
    /\ written \subseteq Prog
    /\ ibuf \in [Queues -> Seq(Operands)]
    /\ unit \in [FUs -> Seq(Nat)]
    /\ made \in [Prog -> Nat]
    /\ half \in [Prog -> BOOLEAN]
    /\ resq \in [FUs -> Seq(Products)]
    /\ wrote \in [Prog -> Nat]
    /\ vrf \in [Addrs -> {0} \cup Prog]
    /\ \A q \in Queues : Len(ibuf[q]) <= DataBufDepth
    /\ \A f \in FUs : Len(resq[f]) <= ResultQueueDepth

InUnits ==
    \A f \in FUs :
        /\ \A k \in 1..Len(unit[f]) :
              /\ unit[f][k] \in 1..issued
              /\ Insn(unit[f][k]).fu = f
              /\ made[unit[f][k]] < Insn(unit[f][k]).out
              /\ \A m \in Prog : Insn(m).fu = f /\ unit[f][k] < m => made[m] = 0
        /\ \A j, k \in 1..Len(unit[f]) : j < k => unit[f][j] < unit[f][k]
        /\ \A n \in 1..issued :
              Insn(n).fu = f /\ made[n] < Insn(n).out =>
                  \E k \in 1..Len(unit[f]) : unit[f][k] = n

Counted ==
    \A n \in Prog :
        /\ made[n] <= Insn(n).out
        /\ n > issued => made[n] = 0
        /\ n <= issued /\ n \notin running =>
              made[n] = Insn(n).out /\ (Insn(n).vd # NoReg => wrote[n] = made[n])
        /\ Insn(n).vd = NoReg => wrote[n] = 0

Makers(f) == {n \in Prog : Insn(n).fu = f /\ Insn(n).vd # NoReg}
To(f) == [n \in Makers(f) |-> vaddr(Insn(n).vd)]
InResults == \A f \in FUs : Flow(resq[f], Makers(f), To(f), wrote, made)

\* A request register holds the last instruction that reads through the queue.
Users(q) == {n \in Prog : q \in Sources(Insn(n))}
Asked ==
    \A q \in Queues : opreq[q] # 0 =>
        /\ opreq[q] \in Users(q)
        /\ \A n \in Users(q) : n <= issued => n <= opreq[q]

GInv == Typed /\ InUnits /\ Counted /\ InResults /\ Asked

CycleOf(G, work, fin) ==
    /\ G \in Grants
    /\ work \in SUBSET {f \in FUs : CanWork(f)}
    /\ fin \in SUBSET {n \in Prog : Complete(n)}
    /\ Cycle(G, work, fin)

LEMMA ProgramFacts ==
    ASSUME Typed
    PROVE  /\ Len(prog) \in Nat /\ Prog = 1..Len(prog) /\ issued \in Nat
           /\ Prog \subseteq Nat /\ 1..issued \subseteq Prog
           /\ \A n \in Prog : InsnOK(Insn(n))
BY ProgramsAssumption DEF Typed, Prog, Insn

LEMMA Address ==
    ASSUME NEW r \in 0..NoReg PROVE vaddr(r) \in Nat
<1>1. r \in Nat /\ WordsPerReg \in Nat
  BY WordsAssumption DEF NoReg
<1> QED BY <1>1, SMTT(20) DEF vaddr

LEMMA ResultCounts ==
    ASSUME Typed, NEW f \in FUs
    PROVE  Words(Products) /\ Counts(Makers(f), To(f), wrote, made)
<1>1. Words(Products)
  BY DEF Words, Products
<1>2. ASSUME NEW n \in Makers(f)
      PROVE  n \in Nat /\ To(f)[n] \in Int /\ wrote[n] \in Nat /\ made[n] \in Nat
  <2>1. n \in Prog /\ n \in Nat /\ Insn(n).vd \in 0..NoReg
    BY ProgramFacts DEF Makers, InsnOK
  <2>2. vaddr(Insn(n).vd) \in Nat
    BY <2>1, Address
  <2> QED BY <2>1, <2>2 DEF To, Typed
<1> QED BY <1>1, <1>2 DEF Counts

-----------------------------------------------------------------------------
(* What a cycle does *)

\* Instruction n makes a result.
Makes(n, work) ==
    /\ Insn(n).fu \in work /\ n = Head(unit[Insn(n).fu]) /\ Produces(n)

LEMMA Working ==
    ASSUME GInv, NEW G, NEW work, NEW fin, CycleOf(G, work, fin), NEW f \in work
    PROVE  /\ f \in FUs /\ unit[f] # <<>> /\ 1 \in 1..Len(unit[f])
           /\ Head(unit[f]) = unit[f][1]
           /\ Head(unit[f]) \in Prog /\ Head(unit[f]) \in 1..issued
           /\ Insn(Head(unit[f])).fu = f
           /\ made[Head(unit[f])] < Insn(Head(unit[f])).out
           /\ Len(resq[f]) < ResultQueueDepth
           /\ \A q \in Sources(Insn(Head(unit[f]))) : ibuf[q] # <<>>
<1>1. f \in FUs /\ CanWork(f)
  BY DEF CycleOf
<1>2. unit[f] \in Seq(Nat) /\ unit[f] # <<>>
  BY <1>1 DEF CanWork, GInv, Typed
<1>3. 1 \in 1..Len(unit[f]) /\ Head(unit[f]) = unit[f][1]
  BY <1>2
<1>4. Typed /\ InUnits
  BY DEF GInv
<1> QED BY <1>1, <1>2, <1>3, <1>4, ProgramFacts DEF InUnits, CanWork

LEMMA MadeStep ==
    ASSUME GInv, NEW G, NEW work, NEW fin, CycleOf(G, work, fin), NEW n \in Prog
    PROVE  /\ made'[n] = IF Makes(n, work) THEN made[n] + 1 ELSE made[n]
           /\ made[n] \in Nat /\ made'[n] \in Nat
           /\ Makes(n, work) => n <= issued /\ made[n] < Insn(n).out
<1>1. made[n] \in Nat
  BY DEF GInv, Typed
<1>2. made' = [m \in Prog |->
                 IF m \in {Head(unit[f]) : f \in work} /\ Produces(m)
                 THEN made[m] + 1 ELSE made[m]]
  BY DEF CycleOf, Cycle, Lane, Units
<1>3. n \in {Head(unit[f]) : f \in work}
        <=> Insn(n).fu \in work /\ n = Head(unit[Insn(n).fu])
  BY Working
<1>4. made'[n] = IF Makes(n, work) THEN made[n] + 1 ELSE made[n]
  BY <1>2, <1>3 DEF Makes
<1>5. Makes(n, work) => n <= issued /\ made[n] < Insn(n).out
  <2> SUFFICES ASSUME Makes(n, work) PROVE n <= issued /\ made[n] < Insn(n).out
    OBVIOUS
  <2>1. PICK f \in work : n = Head(unit[f])
    BY DEF Makes
  <2>2. n \in 1..issued /\ made[n] < Insn(n).out
    BY <2>1, Working
  <2> QED BY <2>2
<1> QED BY <1>1, <1>4, <1>5

LEMMA Writers ==
    ASSUME GInv, NEW G, NEW work, NEW fin, CycleOf(G, work, fin), NEW f \in G \cap FUs
    PROVE  /\ resq[f] # <<>> /\ resq[f] \in Seq(Products)
           /\ Head(resq[f]) \in Products /\ Head(resq[f]).id \in Makers(f)
           /\ Head(resq[f]).addr = vaddr(Insn(Head(resq[f]).id).vd)
                                     + wrote[Head(resq[f]).id]
           /\ wrote[Head(resq[f]).id] + 1 <= made[Head(resq[f]).id]
<1>1. f \in Writing
  BY DEF CycleOf, Grants, Reading, Queues, FUs
<1>2. resq[f] # <<>> /\ resq[f] \in Seq(Products)
  BY <1>1 DEF Writing, GInv, Typed
<1>3. /\ Words(Products) /\ Counts(Makers(f), To(f), wrote, made)
      /\ Flow(resq[f], Makers(f), To(f), wrote, made)
  BY ResultCounts DEF GInv, InResults
<1>4. /\ Head(resq[f]) \in Products /\ Head(resq[f]).id \in Makers(f)
      /\ Head(resq[f]).addr = To(f)[Head(resq[f]).id] + wrote[Head(resq[f]).id]
      /\ wrote[Head(resq[f]).id] + 1 <= made[Head(resq[f]).id]
  BY <1>2, <1>3, FlowHead
<1> QED BY <1>2, <1>4 DEF To

LEMMA WroteStep ==
    ASSUME GInv, NEW G, NEW work, NEW fin, CycleOf(G, work, fin), NEW n \in Prog
    PROVE  /\ wrote[n] \in Nat /\ wrote'[n] \in Nat
           /\ wrote'[n] = IF n \in WritersOf(G) THEN wrote[n] + 1 ELSE wrote[n]
           /\ n \in WritersOf(G) <=>
                 Insn(n).fu \in G \cap FUs /\ n = Head(resq[Insn(n).fu]).id
           /\ n \in WritersOf(G) =>
                 /\ Insn(n).vd # NoReg /\ wrote[n] + 1 <= made[n]
                 /\ Head(resq[Insn(n).fu]).addr = vaddr(Insn(n).vd) + wrote[n]
<1>1. wrote[n] \in Nat
  BY DEF GInv, Typed
<1>2. wrote'[n] = IF n \in WritersOf(G) THEN wrote[n] + 1 ELSE wrote[n]
  BY DEF CycleOf, Cycle, Lane, WriteBack
<1>3. n \in WritersOf(G) <=> \E f \in G \cap FUs : n = Head(resq[f]).id
  BY DEF WritersOf
<1>4. ASSUME NEW f \in G \cap FUs, n = Head(resq[f]).id
      PROVE  /\ Insn(n).fu = f /\ Insn(n).vd # NoReg /\ wrote[n] + 1 <= made[n]
             /\ Head(resq[f]).addr = vaddr(Insn(n).vd) + wrote[n]
  BY <1>4, Writers DEF Makers
<1>5. n \in WritersOf(G) <=>
         Insn(n).fu \in G \cap FUs /\ n = Head(resq[Insn(n).fu]).id
  BY <1>3, <1>4
<1> QED BY <1>1, <1>2, <1>4, <1>5

\* What becomes of the instructions.
Issues(n, fin) ==
    /\ MayIssue(n) /\ n = issued + 1
    /\ issued' = n /\ running' = (running \ fin) \cup {n}
    /\ table' = [m \in Prog |-> (IF m = n THEN Row(n) \cap running
                                 ELSE table[m]) \ fin]
Idles(fin) ==
    /\ issued' = issued /\ running' = running \ fin
    /\ table' = [n \in Prog |-> table[n] \ fin]

LEMMA IssueStep ==
    ASSUME NEW G, NEW work, NEW fin, CycleOf(G, work, fin)
    PROVE  /\ prog' = prog
           /\ \/ /\ Idles(fin)
                 /\ unit' = [f \in FUs |-> Pop(unit[f], Executed(f, work))]
                 /\ opreq' = [q \in Queues |-> IF Accepts(q, G) THEN 0 ELSE opreq[q]]
              \/ /\ Issues(issued + 1, fin)
                 /\ unit' = [f \in FUs |-> Push(Pop(unit[f], Executed(f, work)),
                                 f = Insn(issued + 1).fu /\ Insn(issued + 1).out > 0,
                                 issued + 1)]
                 /\ opreq' = [q \in Queues |->
                                IF q \in Sources(Insn(issued + 1)) THEN issued + 1
                                ELSE IF Accepts(q, G) THEN 0 ELSE opreq[q]]
<1>1. prog' = prog /\ (NoIssue(G, work, fin) \/ Issue(issued + 1, G, work, fin))
  BY DEF CycleOf, Cycle
<1>2. CASE NoIssue(G, work, fin)
  BY <1>1, <1>2 DEF NoIssue, Idles
<1>3. CASE Issue(issued + 1, G, work, fin)
  BY <1>1, <1>3 DEF Issue, Issues
<1> QED BY <1>1, <1>2, <1>3

LEMMA SameProgram ==
    ASSUME prog' = prog
    PROVE  /\ Prog' = Prog
           /\ \A n : Insn(n)' = Insn(n)
           /\ \A f : Makers(f)' = Makers(f) /\ To(f)' = To(f)
           /\ \A q : Users(q)' = Users(q)
BY DEF Prog, Insn, Makers, To, vaddr, Users, Sources

-----------------------------------------------------------------------------
(* The invariant is kept *)

LEMMA ResultsKept ==
    ASSUME GInv, NEW G, NEW work, NEW fin, CycleOf(G, work, fin)
    PROVE  InResults' /\ resq' \in [FUs -> Seq(Products)]
           /\ \A f \in FUs : Len(resq'[f]) <= ResultQueueDepth
<1>1. Typed /\ prog' = prog
  BY IssueStep DEF GInv
<1>2. ASSUME NEW f \in FUs
      PROVE  /\ resq'[f] \in Seq(Products)
             /\ Len(resq'[f]) <= ResultQueueDepth
             /\ Flow(resq'[f], Makers(f), To(f), wrote', made')
  <2> DEFINE n == Head(unit[f])
             push == f \in work /\ Produces(n) /\ Insn(n).vd # NoReg
             e == [id |-> n, addr |-> vaddr(Insn(n).vd) + made[n]]
  <2>1. /\ resq'[f] = Push(Pop(resq[f], f \in G), push, e)
        /\ push \in BOOLEAN /\ (f \in G) \in BOOLEAN
    BY DEF CycleOf, Cycle, Lane, Results
  <2>2. /\ resq[f] \in Seq(Products) /\ Len(resq[f]) <= ResultQueueDepth
        /\ Flow(resq[f], Makers(f), To(f), wrote, made)
        /\ Words(Products) /\ Counts(Makers(f), To(f), wrote, made)
    BY <1>1, ResultCounts DEF GInv, InResults, Typed
  <2>3. f \in G => /\ resq[f] # <<>>
                   /\ OneMore(Head(resq[f]).id, Makers(f), wrote, wrote')
    <3> SUFFICES ASSUME f \in G
                 PROVE  /\ resq[f] # <<>>
                        /\ OneMore(Head(resq[f]).id, Makers(f), wrote, wrote')
      OBVIOUS
    <3>1. resq[f] # <<>>
      BY Writers
    <3>2. ASSUME NEW m \in Makers(f)
          PROVE  wrote'[m] = IF m = Head(resq[f]).id THEN wrote[m] + 1 ELSE wrote[m]
      BY WroteStep DEF Makers
    <3> QED BY <3>1, <3>2 DEF OneMore
  <2>4. f \notin G => \A m \in Makers(f) : wrote'[m] = wrote[m]
    BY WroteStep DEF Makers
  <2>5. push => /\ Enters(resq[f], e, Products, Makers(f), To(f), made)
                /\ OneMore(e.id, Makers(f), made, made')
                /\ Len(resq[f]) < ResultQueueDepth
    <3> SUFFICES ASSUME push
                 PROVE  /\ Enters(resq[f], e, Products, Makers(f), To(f), made)
                        /\ OneMore(e.id, Makers(f), made, made')
                        /\ Len(resq[f]) < ResultQueueDepth
      OBVIOUS
    <3>1. /\ n \in Prog /\ n \in 1..issued /\ Insn(n).fu = f
          /\ Len(resq[f]) < ResultQueueDepth
      BY Working
    <3>2. n \in Makers(f) /\ n \in Nat /\ To(f)[n] = vaddr(Insn(n).vd)
      BY <1>1, <3>1, ProgramFacts DEF Makers, To
    <3>3. e \in Products /\ e.id = n /\ e.addr = To(f)[n] + made[n]
      BY <2>2, <3>2 DEF Products, Counts
    <3>4. ASSUME NEW k \in 1..Len(resq[f]) PROVE resq[f][k].id <= n
      <4>1. PICK m : m = resq[f][k].id
        OBVIOUS
      <4>2. m \in Makers(f) /\ To(f)[m] + wrote[m] < To(f)[m] + made[m]
        <5>1. PICK a \in Int : a = resq[f][k].addr
          <6>1. resq[f][k] \in Products
            BY <2>2
          <6> QED BY <6>1 DEF Products
        <5>2. /\ m \in Makers(f) /\ To(f)[m] + wrote[m] <= a
              /\ a < To(f)[m] + made[m]
          BY <2>2, <4>1, <5>1 DEF Flow
        <5> QED BY <2>2, <5>1, <5>2 DEF Counts
      <4>3. m \in Prog /\ Insn(m).fu = f /\ made[m] > 0 /\ m \in Nat
        BY <2>2, <4>2 DEF Counts, Makers
      <4>4. ~(m > n)
        BY <4>3, Working DEF GInv, InUnits
      <4> QED BY <3>2, <4>1, <4>3, <4>4
    <3>5. ASSUME NEW m \in Makers(f)
          PROVE  made'[m] = IF m = n THEN made[m] + 1 ELSE made[m]
      BY MadeStep DEF Makers, Makes
    <3>6. OneMore(e.id, Makers(f), made, made')
      BY <3>3, <3>5 DEF OneMore
    <3> HIDE DEF e, n
    <3> QED BY <3>1, <3>2, <3>3, <3>4, <3>6 DEF Enters
  <2>6. ~push => \A m \in Makers(f) : made'[m] = made[m]
    BY MadeStep DEF Makers, Makes
  <2> HIDE DEF push, e
  <2>9. /\ Leaves(resq[f], f \in G, Makers(f), wrote, wrote')
        /\ Joins(resq[f], push, e, Products, Makers(f), To(f), made, made')
    BY <2>3, <2>4, <2>5, <2>6 DEF Leaves, Joins
  <2>7. /\ resq'[f] \in Seq(Products)
        /\ Flow(resq'[f], Makers(f), To(f), wrote', made')
    <3>1. PICK pop \in BOOLEAN, put \in BOOLEAN : pop = (f \in G) /\ put = push
      BY <2>1
    <3>2. /\ resq'[f] = Push(Pop(resq[f], pop), put, e)
          /\ Leaves(resq[f], pop, Makers(f), wrote, wrote')
          /\ Joins(resq[f], put, e, Products, Makers(f), To(f), made, made')
      BY <2>1, <2>9, <3>1
    <3>3. /\ Push(Pop(resq[f], pop), put, e) \in Seq(Products)
          /\ Flow(Push(Pop(resq[f], pop), put, e), Makers(f), To(f), wrote', made')
      BY <2>2, <3>2, FlowStep
    <3> QED BY <3>2, <3>3
  <2>8. Len(resq'[f]) <= ResultQueueDepth
    BY <2>1, <2>2, <2>3, <2>5, BuffersAssumption DEF Push, Pop
  <2> QED BY <2>7, <2>8
<1>3. resq' = [f \in FUs |-> resq'[f]]
  BY DEF CycleOf, Cycle, Lane, Results
<1>4. InResults'
  BY <1>1, <1>2, SameProgram DEF InResults
<1> QED BY <1>2, <1>3, <1>4

LEMMA UnitsKept ==
    ASSUME GInv, NEW G, NEW work, NEW fin, CycleOf(G, work, fin)
    PROVE  InUnits' /\ unit' \in [FUs -> Seq(Nat)]
<1>0. Typed /\ prog' = prog /\ Prog' = Prog /\ issued \in Nat
  BY IssueStep, SameProgram, ProgramFacts DEF GInv
<1> DEFINE n == issued + 1
           given == issued' # issued
<1>1. \/ issued' = issued
      \/ issued' = n /\ n \in Prog /\ n \notin 1..issued
  BY <1>0, IssueStep DEF Idles, Issues, MayIssue
<1>2. ASSUME NEW f \in FUs
      PROVE  /\ unit'[f] \in Seq(Nat)
             /\ \A k \in 1..Len(unit'[f]) :
                   /\ unit'[f][k] \in 1..issued'
                   /\ Insn(unit'[f][k]).fu = f
                   /\ made'[unit'[f][k]] < Insn(unit'[f][k]).out
                   /\ \A m \in Prog : Insn(m).fu = f /\ unit'[f][k] < m => made'[m] = 0
             /\ \A j, k \in 1..Len(unit'[f]) : j < k => unit'[f][j] < unit'[f][k]
             /\ \A m \in 1..issued' :
                   Insn(m).fu = f /\ made'[m] < Insn(m).out =>
                       \E k \in 1..Len(unit'[f]) : unit'[f][k] = m
  <2>1. PICK pop \in BOOLEAN : pop = Executed(f, work)
    BY DEF Executed
  <2>2. PICK put \in BOOLEAN :
           put <=> given /\ f = Insn(n).fu /\ Insn(n).out > 0
    OBVIOUS
  <2>3. unit'[f] = Push(Pop(unit[f], pop), put, n)
    <3>1. Pop(unit[f], Executed(f, work)) = Pop(unit[f], pop)
      BY <2>1 DEF Pop
    <3>2. CASE /\ Idles(fin)
               /\ unit' = [g \in FUs |-> Pop(unit[g], Executed(g, work))]
      <4>1. ~given /\ ~put
        BY <2>2, <3>2 DEF Idles
      <4> QED BY <3>1, <3>2, <4>1 DEF Push
    <3>3. CASE /\ Issues(n, fin)
               /\ unit' = [g \in FUs |-> Push(Pop(unit[g], Executed(g, work)),
                                 g = Insn(n).fu /\ Insn(n).out > 0, n)]
      <4>1. given
        BY <1>0, <3>3 DEF Issues
      <4>2. put <=> f = Insn(n).fu /\ Insn(n).out > 0
        BY <2>2, <4>1
      <4> HIDE DEF n
      <4>3. unit'[f] = Push(Pop(unit[f], Executed(f, work)),
                            f = Insn(n).fu /\ Insn(n).out > 0, n)
        BY <3>3
      <4> QED BY <3>1, <4>2, <4>3 DEF Push
    <3> QED BY <3>2, <3>3, IssueStep
  <2>4. unit[f] \in Seq(Nat)
    BY <1>0 DEF Typed
  <2>5. ASSUME NEW m \in Prog, Insn(m).fu = f, made'[m] # made[m]
        PROVE  /\ unit[f] # <<>> /\ m = unit[f][1] /\ m \in 1..issued
               /\ made'[m] = made[m] + 1 /\ made[m] \in Nat /\ made[m] < Insn(m).out
               /\ pop <=> made'[m] = Insn(m).out
    <3>1. Makes(m, work) /\ made'[m] = made[m] + 1 /\ made[m] \in Nat
      BY <2>5, MadeStep
    <3>2. f \in work /\ m = Head(unit[f]) /\ Produces(m)
      BY <2>5, <3>1 DEF Makes
    <3>3. unit[f] # <<>> /\ m = unit[f][1] /\ m \in 1..issued /\ made[m] < Insn(m).out
      BY <3>2, Working
    <3>4. pop <=> made[m] + 1 = Insn(m).out
      BY <2>1, <3>2 DEF Executed
    <3> QED BY <3>1, <3>3, <3>4
  <2>6. pop => /\ unit[f] # <<>> /\ unit[f][1] \in Prog
               /\ Insn(unit[f][1]).fu = f /\ made'[unit[f][1]] = Insn(unit[f][1]).out
    <3> SUFFICES ASSUME pop
                 PROVE  /\ unit[f] # <<>> /\ unit[f][1] \in Prog
                        /\ Insn(unit[f][1]).fu = f
                        /\ made'[unit[f][1]] = Insn(unit[f][1]).out
      OBVIOUS
    <3>1. /\ f \in work /\ Produces(Head(unit[f]))
          /\ made[Head(unit[f])] + 1 = Insn(Head(unit[f])).out
      BY <2>1 DEF Executed
    <3>2. /\ unit[f] # <<>> /\ Head(unit[f]) = unit[f][1] /\ Head(unit[f]) \in Prog
          /\ Insn(Head(unit[f])).fu = f
      BY <3>1, Working
    <3>3. Makes(Head(unit[f]), work)
      BY <3>1, <3>2 DEF Makes
    <3> QED BY <3>1, <3>2, <3>3, MadeStep
  <2> DEFINE s == Pop(unit[f], pop)
  <2>7. /\ s \in Seq(Nat) /\ Len(s) \in Nat
        /\ \A k \in 1..Len(s) :
              /\ s[k] \in 1..issued
              /\ Insn(s[k]).fu = f
              /\ made'[s[k]] < Insn(s[k]).out
              /\ \A m \in Prog : Insn(m).fu = f /\ s[k] < m => made'[m] = 0
        /\ \A j, k \in 1..Len(s) : j < k => s[j] < s[k]
        /\ \A m \in 1..issued :
              Insn(m).fu = f /\ made'[m] < Insn(m).out =>
                  \E k \in 1..Len(s) : s[k] = m
    <3> DEFINE d == IF pop THEN 1 ELSE 0
    <3>1. /\ s \in Seq(Nat) /\ Len(s) = Len(unit[f]) - d /\ Len(s) \in Nat
          /\ \A k \in 1..Len(s) : s[k] = unit[f][k + d] /\ k + d \in 1..Len(unit[f])
      BY <2>4, <2>6 DEF Pop
    <3>2. /\ \A k \in 1..Len(unit[f]) :
                /\ unit[f][k] \in 1..issued
                /\ Insn(unit[f][k]).fu = f
                /\ made[unit[f][k]] < Insn(unit[f][k]).out
                /\ \A m \in Prog : Insn(m).fu = f /\ unit[f][k] < m => made[m] = 0
          /\ \A j, k \in 1..Len(unit[f]) : j < k => unit[f][j] < unit[f][k]
          /\ \A m \in 1..issued :
                Insn(m).fu = f /\ made[m] < Insn(m).out =>
                    \E k \in 1..Len(unit[f]) : unit[f][k] = m
      BY DEF GInv, InUnits
    <3> HIDE DEF s
    <3>3. ASSUME NEW k \in 1..Len(s)
          PROVE  /\ s[k] \in 1..issued
                 /\ Insn(s[k]).fu = f
                 /\ made'[s[k]] < Insn(s[k]).out
                 /\ \A m \in Prog : Insn(m).fu = f /\ s[k] < m => made'[m] = 0
      <4>1. PICK x \in 1..Len(unit[f]) : x = k + d /\ s[k] = unit[f][x]
        BY <3>1
      <4>2. /\ s[k] \in 1..issued /\ s[k] \in Prog /\ Insn(s[k]).fu = f
            /\ made[s[k]] < Insn(s[k]).out
        BY <1>0, <3>2, <4>1, ProgramFacts
      <4>3. made'[s[k]] < Insn(s[k]).out
        <5>1. CASE made'[s[k]] = made[s[k]]
          BY <4>2, <5>1
        <5>2. CASE made'[s[k]] # made[s[k]]
          <6>1. /\ s[k] = unit[f][1] /\ made'[s[k]] = made[s[k]] + 1
                /\ made[s[k]] \in Nat
                /\ pop <=> made'[s[k]] = Insn(s[k]).out
            BY <2>5, <4>2, <5>2
          <6>2. x = 1
            <7>1. 1 \in 1..Len(unit[f]) /\ x \in Nat
              BY <2>4
            <7>2. unit[f][1] \in Nat
              BY <2>4, <7>1
            <7>3. ASSUME 1 < x PROVE FALSE
              <8>1. unit[f][1] < unit[f][x]
                BY <3>2, <7>1, <7>3
              <8>2. unit[f][x] = unit[f][1]
                BY <4>1, <6>1
              <8> QED BY <7>2, <8>1, <8>2
            <7> QED BY <7>1, <7>3
          <6>3. ~pop
            BY <3>1, <4>1, <6>2
          <6>4. InsnOK(Insn(s[k]))
            BY <1>0, <4>2, ProgramFacts
          <6> QED BY <4>2, <6>1, <6>3, <6>4 DEF InsnOK
        <5> QED BY <5>1, <5>2
      <4>4. ASSUME NEW m \in Prog, Insn(m).fu = f, s[k] < m PROVE made'[m] = 0
        <5>1. made[m] = 0
          BY <3>2, <4>1, <4>4
        <5>2. ASSUME made'[m] # made[m] PROVE FALSE
          <6>1. m = unit[f][1]
            BY <2>5, <4>4, <5>2
          <6>2. x = 1 \/ unit[f][1] < unit[f][x]
            BY <3>2
          <6>3. unit[f][x] \in Nat /\ unit[f][1] \in Nat
            BY <3>2
          <6> QED BY <4>1, <4>4, <6>1, <6>2, <6>3
        <5> QED BY <5>1, <5>2
      <4> QED BY <4>2, <4>3, <4>4
    <3>4. ASSUME NEW j \in 1..Len(s), NEW k \in 1..Len(s), j < k PROVE s[j] < s[k]
      <4>1. PICK x \in 1..Len(unit[f]), y \in 1..Len(unit[f]) :
               /\ x = j + d /\ y = k + d /\ s[j] = unit[f][x] /\ s[k] = unit[f][y]
        BY <3>1
      <4>2. x < y
        BY <3>4, <4>1
      <4> QED BY <3>2, <4>1, <4>2
    <3>5. ASSUME NEW m \in 1..issued, Insn(m).fu = f, made'[m] < Insn(m).out
          PROVE  \E k \in 1..Len(s) : s[k] = m
      <4>0. m \in Prog /\ made[m] \in Nat /\ made'[m] \in Nat
        BY <1>0, ProgramFacts, MadeStep
      <4>1. made[m] < Insn(m).out
        BY <3>5, <2>5, <4>0
      <4>2. PICK x \in 1..Len(unit[f]) : unit[f][x] = m
        BY <3>2, <3>5, <4>1
      <4>3. pop => x # 1
        BY <2>6, <3>5, <4>0, <4>2
      <4>4. x - d \in 1..Len(s) /\ (x - d) + d = x
        BY <2>4, <3>1, <4>3
      <4> QED BY <3>1, <4>2, <4>4
    <3> QED BY <3>1, <3>3, <3>4, <3>5
  <2> HIDE DEF s
  <2>8. CASE ~put
    <3>1. unit'[f] = s
      BY <2>3, <2>8 DEF Push, s
    <3>2. ASSUME NEW m \in 1..issued', Insn(m).fu = f, made'[m] < Insn(m).out
          PROVE  m \in 1..issued
      <4>1. CASE m = n /\ given
        <5>1. Insn(n).out \in Nat /\ n \in Prog /\ made'[n] \in Nat
          BY <1>0, <1>1, <4>1, ProgramFacts, MadeStep DEF InsnOK
        <5>2. Insn(n).fu = f /\ made'[n] < Insn(n).out
          BY <3>2, <4>1
        <5>3. Insn(n).out > 0
          BY <5>1, <5>2
        <5> QED BY <2>2, <2>8, <4>1, <5>2, <5>3
      <4> QED BY <1>0, <1>1, <4>1
    <3>3. 1..issued \subseteq 1..issued'
      BY <1>0, <1>1
    <3> QED BY <2>7, <3>1, <3>2, <3>3
  <2>9. CASE put
    <3>1. /\ issued' = n /\ n \in Prog /\ n \notin 1..issued /\ n \in Nat
          /\ Insn(n).fu = f /\ Insn(n).out > 0
      <4>1. given /\ f = Insn(n).fu /\ Insn(n).out > 0
        BY <2>2, <2>9
      <4> QED BY <1>0, <1>1, <4>1
    <3>2. /\ unit'[f] = Append(s, n) /\ Len(unit'[f]) = Len(s) + 1
          /\ unit'[f] \in Seq(Nat) /\ unit'[f][Len(s) + 1] = n
          /\ \A k \in 1..Len(s) : unit'[f][k] = s[k]
      BY <2>3, <2>7, <2>9, <3>1 DEF Push, s
    <3>3. \A m \in Prog : m > issued => made'[m] = 0
      <4> SUFFICES ASSUME NEW m \in Prog, m > issued PROVE made'[m] = 0
        OBVIOUS
      <4>1. made[m] = 0
        BY DEF GInv, Counted
      <4> QED BY <1>0, <4>1, MadeStep, ProgramFacts
    <3>4. ASSUME NEW k \in 1..Len(unit'[f])
          PROVE  \/ k \in 1..Len(s) /\ unit'[f][k] = s[k]
                 \/ k = Len(s) + 1 /\ unit'[f][k] = n
      BY <2>7, <3>2
    <3>5. 1..issued' = 1..issued \cup {n} /\ \A m \in 1..issued : m < n
      BY <1>0, <3>1
    <3>6. ASSUME NEW k \in 1..Len(unit'[f])
          PROVE  /\ unit'[f][k] \in 1..issued'
                 /\ Insn(unit'[f][k]).fu = f
                 /\ made'[unit'[f][k]] < Insn(unit'[f][k]).out
                 /\ \A m \in Prog : Insn(m).fu = f /\ unit'[f][k] < m => made'[m] = 0
      <4>1. CASE k \in 1..Len(s) /\ unit'[f][k] = s[k]
        BY <2>7, <3>5, <4>1
      <4>2. CASE k = Len(s) + 1 /\ unit'[f][k] = n
        <5>1. made'[n] = 0
          BY <1>0, <3>1, <3>3
        <5>2. \A m \in Prog : n < m => m > issued
          BY <1>0, ProgramFacts
        <5> QED BY <3>1, <3>3, <3>5, <4>2, <5>1, <5>2
      <4> QED BY <3>4, <4>1, <4>2
    <3>7. ASSUME NEW j \in 1..Len(unit'[f]), NEW k \in 1..Len(unit'[f]), j < k
          PROVE  unit'[f][j] < unit'[f][k]
      BY <2>7, <3>2, <3>4, <3>5, <3>7
    <3>8. ASSUME NEW m \in 1..issued', Insn(m).fu = f, made'[m] < Insn(m).out
          PROVE  \E k \in 1..Len(unit'[f]) : unit'[f][k] = m
      <4>1. CASE m = n
        BY <2>7, <3>2, <4>1
      <4>2. CASE m \in 1..issued
        <5>1. PICK k \in 1..Len(s) : s[k] = m
          BY <2>7, <3>8, <4>2
        <5> QED BY <2>7, <3>2, <5>1
      <4> QED BY <3>5, <4>1, <4>2
    <3> QED BY <3>2, <3>6, <3>7, <3>8
  <2> QED BY <2>8, <2>9
<1>3. unit' = [f \in FUs |-> unit'[f]]
  BY IssueStep
<1>4. InUnits'
  BY <1>0, <1>2, SameProgram DEF InUnits
<1> QED BY <1>2, <1>3, <1>4

LEMMA CountedKept ==
    ASSUME GInv, NEW G, NEW work, NEW fin, CycleOf(G, work, fin)
    PROVE  Counted'
<1>0. Typed /\ prog' = prog /\ Prog' = Prog /\ issued \in Nat
  BY IssueStep, SameProgram, ProgramFacts DEF GInv
<1>1. ASSUME NEW n \in Prog
      PROVE  /\ made'[n] <= Insn(n).out
             /\ n > issued' => made'[n] = 0
             /\ n <= issued' /\ n \notin running' =>
                   /\ made'[n] = Insn(n).out
                   /\ Insn(n).vd # NoReg => wrote'[n] = made'[n]
             /\ Insn(n).vd = NoReg => wrote'[n] = 0
  <2>1. /\ made[n] \in Nat /\ n \in Nat /\ Insn(n).out \in Nat
        /\ made[n] <= Insn(n).out /\ (n > issued => made[n] = 0)
        /\ n <= issued /\ n \notin running =>
              made[n] = Insn(n).out /\ (Insn(n).vd # NoReg => wrote[n] = made[n])
        /\ Insn(n).vd = NoReg => wrote[n] = 0
    BY <1>0, ProgramFacts, MadeStep DEF GInv, Counted, InsnOK
  <2>2. made'[n] <= Insn(n).out /\ made'[n] \in Nat
    BY <2>1, MadeStep
  <2>3. issued' >= issued /\ issued' \in Nat
    BY <1>0, IssueStep DEF Idles, Issues
  <2>4. n > issued' => made'[n] = 0
    BY <1>0, <2>1, <2>3, MadeStep
  <2>5. Insn(n).vd = NoReg => wrote'[n] = 0
    BY <2>1, WroteStep
  <2>6. ASSUME n <= issued', n \notin running'
        PROVE  /\ made'[n] = Insn(n).out
               /\ Insn(n).vd # NoReg => wrote'[n] = made'[n]
    <3>1. n <= issued /\ (n \notin running \/ n \in fin)
      BY <1>0, <2>1, <2>6, IssueStep DEF Idles, Issues
    <3>2. made[n] = Insn(n).out /\ (Insn(n).vd # NoReg => wrote[n] = made[n])
      <4>1. CASE n \notin running
        BY <2>1, <3>1, <4>1
      <4>2. CASE n \in fin
        BY <2>1, <4>2 DEF CycleOf, Complete
      <4> QED BY <3>1, <4>1, <4>2
    <3>3. made'[n] = made[n]
      BY <2>1, <3>2, MadeStep
    <3>4. Insn(n).vd # NoReg => n \notin WritersOf(G)
      BY <2>1, <3>2, WroteStep
    <3> QED BY <3>2, <3>3, <3>4, WroteStep
  <2> QED BY <2>2, <2>4, <2>5, <2>6
<1> QED BY <1>0, <1>1, SameProgram DEF Counted

LEMMA HazardBefore ==
    ASSUME Typed, NEW n \in Prog
    PROVE  /\ Row(n) \subseteq Prog /\ \A h \in Row(n) : h < n
           /\ \A q \in Queues : Hazard(n, q) \subseteq Prog
           /\ \A q \in Sources(Insn(n)) : Hazard(n, q) \subseteq Row(n)
<1>1. \A h \in Earlier(n) : h \in Prog /\ h < n
  BY ProgramFacts DEF Earlier
<1>2. \A r : Writer(n, r) \subseteq Earlier(n) /\ Reader(n, r) \subseteq Earlier(n)
  BY DEF Writer, Reader, Latest
<1>3. \A q : Hazard(n, q) \subseteq Earlier(n)
  BY <1>2 DEF Hazard
<1> QED BY <1>1, <1>2, <1>3 DEF Row

LEMMA AskedKept ==
    ASSUME GInv, NEW G, NEW work, NEW fin, CycleOf(G, work, fin)
    PROVE  Asked' /\ opreq' \in [Queues -> 0..issued']
<1>0. Typed /\ prog' = prog /\ Prog' = Prog /\ issued \in Nat
  BY IssueStep, SameProgram, ProgramFacts DEF GInv
<1>1. ASSUME NEW q \in Queues
      PROVE  /\ opreq'[q] \in 0..issued'
             /\ opreq'[q] # 0 =>
                   /\ opreq'[q] \in Users(q)
                   /\ \A n \in Users(q) : n <= issued' => n <= opreq'[q]
  <2>1. /\ opreq[q] \in 0..issued
        /\ opreq[q] # 0 =>
              /\ opreq[q] \in Users(q)
              /\ \A n \in Users(q) : n <= issued => n <= opreq[q]
    BY <1>0 DEF GInv, Asked, Typed
  <2>2. CASE Idles(fin) /\ opreq'[q] = IF Accepts(q, G) THEN 0 ELSE opreq[q]
    BY <1>0, <2>1, <2>2 DEF Idles
  <2>3. CASE Issues(issued + 1, fin)
    <3>1. issued' = issued + 1 /\ issued' \in Prog
      BY <2>3 DEF Issues, MayIssue
    <3>2. CASE q \in Sources(Insn(issued'))
      <4>1. opreq'[q] = issued' /\ issued' \in Users(q)
        BY <1>0, <3>1, <3>2, IssueStep DEF Users, Idles
      <4> QED BY <1>0, <3>1, <4>1
    <3>3. CASE q \notin Sources(Insn(issued'))
      <4>1. opreq'[q] \in {0, opreq[q]}
        BY <1>0, <3>1, <3>3, IssueStep DEF Idles
      <4>2. \A n \in Users(q) : n <= issued' => n <= issued
        <5>1. \A n \in Users(q) : n \in Nat /\ n # issued'
          BY <1>0, <3>3, ProgramFacts DEF Users
        <5> QED BY <1>0, <3>1, <5>1
      <4> QED BY <1>0, <2>1, <3>1, <4>1, <4>2
    <3> QED BY <3>2, <3>3
  <2> QED BY <2>2, <2>3, IssueStep
<1>2. opreq' = [q \in Queues |-> opreq'[q]]
  BY IssueStep
<1>3. Asked'
  BY <1>0, <1>1, SameProgram DEF Asked
<1> QED BY <1>1, <1>2, <1>3

LEMMA Reads ==
    ASSUME GInv, NEW G, NEW work, NEW fin, CycleOf(G, work, fin), NEW q \in Queues
    PROVE  q \in G => /\ requester[q].state = "REQUESTING" /\ ~stall(q)
                      /\ Len(ibuf[q]) < DataBufDepth
<1> SUFFICES ASSUME q \in G
             PROVE  /\ requester[q].state = "REQUESTING" /\ ~stall(q)
                    /\ Len(ibuf[q]) < DataBufDepth
  OBVIOUS
<1>1. q \in Reading
  BY DEF CycleOf, Grants, Writing, Queues, FUs
<1>2. /\ ibuf[q] \in Seq(Operands) /\ Len(ibuf[q]) <= DataBufDepth
      /\ Len(ibuf[q]) # DataBufDepth
  BY <1>1 DEF Reading, Ready, GInv, Typed
<1> QED BY <1>1, <1>2, BuffersAssumption DEF Reading

LEMMA FreshType ==
    ASSUME Typed, NEW q \in Queues, NEW n \in Users(q), NEW r, r = Fresh(q, n)
    PROVE  /\ vaddr(Insn(n).src[q]) \in Nat /\ words(Insn(n)) \in Nat
           /\ r.state = "REQUESTING" /\ r.id = n
           /\ r.addr = vaddr(Insn(n).src[q])
           /\ r.len = (IF words(Insn(n)) = 0 THEN 1 ELSE words(Insn(n)))
           /\ r.hazard = Hazard(n, q) \cap table[n]
           /\ r.is_widening = FALSE
           /\ n <= issued => r \in RequesterStates
<1>1. n \in Prog /\ InsnOK(Insn(n)) /\ q \in Sources(Insn(n))
  BY ProgramFacts DEF Users
<1>2. vaddr(Insn(n).src[q]) \in Nat
  <2>1. Insn(n).src[q] \in 0..NoReg
    BY <1>1 DEF InsnOK, Sources, NoReg
  <2> QED BY <2>1, Address
<1>3. words(Insn(n)) \in Nat
  <2>1. \A k \in Nat : (k + 1) \div 2 \in Nat /\ 2 * k \in Nat
    BY SMTT(20)
  <2>2. Insn(n).out \in Nat /\ Insn(n).rate \in Rates
    BY <1>1 DEF InsnOK
  <2>3. PICK x, y : x = (Insn(n).out + 1) \div 2 /\ y = 2 * Insn(n).out
    OBVIOUS
  <2>4. x \in Nat /\ y \in Nat
    BY <2>1, <2>2, <2>3
  <2>5. words(Insn(n)) = CASE Insn(n).rate = "same" -> Insn(n).out
                           [] Insn(n).rate = "wide" -> x
                           [] Insn(n).rate = "narrow" -> y
    BY <2>3 DEF words
  <2> QED BY <2>2, <2>4, <2>5 DEF Rates
<1>4. PICK a, w, h : /\ a = vaddr(Insn(n).src[q])
                     /\ w = (IF words(Insn(n)) = 0 THEN 1 ELSE words(Insn(n)))
                     /\ h = Hazard(n, q) \cap table[n]
  OBVIOUS
<1>5. r = [Idle EXCEPT !.state = "REQUESTING", !.id = n, !.addr = a, !.len = w,
                       !.hazard = h]
  BY <1>4 DEF Fresh
<1>6. a \in Int /\ w \in Nat /\ h \subseteq Prog
  BY <1>1, <1>2, <1>3, <1>4, HazardBefore
<1>7. n <= issued => n \in 0..issued
  BY <1>1, ProgramFacts
<1>8. /\ r.state = "REQUESTING" /\ r.id = n /\ r.addr = a /\ r.len = w
      /\ r.hazard = h /\ r.is_widening = FALSE /\ r.waw = {}
      /\ Typed /\ n \in 0..issued /\ a \in Int /\ w \in Nat /\ h \subseteq Prog =>
            r \in RequesterStates
  BY <1>5 DEF Idle, RequesterStates
<1> QED BY <1>2, <1>3, <1>4, <1>6, <1>7, <1>8

LEMMA RequesterType ==
    ASSUME GInv, NEW G, NEW work, NEW fin, CycleOf(G, work, fin), NEW q \in Queues
    PROVE  requester'[q] \in RequesterStates'
<1>0. Typed /\ prog' = prog /\ Prog' = Prog /\ issued \in Nat
  BY IssueStep, SameProgram, ProgramFacts DEF GInv
<1>1. PICK r \in RequesterStates : r = requester[q]
  BY <1>0 DEF Typed
<1>2. issued' \in Nat /\ issued <= issued'
  BY <1>0, IssueStep DEF Idles, Issues
<1>3. RequesterStates \subseteq RequesterStates'
  BY <1>0, <1>2 DEF RequesterStates
<1>4. Idle \in RequesterStates
  BY <1>0 DEF RequesterStates, Idle
<1>5. ASSUME opreq[q] # 0
      PROVE  Fresh(q, opreq[q]) \in RequesterStates /\ FromIdle(q, opreq[q]) \in RequesterStates
  <2>1. opreq[q] \in Users(q) /\ opreq[q] \in 0..issued /\ opreq[q] \in Prog
    BY <1>0, <1>5 DEF GInv, Asked, Users, Typed
  <2>2. Fresh(q, opreq[q]) \in RequesterStates
    <3>1. opreq[q] <= issued
      BY <1>0, <2>1
    <3> QED BY <1>0, <2>1, <3>1, FreshType
  <2>3. [Fresh(q, opreq[q]) EXCEPT !.is_widening = IsWidening(q, opreq[q])]
           \in RequesterStates
    BY <2>2 DEF RequesterStates, IsWidening
  <2> QED BY <1>4, <2>2, <2>3 DEF FromIdle
<1> DEFINE kept == [r EXCEPT !.waw = Toggled(r.waw, WritersOf(G)),
                             !.hazard = r.hazard \cap table[r.id]]
<1>6. kept \in RequesterStates
  <2>1. WritersOf(G) \subseteq Prog
    BY Writers DEF WritersOf, Makers
  <2>2. Toggled(r.waw, WritersOf(G)) \in SUBSET Prog
    BY <2>1 DEF Toggled, RequesterStates
  <2>3. r.hazard \cap table[r.id] \in SUBSET Prog
    BY DEF RequesterStates
  <2> QED BY <2>2, <2>3 DEF RequesterStates
<1>7. r.len > 1 => [kept EXCEPT !.addr = r.addr + 1, !.len = r.len - 1] \in RequesterStates
  <2>1. r.addr + 1 \in Int /\ (r.len > 1 => r.len - 1 \in Nat)
    BY DEF RequesterStates
  <2> HIDE DEF kept
  <2> QED BY <1>6, <2>1 DEF RequesterStates
<1>8. requester'[q] = Requester(q, G)
  BY DEF CycleOf, Cycle, Lane
<1>9. Requester(q, G) \in RequesterStates
  BY <1>1, <1>4, <1>5, <1>6, <1>7 DEF Requester, BackToBack
<1> QED BY <1>3, <1>8, <1>9

LEMMA BuffersType ==
    ASSUME GInv, NEW G, NEW work, NEW fin, CycleOf(G, work, fin), NEW q \in Queues
    PROVE  /\ ibuf'[q] \in Seq(Operands) /\ Len(ibuf'[q]) <= DataBufDepth
           /\ Popped(q, work) => ibuf[q] # <<>>
<1>0. Typed /\ issued \in Nat
  BY ProgramFacts DEF GInv
<1> DEFINE e == [id |-> requester[q].id, addr |-> requester[q].addr,
                 writer |-> IF requester[q].addr \in Addrs
                            THEN vrf[requester[q].addr] ELSE 0]
<1>1. ibuf'[q] = Push(Pop(ibuf[q], Popped(q, work)), q \in G, e)
  BY DEF CycleOf, Cycle, Lane, Buffers
<1>2. Popped(q, work) => ibuf[q] # <<>>
  BY Working DEF Popped
<1>3. e \in Operands
  <2>1. requester[q].id \in Nat /\ requester[q].addr \in Int
    BY <1>0 DEF Typed, RequesterStates
  <2>2. \A a \in Addrs : vrf[a] \in Nat
    BY <1>0, ProgramFacts DEF Typed
  <2> QED BY <2>1, <2>2 DEF Operands
<1>4. ibuf[q] \in Seq(Operands) /\ Len(ibuf[q]) <= DataBufDepth
  BY <1>0 DEF Typed
<1> HIDE DEF e
<1>5. /\ Pop(ibuf[q], Popped(q, work)) \in Seq(Operands)
      /\ Len(Pop(ibuf[q], Popped(q, work))) <= Len(ibuf[q])
  BY <1>2, <1>4 DEF Pop
<1>6. q \in G => Len(ibuf[q]) < DataBufDepth
  BY Reads
<1> QED BY <1>1, <1>2, <1>3, <1>4, <1>5, <1>6, BuffersAssumption DEF Push

LEMMA RegisterType ==
    ASSUME GInv, NEW G, NEW work, NEW fin, CycleOf(G, work, fin), NEW a \in Addrs
    PROVE  vrf'[a] \in {0} \cup Prog
<1>1. vrf' = [b \in Addrs |->
                IF \E f \in G \cap FUs : Head(resq[f]).addr = b
                THEN CHOOSE n \in Prog : \E f \in G \cap FUs :
                        Head(resq[f]) = [id |-> n, addr |-> b]
                ELSE vrf[b]]
  BY DEF CycleOf, Cycle, Lane, WriteBack
<1>2. ASSUME NEW f \in G \cap FUs, Head(resq[f]).addr = a
      PROVE  \E n \in Prog : \E g \in G \cap FUs :
                Head(resq[g]) = [id |-> n, addr |-> a]
  <2>1. Head(resq[f]).id \in Prog /\ Head(resq[f]) \in Products
    BY Writers DEF Makers
  <2>2. Head(resq[f]) = [id |-> Head(resq[f]).id, addr |-> a]
    BY <1>2, <2>1 DEF Products
  <2> QED BY <2>1, <2>2
<1>3. vrf[a] \in {0} \cup Prog
  BY DEF GInv, Typed
<1> QED BY <1>1, <1>2, <1>3

LEMMA TypedKept ==
    ASSUME GInv, NEW G, NEW work, NEW fin, CycleOf(G, work, fin)
    PROVE  Typed'
<1>0. Typed /\ prog' = prog /\ Prog' = Prog /\ issued \in Nat /\ Addrs' = Addrs
  BY IssueStep, SameProgram, ProgramFacts DEF GInv, Addrs, Dst, vaddr
<1>1. /\ issued' \in 0..Len(prog) /\ running' \subseteq 1..issued'
      /\ table' \in [Prog -> SUBSET Prog]
  <2>1. issued \in 0..Len(prog) /\ running \subseteq 1..issued /\ table \in [Prog -> SUBSET Prog]
    BY <1>0 DEF Typed
  <2>2. CASE Idles(fin)
    BY <2>1, <2>2 DEF Idles
  <2>3. CASE Issues(issued + 1, fin)
    <3>1. issued + 1 \in 1..Len(prog) /\ Row(issued + 1) \subseteq Prog
      BY <1>0, <2>3, HazardBefore DEF Issues, MayIssue, Prog
    <3>2. issued' = issued + 1 /\ running' = (running \ fin) \cup {issued + 1}
      BY <2>3 DEF Issues
    <3>3. running' \subseteq 1..issued'
      <4>1. \A n \in 1..issued : n \in 1..(issued + 1)
        BY <1>0
      <4>2. issued + 1 \in 1..(issued + 1)
        BY <1>0
      <4>3. ASSUME NEW n \in running' PROVE n \in 1..issued'
        <5>1. n \in running \/ n = issued + 1
          BY <3>2
        <5>2. n \in running => n \in 1..issued
          BY <2>1
        <5> QED BY <3>2, <4>1, <4>2, <5>1, <5>2
      <4> QED BY <4>3
    <3>4. table' \in [Prog -> SUBSET Prog]
      BY <2>1, <2>3, <3>1 DEF Issues
    <3> QED BY <3>1, <3>2, <3>3, <3>4
  <2> QED BY <2>2, <2>3, IssueStep
<1>2. opreq' \in [Queues -> 0..issued'] /\ unit' \in [FUs -> Seq(Nat)]
  BY AskedKept, UnitsKept
<1>3. requester' \in [Queues -> RequesterStates']
  <2>1. requester' = [q \in Queues |-> requester'[q]]
    BY DEF CycleOf, Cycle, Lane
  <2> QED BY <2>1, RequesterType
<1>4. written' \subseteq Prog
  <2>1. written' = WritersOf(G)
    BY DEF CycleOf, Cycle, Lane, WriteBack
  <2> QED BY <2>1, Writers DEF WritersOf, Makers
<1>5. /\ ibuf' \in [Queues -> Seq(Operands)]
      /\ \A q \in Queues : Len(ibuf'[q]) <= DataBufDepth
  <2>1. ibuf' = [q \in Queues |-> ibuf'[q]]
    BY DEF CycleOf, Cycle, Lane, Buffers
  <2> QED BY <2>1, BuffersType
<1>6. made' \in [Prog -> Nat] /\ wrote' \in [Prog -> Nat]
  <2>1. made' = [n \in Prog |-> made'[n]] /\ wrote' = [n \in Prog |-> wrote'[n]]
    BY DEF CycleOf, Cycle, Lane, Units, WriteBack
  <2> QED BY <2>1, MadeStep, WroteStep
<1>7. half' \in [Prog -> BOOLEAN]
  BY <1>0 DEF CycleOf, Cycle, Lane, Units, Halves, Typed
<1>8. /\ resq' \in [FUs -> Seq(Products)]
      /\ \A f \in FUs : Len(resq'[f]) <= ResultQueueDepth
  BY ResultsKept
<1>9. vrf' \in [Addrs -> {0} \cup Prog]
  <2>1. vrf' = [a \in Addrs |-> vrf'[a]]
    BY DEF CycleOf, Cycle, Lane, WriteBack
  <2> QED BY <2>1, RegisterType
<1>10. Operands' = Operands /\ Products' = Products
  BY DEF Operands, Products
<1> QED BY <1>0, <1>1, <1>2, <1>3, <1>4, <1>5, <1>6, <1>7, <1>8, <1>9, <1>10 DEF Typed

LEMMA InitGInv == Init => GInv
<1> SUFFICES ASSUME Init PROVE GInv
  OBVIOUS
<1>1. Len(prog) \in Nat /\ \A n \in Prog : n \in Nat /\ n >= 1 /\ InsnOK(Insn(n))
  BY ProgramsAssumption DEF Init, Prog, Insn
<1>2. Typed
  <2>1. \A q \in Queues : ibuf[q] \in Seq(Operands) /\ Len(ibuf[q]) <= DataBufDepth
    BY BuffersAssumption DEF Init
  <2>2. \A f \in FUs : /\ resq[f] \in Seq(Products) /\ Len(resq[f]) <= ResultQueueDepth
                       /\ unit[f] \in Seq(Nat)
    BY BuffersAssumption DEF Init
  <2>3. Idle \in RequesterStates
    BY DEF Idle, RequesterStates, Init
  <2> QED BY <1>1, <2>1, <2>2, <2>3 DEF Init, Typed
<1>3. InUnits
  BY DEF Init, InUnits
<1>4. Counted
  BY <1>1 DEF Init, Counted, InsnOK
<1>5. InResults
  <2> SUFFICES ASSUME NEW f \in FUs
               PROVE  Flow(resq[f], Makers(f), To(f), wrote, made)
    BY DEF InResults
  <2>1. resq[f] = <<>> /\ Len(resq[f]) = 0
    BY DEF Init
  <2>2. \A n \in Makers(f) : wrote[n] = 0 /\ made[n] = 0
    BY DEF Init, Makers
  <2> QED BY <2>1, <2>2 DEF Flow
<1>6. Asked
  BY DEF Init, Asked
<1> QED BY <1>2, <1>3, <1>4, <1>5, <1>6 DEF GInv

LEMMA StutterGInv == GInv /\ UNCHANGED vars => GInv'
<1> SUFFICES ASSUME GInv, UNCHANGED vars PROVE GInv'
  OBVIOUS
<1>1. /\ prog' = prog /\ issued' = issued /\ running' = running /\ table' = table
      /\ opreq' = opreq /\ requester' = requester /\ written' = written
      /\ ibuf' = ibuf /\ unit' = unit /\ made' = made /\ half' = half
      /\ resq' = resq /\ wrote' = wrote /\ vrf' = vrf
  BY DEF vars, reqVars, unitVars
<1>2. /\ Addrs' = Addrs /\ Operands' = Operands /\ Products' = Products
      /\ RequesterStates' = RequesterStates
  BY <1>1, SameProgram DEF Addrs, Dst, vaddr, Operands, Products, RequesterStates
<1>3. Typed'
  BY <1>1, <1>2, SameProgram DEF GInv, Typed
<1>4. InUnits' /\ Counted' /\ Asked'
  BY <1>1, SameProgram DEF GInv, InUnits, Counted, Asked
<1>5. InResults'
  BY <1>1, SameProgram DEF GInv, InResults
<1> QED BY <1>3, <1>4, <1>5 DEF GInv

LEMMA NextIsCycle ==
    ASSUME Next PROVE \E G, work, fin : CycleOf(G, work, fin)
BY DEF Next, CycleOf

LEMMA NextGInv == GInv /\ [Next]_vars => GInv'
<1> SUFFICES ASSUME GInv, [Next]_vars PROVE GInv'
  OBVIOUS
<1>1. CASE Next
  <2>1. PICK G, work, fin : CycleOf(G, work, fin)
    BY <1>1, NextIsCycle
  <2> QED BY <2>1, TypedKept, UnitsKept, CountedKept, ResultsKept, AskedKept DEF GInv
<1>2. CASE UNCHANGED vars
  BY <1>2, StutterGInv
<1> QED BY <1>1, <1>2

LEMMA WroteMade ==
    ASSUME GInv, NEW n \in Prog
    PROVE  wrote[n] <= made[n] /\ made[n] <= Insn(n).out
<1>1. Typed /\ Counted
  BY DEF GInv
<1>2. CASE Insn(n).vd = NoReg
  BY <1>1, <1>2 DEF Counted, Typed
<1>3. CASE Insn(n).vd # NoReg
  <2>1. n \in Makers(Insn(n).fu) /\ Insn(n).fu \in FUs
    BY <1>1, <1>3, ProgramFacts DEF Makers, InsnOK
  <2> QED BY <1>1, <2>1 DEF GInv, InResults, Flow, Counted
<1> QED BY <1>2, <1>3

(***************************************************************************)
(* Types, and that neither the operand queues, which have no way to refuse *)
(* a word, nor the result queues ever hold more than they have room for    *)
(* (operand_requester.sv and the functional units), for all programs.      *)
(***************************************************************************)
THEOREM LaneTypeCorrect == Spec => []TypeOK
<1>1. GInv => TypeOK
  <2> SUFFICES ASSUME GInv PROVE TypeOK
    OBVIOUS
  <2>1. Typed /\ InUnits /\ Counted
    BY DEF GInv
  <2>2. \A q \in Queues : /\ requester[q].state \in {"IDLE", "REQUESTING"}
                          /\ requester[q].id \in 0..issued
                          /\ requester[q].len \in Nat
                          /\ requester[q].hazard \subseteq Prog
                          /\ requester[q].is_widening \in BOOLEAN
                          /\ requester[q].waw \subseteq Prog
    BY <2>1 DEF Typed, RequesterStates
  <2>3. ASSUME NEW f \in FUs, NEW k \in 1..Len(unit[f])
        PROVE  unit[f][k] \in running
    <3>1. PICK n : n = unit[f][k] /\ n \in 1..issued /\ made[n] < Insn(n).out
      BY <2>1 DEF InUnits
    <3>2. n \in Prog /\ made[n] \in Nat /\ Insn(n).out \in Nat /\ n <= issued
      BY <2>1, <3>1, ProgramFacts DEF Typed, InsnOK
    <3> QED BY <2>1, <3>1, <3>2 DEF Counted
  <2> QED BY <2>1, <2>2, <2>3, WroteMade DEF Typed, TypeOK
<1> QED BY <1>1, InitGInv, NextGInv, PTL DEF Spec

-----------------------------------------------------------------------------
(***************************************************************************)
(* What flows through the operand queues, for programs all of whose        *)
(* instructions have elements in the lane.  Read(q) says how many words of *)
(* an instruction its requester has read, Used how many of them its unit   *)
(* has used: a widening instruction uses a word in two steps, a narrowing  *)
(* one needs two steps, and two words, for a result.                       *)
(***************************************************************************)
NoneEmpty(p) == \A k \in 1..Len(p) : p[k].out >= 1

From(q) == [n \in Users(q) |-> vaddr(Insn(n).src[q])]
Read(q) ==
    [n \in Users(q) |->
       IF n > issued \/ opreq[q] = n THEN 0
       ELSE IF requester[q].state = "REQUESTING" /\ requester[q].id = n
            THEN requester[q].addr - From(q)[n]
       ELSE words(Insn(n))]
Used ==
    [n \in Prog |->
       IF Insn(n).rate = "wide"
       THEN IF made[n] = Insn(n).out THEN words(Insn(n)) ELSE made[n] \div 2
       ELSE IF Insn(n).rate = "narrow"
       THEN 2 * made[n] + (IF half[n] THEN 1 ELSE 0)
       ELSE made[n]]

\* An instruction is half way through a word after every other step.
Halved ==
    \A n \in Prog :
        /\ Insn(n).rate = "wide" /\ made[n] < Insn(n).out =>
              (half[n] <=> made[n] % 2 = 1)
        /\ Insn(n).rate = "narrow" /\ half[n] => made[n] < Insn(n).out

\* The requester is at an instruction the lane has received; those that come
\* after it have not been taken.
Requested ==
    \A q \in Queues : requester[q].state = "REQUESTING" =>
        LET r == requester[q]
        IN  /\ r.id \in Users(q) /\ r.id # opreq[q] /\ r.id <= issued
            /\ From(q)[r.id] <= r.addr /\ r.len >= 1
            /\ r.addr + r.len = From(q)[r.id] + words(Insn(r.id))
            /\ \A n \in Users(q) : r.id < n /\ n <= issued => n = opreq[q]

\* The operand queues hold what is read and not used.
Loaded == \A q \in Queues : Flow(ibuf[q], Users(q), From(q), Used, Read(q))

\* As long as h runs, an instruction n that waits for it reads at most as many
\* words as h writes results, and reads the next one after the next result.
PacedBy(q, n, h) ==
    /\ h \in table[n] /\ Read(q)[n] <= wrote[h]
    /\ requester[q].state = "REQUESTING" /\ requester[q].id = n =>
          /\ h \in requester[q].hazard
          /\ h \in written => Read(q)[n] + 1 <= wrote[h]

Follows ==
    \A q \in Queues : \A n \in Users(q) : n <= issued =>
        \A h \in Hazard(n, q) : h \in running => PacedBy(q, n, h)

\* What reads nothing waited for the others to finish.
Waited ==
    \A n \in Prog : n <= issued /\ Sources(Insn(n)) = {} => Row(n) \cap running = {}

UInv == Halved /\ Requested /\ Loaded /\ Follows /\ Waited

LEMMA Halving ==
    \A k \in Nat :
        /\ k \div 2 \in Nat /\ k % 2 \in {0, 1}
        /\ (k + 2) \div 2 = k \div 2 + 1
        /\ k % 2 = 1 => (k + 1) \div 2 = k \div 2 + 1 /\ (k + 1) % 2 = 0
        /\ k % 2 = 0 => (k + 1) \div 2 = k \div 2 /\ (k + 1) % 2 = 1
        /\ \A j \in Nat : k < j => k \div 2 < (j + 1) \div 2
BY SMTT(30)

LEMMA WordsOf ==
    ASSUME Typed, NEW n \in Prog
    PROVE  /\ InsnOK(Insn(n)) /\ Insn(n).out \in Nat /\ words(Insn(n)) \in Nat
           /\ Insn(n).rate \in {"same", "wide", "narrow"}
           /\ Insn(n).rate = "same" => words(Insn(n)) = Insn(n).out
           /\ Insn(n).rate = "wide" => words(Insn(n)) = (Insn(n).out + 1) \div 2
           /\ Insn(n).rate = "narrow" => words(Insn(n)) = 2 * Insn(n).out
           /\ NoneEmpty(prog) => Insn(n).out >= 1 /\ words(Insn(n)) >= 1
<1>1. /\ InsnOK(Insn(n)) /\ Insn(n).out \in Nat
      /\ Insn(n).rate \in {"same", "wide", "narrow"}
  BY ProgramFacts DEF InsnOK, Rates
<1>2. PICK o, x, y : o = Insn(n).out /\ x = (o + 1) \div 2 /\ y = 2 * o
  OBVIOUS
<1>3. words(Insn(n)) = CASE Insn(n).rate = "same" -> o
                         [] Insn(n).rate = "wide" -> x
                         [] Insn(n).rate = "narrow" -> y
  BY <1>2 DEF words
<1>4. o \in Nat /\ x \in Nat /\ y \in Nat /\ (o >= 1 => x >= 1 /\ y >= 1)
  <2>1. o \in Nat /\ (o >= 1 => 0 \div 2 < (o + 1) \div 2) /\ (o + 1) \div 2 \in Nat
    BY <1>1, <1>2, Halving
  <2>2. 0 \div 2 \in Nat
    BY Halving
  <2> QED BY <1>2, <2>1, <2>2
<1>5. /\ Insn(n).rate = "same" => words(Insn(n)) = o
      /\ Insn(n).rate = "wide" => words(Insn(n)) = x
      /\ Insn(n).rate = "narrow" => words(Insn(n)) = y
  BY <1>3
<1>6. NoneEmpty(prog) => o >= 1
  BY <1>2 DEF NoneEmpty, Prog, Insn
<1>7. words(Insn(n)) \in {o, x, y}
  BY <1>1, <1>5
<1> QED BY <1>1, <1>2, <1>4, <1>5, <1>6, <1>7

\* An instruction that has results to make has words to use, and the reverse.
LEMMA Busy ==
    ASSUME Typed, Halved, Counted, NEW n \in Prog
    PROVE  Used[n] \in Nat /\ (made[n] < Insn(n).out <=> Used[n] < words(Insn(n)))
<1>1. PICK k \in Nat, o \in Nat, w \in Nat, h \in BOOLEAN :
         /\ k = made[n] /\ o = Insn(n).out /\ w = words(Insn(n)) /\ h = half[n]
         /\ k <= o
  BY WordsOf DEF Typed, Counted
<1>2. CASE Insn(n).rate = "same"
  BY <1>1, <1>2, WordsOf DEF Used
<1>3. CASE Insn(n).rate = "wide"
  <2>1. Used[n] = IF k = o THEN w ELSE k \div 2
    BY <1>1, <1>3 DEF Used
  <2>2. w = (o + 1) \div 2
    BY <1>1, <1>3, WordsOf
  <2>3. k \div 2 \in Nat /\ (k < o => k \div 2 < w)
    BY <2>2, Halving
  <2> QED BY <1>1, <2>1, <2>3
<1>4. CASE Insn(n).rate = "narrow"
  <2>1. Used[n] = 2 * k + (IF h THEN 1 ELSE 0)
    BY <1>1, <1>4 DEF Used
  <2>2. w = 2 * o /\ (h => k < o)
    BY <1>1, <1>4, WordsOf DEF Halved
  <2> QED BY <1>1, <2>1, <2>2
<1> QED BY <1>2, <1>3, <1>4, WordsOf

\* Instruction n does a step, or uses up its operands with it.
Steps(n, work) == Insn(n).fu \in work /\ n = Head(unit[Insn(n).fu])
Uses(n, work) == Steps(n, work) /\ Consumes(n)

LEMMA UsedStep ==
    ASSUME GInv, Halved, NEW G, NEW work, NEW fin, CycleOf(G, work, fin),
           NEW n \in Prog
    PROVE  /\ Used'[n] = IF Uses(n, work) THEN Used[n] + 1 ELSE Used[n]
           /\ Insn(n).rate = "wide" /\ made'[n] < Insn(n).out =>
                 (half'[n] <=> made'[n] % 2 = 1)
           /\ Insn(n).rate = "narrow" /\ half'[n] => made'[n] < Insn(n).out
<1>0. Typed /\ Counted /\ prog' = prog
  BY IssueStep DEF GInv
<1>1. PICK k \in Nat, o \in Nat, w \in Nat, h \in BOOLEAN :
         /\ k = made[n] /\ o = Insn(n).out /\ w = words(Insn(n)) /\ h = half[n]
         /\ k <= o
  BY <1>0, WordsOf DEF Typed, Counted
<1>2. PICK k2 \in Nat, h2 \in BOOLEAN :
         /\ k2 = made'[n] /\ h2 = half'[n]
         /\ k2 = IF Steps(n, work) /\ Produces(n) THEN k + 1 ELSE k
         /\ h2 = IF Steps(n, work) THEN Halves(n) ELSE h
  <2>1. half'[n] = IF n \in {Head(unit[f]) : f \in work} THEN Halves(n) ELSE half[n]
    BY DEF CycleOf, Cycle, Lane, Units
  <2>2. n \in {Head(unit[f]) : f \in work} <=> Steps(n, work)
    BY Working DEF Steps
  <2>3. made'[n] = IF Steps(n, work) /\ Produces(n) THEN made[n] + 1 ELSE made[n]
    BY MadeStep DEF Steps, Makes
  <2>4. Halves(n) \in BOOLEAN
    BY DEF Halves
  <2> QED BY <1>1, <2>1, <2>2, <2>3, <2>4
<1>3. Steps(n, work) => k < o
  BY <1>1, Working DEF Steps
<1>4. words(Insn(n))' = words(Insn(n)) /\ Insn(n)' = Insn(n) /\ Prog' = Prog
  BY <1>0, SameProgram DEF words
<1>5. CASE Insn(n).rate = "same"
  <2>1. Produces(n) /\ Consumes(n) /\ Used[n] = k /\ Used'[n] = k2
    BY <1>1, <1>2, <1>4, <1>5 DEF Produces, Consumes, Used
  <2> QED BY <1>2, <1>5, <2>1 DEF Uses
<1>6. CASE Insn(n).rate = "wide"
  <2>1. /\ Produces(n) /\ (Consumes(n) <=> h \/ k + 1 = o) /\ (Halves(n) <=> ~h)
        /\ Used[n] = (IF k = o THEN w ELSE k \div 2)
        /\ Used'[n] = (IF k2 = o THEN w ELSE k2 \div 2)
    BY <1>1, <1>2, <1>4, <1>6 DEF Produces, Consumes, Halves, Used
  <2>2. w = (o + 1) \div 2
    BY <1>0, <1>1, <1>6, WordsOf
  <2>3. k < o => (h <=> k % 2 = 1)
    BY <1>1, <1>6 DEF Halved
  <2>4. CASE ~Steps(n, work)
    BY <1>1, <1>2, <1>6, <2>1, <2>3, <2>4 DEF Uses
  <2>5. CASE Steps(n, work) /\ k + 1 = o
    <3>1. k2 = o /\ Uses(n, work) /\ k < o
      BY <1>2, <2>1, <2>5 DEF Uses
    <3>2. w = k \div 2 + 1
      BY <2>2, <2>5, Halving
    <3> QED BY <1>1, <1>2, <1>6, <2>1, <3>1, <3>2
  <2>6. CASE Steps(n, work) /\ k + 1 # o
    <3>1. k2 = k + 1 /\ k2 < o /\ (h2 <=> ~h) /\ (Uses(n, work) <=> h) /\ k < o
      BY <1>2, <1>3, <2>1, <2>6 DEF Uses
    <3>2. /\ h => (k + 1) \div 2 = k \div 2 + 1 /\ (k + 1) % 2 = 0
          /\ ~h => (k + 1) \div 2 = k \div 2 /\ (k + 1) % 2 = 1
      BY <2>3, <3>1, Halving
    <3> QED BY <1>1, <1>2, <1>6, <2>1, <3>1, <3>2
  <2> QED BY <2>4, <2>5, <2>6
<1>7. CASE Insn(n).rate = "narrow"
  <2>1. /\ Consumes(n) /\ (Produces(n) <=> h) /\ (Halves(n) <=> ~h)
        /\ Used[n] = 2 * k + (IF h THEN 1 ELSE 0)
        /\ Used'[n] = 2 * k2 + (IF h2 THEN 1 ELSE 0)
    BY <1>1, <1>2, <1>4, <1>7 DEF Produces, Consumes, Halves, Used
  <2>2. h => k < o
    BY <1>1, <1>7 DEF Halved
  <2> QED BY <1>1, <1>2, <1>3, <1>7, <2>1, <2>2 DEF Uses
<1> QED BY <1>0, <1>5, <1>6, <1>7, WordsOf

LEMMA HalvedKept ==
    ASSUME GInv, Halved, NEW G, NEW work, NEW fin, CycleOf(G, work, fin)
    PROVE  Halved'
<1>1. prog' = prog
  BY IssueStep
<1> QED BY <1>1, UsedStep, SameProgram DEF Halved

LEMMA UserFacts ==
    ASSUME Typed, NEW q \in Queues, NEW n \in Users(q)
    PROVE  /\ n \in Prog /\ n \in Nat /\ n >= 1 /\ q \in Sources(Insn(n))
           /\ InsnOK(Insn(n)) /\ words(Insn(n)) \in Nat
           /\ NoneEmpty(prog) => words(Insn(n)) >= 1
           /\ Insn(n).fu \in FUs /\ q \in QueuesOf(Insn(n).fu)
           /\ Insn(n).src[q] \in 0..(NoReg - 1)
           /\ From(q)[n] = vaddr(Insn(n).src[q]) /\ From(q)[n] \in Nat
<1>1. /\ n \in Prog /\ n \in Nat /\ n >= 1 /\ q \in Sources(Insn(n))
      /\ InsnOK(Insn(n))
  BY ProgramFacts DEF Users
<1>2. Insn(n).src[q] \in 0..(NoReg - 1) /\ Insn(n).src[q] \in 0..NoReg
  BY <1>1 DEF InsnOK, Sources, NoReg
<1>3. words(Insn(n)) \in Nat /\ (NoneEmpty(prog) => words(Insn(n)) >= 1)
  BY <1>1, WordsOf
<1> QED BY <1>1, <1>2, <1>3, Address DEF InsnOK, Sources, From

\* A queue belongs to one unit.
LEMMA OneUnit ==
    ASSUME NEW q \in Queues, NEW f \in FUs, NEW g \in FUs,
           q \in QueuesOf(f), q \in QueuesOf(g)
    PROVE  f = g
BY DEF Queues, FUs, QueuesOf

LEMMA ReadRange ==
    ASSUME Typed, Requested, NEW q \in Queues, NEW n \in Users(q)
    PROVE  /\ Read(q)[n] \in Nat /\ Read(q)[n] <= words(Insn(n))
           /\ n > issued \/ opreq[q] = n => Read(q)[n] = 0
           /\ requester[q].state = "REQUESTING" /\ requester[q].id = n =>
                 /\ requester[q].addr = From(q)[n] + Read(q)[n]
                 /\ Read(q)[n] + requester[q].len = words(Insn(n))
                 /\ requester[q].len \in Nat /\ requester[q].len >= 1
           /\ \/ n > issued \/ opreq[q] = n \/ Read(q)[n] = words(Insn(n))
              \/ requester[q].state = "REQUESTING" /\ requester[q].id = n
<1>1. From(q)[n] \in Nat /\ words(Insn(n)) \in Nat
  BY UserFacts
<1>2. requester[q].addr \in Int /\ requester[q].len \in Nat
  BY DEF Typed, RequesterStates
<1>3. requester[q].state = "REQUESTING" /\ requester[q].id = n =>
         /\ n # opreq[q] /\ n <= issued /\ From(q)[n] <= requester[q].addr
         /\ requester[q].len >= 1
         /\ requester[q].addr + requester[q].len = From(q)[n] + words(Insn(n))
  BY DEF Requested
<1>4. n \in Nat /\ issued \in Nat
  BY UserFacts, ProgramFacts
<1> QED BY <1>1, <1>2, <1>3, <1>4 DEF Read

\* Instructions are read one after the other.
LEMMA ReadInTurn ==
    ASSUME Typed, Asked, Requested, NEW q \in Queues,
           NEW m \in Users(q), NEW n \in Users(q), m < n, Read(q)[n] # 0
    PROVE  Read(q)[m] = words(Insn(m))
<1>1. n <= issued /\ n # opreq[q] /\ m \in Nat /\ n \in Nat /\ issued \in Nat /\ m >= 1
  BY ReadRange, UserFacts, ProgramFacts
<1>2. opreq[q] # m
  BY <1>1 DEF Asked
<1>3. ~(requester[q].state = "REQUESTING" /\ requester[q].id = m)
  BY <1>1 DEF Requested
<1>4. m <= issued
  BY <1>1
<1> QED BY <1>1, <1>2, <1>3, <1>4, ReadRange

LEMMA OperandCounts ==
    ASSUME Typed, Counted, Halved, Requested, NEW q \in Queues
    PROVE  Words(Operands) /\ Counts(Users(q), From(q), Used, Read(q))
BY UserFacts, ReadRange, Busy DEF Words, Operands, Counts

\* An operand a unit finds is its own.
LEMMA Own ==
    ASSUME GInv, UInv, NEW f \in FUs, unit[f] # <<>>,
           NEW q \in Sources(Insn(Head(unit[f]))), q \in Queues, ibuf[q] # <<>>
    PROVE  Head(ibuf[q]).id = Head(unit[f])
<1>0. Typed /\ InUnits /\ Counted /\ Asked /\ Halved /\ Requested
  BY DEF GInv, UInv
<1>1. PICK n : n = Head(unit[f]) /\ n = unit[f][1] /\ 1 \in 1..Len(unit[f])
  BY <1>0 DEF Typed
<1>2. n \in 1..issued /\ Insn(n).fu = f /\ Used[n] < words(Insn(n))
  <2>1. n \in 1..issued /\ Insn(n).fu = f /\ made[n] < Insn(n).out
    BY <1>0, <1>1 DEF InUnits
  <2> QED BY <1>0, <2>1, Busy, ProgramFacts
<1>3. n \in Users(q) /\ n \in Prog
  BY <1>0, <1>1, <1>2, ProgramFacts DEF Users
<1>4. /\ Words(Operands) /\ Counts(Users(q), From(q), Used, Read(q))
      /\ ibuf[q] \in Seq(Operands)
      /\ Flow(ibuf[q], Users(q), From(q), Used, Read(q))
  BY <1>0, OperandCounts DEF UInv, Loaded, Typed
<1>5. PICK m : m = Head(ibuf[q]).id
  OBVIOUS
<1>6. /\ m = ibuf[q][1].id /\ m \in Users(q) /\ 1 \in 1..Len(ibuf[q])
      /\ Used[m] + 1 <= Read(q)[m]
  BY <1>4, <1>5, FlowHead
<1>7. /\ m \in Prog /\ m \in Nat /\ n \in Nat /\ m >= 1 /\ issued \in Nat
      /\ Used[m] \in Nat /\ Used[n] \in Nat
      /\ words(Insn(m)) \in Nat /\ words(Insn(n)) \in Nat
      /\ Read(q)[m] \in Nat /\ Read(q)[m] <= words(Insn(m))
  BY <1>0, <1>3, <1>6, UserFacts, ReadRange, ProgramFacts, Busy
<1>8. made[m] < Insn(m).out /\ Read(q)[m] # 0
  <2>1. PICK u \in Nat, r \in Nat, w \in Nat :
           u = Used[m] /\ r = Read(q)[m] /\ w = words(Insn(m))
    BY <1>7
  <2>2. u + 1 <= r /\ r <= w
    BY <1>6, <1>7, <2>1
  <2>3. u < w /\ r # 0
    BY <2>2
  <2>4. made[m] < Insn(m).out <=> Used[m] < words(Insn(m))
    BY <1>0, <1>7, Busy
  <2> QED BY <2>1, <2>3, <2>4
<1>9. m <= issued
  BY <1>0, <1>6, <1>7, <1>8, ReadRange
<1>10. Insn(m).fu = f
  <2>1. /\ Insn(m).fu \in FUs /\ q \in QueuesOf(Insn(m).fu)
        /\ q \in QueuesOf(Insn(n).fu)
    BY <1>0, <1>3, <1>6, UserFacts
  <2> QED BY <1>2, <2>1, OneUnit
<1>11. ASSUME m < n PROVE FALSE
  <2>1. PICK k \in 1..Len(unit[f]) : unit[f][k] = m
    BY <1>0, <1>7, <1>8, <1>9, <1>10 DEF InUnits
  <2>2. k = 1 \/ unit[f][1] < unit[f][k]
    BY <1>0, <1>1 DEF InUnits
  <2> QED BY <1>1, <1>7, <1>11, <2>1, <2>2
<1>12. ASSUME n < m PROVE FALSE
  <2>1. Read(q)[n] = words(Insn(n))
    BY <1>0, <1>3, <1>6, <1>8, <1>12, ReadInTurn
  <2>2. Used[n] \in Used[n]..(Read(q)[n] - 1)
    BY <1>2, <1>7, <2>1
  <2>3. PICK k \in 1..Len(ibuf[q]) : ibuf[q][k].id = n
    BY <1>3, <1>4, <2>2 DEF Flow
  <2>4. k = 1 \/ ibuf[q][1].id < ibuf[q][k].id \/ ibuf[q][1].id = ibuf[q][k].id
    BY <1>4, <1>6 DEF Flow
  <2> QED BY <1>6, <1>7, <1>12, <2>3, <2>4
<1> QED BY <1>1, <1>5, <1>7, <1>11, <1>12

-----------------------------------------------------------------------------
(* What a cycle does to a requester *)

Stays(q, G) ==
    LET r == requester[q]
        d == IF q \in G THEN 1 ELSE 0
    IN  /\ r.state = "REQUESTING" /\ (q \in G => r.len > 1)
        /\ requester'[q].state = "REQUESTING" /\ requester'[q].id = r.id
        /\ requester'[q].addr = r.addr + d /\ requester'[q].len = r.len - d
        /\ requester'[q].hazard = r.hazard \cap table[r.id]

\* A requester that is free, or will be.
Through(q, G) ==
    requester[q].state = "IDLE" \/ (q \in G /\ requester[q].len = 1)

Starts(q, G) ==
    LET n == opreq[q]
    IN  /\ n # 0 /\ Through(q, G)
        /\ requester'[q].state = "REQUESTING" /\ requester'[q].id = n
        /\ requester'[q].addr = From(q)[n] /\ requester'[q].len = words(Insn(n))
        /\ requester'[q].hazard = Hazard(n, q) \cap table[n]

Ends(q, G) ==
    opreq[q] = 0 /\ Through(q, G) /\ requester'[q].state = "IDLE"

LEMMA RequesterStep ==
    ASSUME GInv, NoneEmpty(prog), Requested,
           NEW G, NEW work, NEW fin, CycleOf(G, work, fin), NEW q \in Queues
    PROVE  \/ Stays(q, G) /\ ~Accepts(q, G)
           \/ Starts(q, G) /\ Accepts(q, G)
           \/ Ends(q, G) /\ ~Accepts(q, G)
<1>0. Typed
  BY DEF GInv
<1>1. PICK r : r = requester[q]
  OBVIOUS
<1>2. /\ r.state \in {"IDLE", "REQUESTING"} /\ r.len \in Nat /\ r.addr \in Int
      /\ r \in RequesterStates
  BY <1>0, <1>1 DEF Typed, RequesterStates
<1>3. q \in G => r.state = "REQUESTING"
  BY <1>1, Reads
<1>4. r.state = "REQUESTING" => r.len >= 1
  BY <1>1 DEF Requested
<1>5. requester'[q] = Requester(q, G)
  BY DEF CycleOf, Cycle, Lane
<1>6. CASE Through(q, G) /\ opreq[q] # 0
  <2>1. PICK n : n = opreq[q]
    OBVIOUS
  <2>2. n \in Users(q) /\ n \in Prog
    BY <1>6, <2>1 DEF GInv, Asked, Users
  <2>3. PICK s : s = Fresh(q, n)
    OBVIOUS
  <2>4. words(Insn(n)) # 0
    BY <1>0, <2>2, UserFacts
  <2>5. /\ s.state = "REQUESTING" /\ s.id = n /\ s.addr = From(q)[n]
        /\ s.len = words(Insn(n)) /\ s.hazard = Hazard(n, q) \cap table[n]
    <3>1. /\ s.state = "REQUESTING" /\ s.id = n
          /\ s.addr = vaddr(Insn(n).src[q])
          /\ s.len = (IF words(Insn(n)) = 0 THEN 1 ELSE words(Insn(n)))
          /\ s.hazard = Hazard(n, q) \cap table[n]
      <4>1. PICK a, w, h : /\ a = vaddr(Insn(n).src[q])
                           /\ w = (IF words(Insn(n)) = 0 THEN 1 ELSE words(Insn(n)))
                           /\ h = Hazard(n, q) \cap table[n]
        OBVIOUS
      <4>2. s = [Idle EXCEPT !.state = "REQUESTING", !.id = n, !.addr = a,
                             !.len = w, !.hazard = h]
        BY <2>3, <4>1 DEF Fresh
      <4>3. s.state = "REQUESTING" /\ s.id = n /\ s.addr = a /\ s.len = w /\ s.hazard = h
        BY <4>2 DEF Idle
      <4> QED BY <4>1, <4>3
    <3>2. From(q)[n] = vaddr(Insn(n).src[q])
      BY <1>0, <2>2, UserFacts
    <3> QED BY <2>4, <3>1, <3>2
  <2>6. requester'[q] = s \/ requester'[q] = [s EXCEPT !.is_widening = IsWidening(q, n)]
    BY <1>1, <1>2, <1>3, <1>5, <1>6, <2>1, <2>3, <2>4
       DEF Requester, Through, FromIdle, BackToBack
  <2>7. s \in RequesterStates
    <3>1. n <= issued
      BY <1>0, <2>1, ProgramFacts DEF Typed
    <3> QED BY <1>0, <2>2, <2>3, <3>1, FreshType
  <2>8. /\ requester'[q].state = s.state /\ requester'[q].id = s.id
        /\ requester'[q].addr = s.addr /\ requester'[q].len = s.len
        /\ requester'[q].hazard = s.hazard
    BY <2>6, <2>7 DEF RequesterStates
  <2> QED BY <1>6, <2>1, <2>5, <2>8 DEF Starts, Accepts, Through, LastRead
<1>7. CASE Through(q, G) /\ opreq[q] = 0
  <2>1. requester'[q] = Idle
    BY <1>1, <1>2, <1>3, <1>5, <1>7 DEF Requester, Through
  <2> QED BY <1>7, <2>1 DEF Ends, Accepts, Idle
<1>8. CASE ~Through(q, G)
  <2>1. r.state = "REQUESTING" /\ (q \in G => r.len > 1)
    BY <1>1, <1>2, <1>4, <1>8 DEF Through
  <2>2. PICK u, h : u = Toggled(r.waw, WritersOf(G)) /\ h = r.hazard \cap table[r.id]
    OBVIOUS
  <2>3. requester'[q] = IF q \notin G THEN [r EXCEPT !.waw = u, !.hazard = h]
                        ELSE [[r EXCEPT !.waw = u, !.hazard = h]
                                 EXCEPT !.addr = r.addr + 1, !.len = r.len - 1]
    BY <1>1, <1>5, <2>1, <2>2 DEF Requester
  <2>4. PICK d : d = IF q \in G THEN 1 ELSE 0
    OBVIOUS
  <2>5. /\ requester'[q].state = r.state /\ requester'[q].id = r.id
        /\ requester'[q].addr = r.addr + d /\ requester'[q].len = r.len - d
        /\ requester'[q].hazard = h
    BY <1>2, <2>3, <2>4 DEF RequesterStates
  <2>6. ~Accepts(q, G)
    BY <1>1, <1>8 DEF Accepts, Through, LastRead
  <2> QED BY <1>1, <2>1, <2>2, <2>4, <2>5, <2>6 DEF Stays
<1> QED BY <1>6, <1>7, <1>8

LEMMA RequestStep ==
    ASSUME GInv, NEW G, NEW work, NEW fin, CycleOf(G, work, fin), NEW q \in Queues
    PROVE  \/ /\ opreq'[q] = IF Accepts(q, G) THEN 0 ELSE opreq[q]
              /\ \/ issued' = issued
                 \/ issued' = issued + 1 /\ issued' \notin Users(q)
           \/ /\ opreq[q] = 0 /\ issued' = issued + 1 /\ issued' \in Users(q)
              /\ opreq'[q] = issued'
<1>0. Typed /\ issued \in Nat
  BY ProgramFacts DEF GInv
<1>1. CASE Idles(fin)
  BY <1>0, <1>1, IssueStep DEF Idles, Issues
<1>2. CASE Issues(issued + 1, fin)
  <2>1. PICK n : n = issued + 1
    OBVIOUS
  <2>2. /\ issued' = n /\ n \in Prog /\ n # issued
        /\ \A p \in QueuesOf(Insn(n).fu) : opreq[p] = 0
    BY <1>0, <1>2, <2>1 DEF Issues, MayIssue
  <2>3. opreq'[q] = IF q \in Sources(Insn(n)) THEN n
                    ELSE IF Accepts(q, G) THEN 0 ELSE opreq[q]
    BY <2>1, <2>2, IssueStep DEF Idles
  <2>4. CASE q \in Sources(Insn(n))
    <3>1. n \in Users(q)
      BY <2>2, <2>4 DEF Users
    <3>2. q \in QueuesOf(Insn(n).fu)
      BY <1>0, <3>1, UserFacts
    <3> QED BY <2>1, <2>2, <2>3, <2>4, <3>1, <3>2
  <2>5. CASE q \notin Sources(Insn(n))
    <3>1. n \notin Users(q)
      BY <2>5 DEF Users
    <3> QED BY <2>1, <2>2, <2>3, <2>5, <3>1
  <2> QED BY <2>4, <2>5
<1> QED BY <1>1, <1>2, IssueStep

LEMMA SameFrom ==
    ASSUME prog' = prog
    PROVE  /\ \A q : From(q)' = From(q)
           /\ \A n : words(Insn(n))' = words(Insn(n))
<1>1. \A q : From(q)' = From(q)
  BY SameProgram DEF From, vaddr
<1>2. \A n : words(Insn(n))' = words(Insn(n))
  BY SameProgram DEF words
<1> QED BY <1>1, <1>2

LEMMA RequestedKept ==
    ASSUME GInv, NoneEmpty(prog), Requested,
           NEW G, NEW work, NEW fin, CycleOf(G, work, fin)
    PROVE  Requested'
<1>0. Typed /\ Asked /\ prog' = prog /\ issued \in Nat
  BY IssueStep, ProgramFacts DEF GInv
<1>1. ASSUME NEW q \in Queues, requester'[q].state = "REQUESTING"
      PROVE  LET r == requester'[q]
             IN  /\ r.id \in Users(q) /\ r.id # opreq'[q] /\ r.id <= issued'
                 /\ From(q)[r.id] <= r.addr /\ r.len >= 1
                 /\ r.addr + r.len = From(q)[r.id] + words(Insn(r.id))
                 /\ \A n \in Users(q) : r.id < n /\ n <= issued' => n = opreq'[q]
  <2>1. PICK n : n = requester'[q].id
    OBVIOUS
  <2>2. issued' \in Nat /\ issued <= issued'
    BY <1>0, IssueStep DEF Idles, Issues
  <2>3. CASE Stays(q, G) /\ ~Accepts(q, G)
    <3>1. PICK d \in {0, 1} : /\ n = requester[q].id
                              /\ requester'[q].addr = requester[q].addr + d
                              /\ requester'[q].len = requester[q].len - d
                              /\ d = 1 => requester[q].len > 1
                              /\ requester[q].state = "REQUESTING"
      BY <2>1, <2>3 DEF Stays
    <3>2. /\ n \in Users(q) /\ n # opreq[q] /\ n <= issued
          /\ From(q)[n] <= requester[q].addr /\ requester[q].len >= 1
          /\ requester[q].addr + requester[q].len = From(q)[n] + words(Insn(n))
          /\ \A m \in Users(q) : n < m /\ m <= issued => m = opreq[q]
      BY <3>1 DEF Requested
    <3>3. /\ From(q)[n] \in Nat /\ words(Insn(n)) \in Nat /\ n \in Nat /\ n >= 1
          /\ requester[q].addr \in Int /\ requester[q].len \in Nat
      BY <1>0, <3>2, UserFacts DEF Typed, RequesterStates
    <3>4. /\ From(q)[n] <= requester'[q].addr /\ requester'[q].len >= 1
          /\ requester'[q].addr + requester'[q].len = From(q)[n] + words(Insn(n))
      BY <3>1, <3>2, <3>3
    <3>5. n # opreq'[q]
      BY <1>0, <2>3, <3>2, <3>3, RequestStep
    <3>6. ASSUME NEW m \in Users(q), n < m, m <= issued' PROVE m = opreq'[q]
      <4>1. m \in Nat /\ m >= 1
        BY <1>0, UserFacts
      <4>2. m <= issued \/ m = issued'
        BY <1>0, <3>6, <4>1, RequestStep
      <4> QED BY <1>0, <2>3, <3>2, <3>6, <4>1, <4>2, RequestStep
    <3> QED BY <2>1, <2>2, <3>2, <3>3, <3>4, <3>5, <3>6, <1>0
  <2>4. CASE Starts(q, G) /\ Accepts(q, G)
    <3>1. /\ n = opreq[q] /\ n # 0
          /\ requester'[q].addr = From(q)[n] /\ requester'[q].len = words(Insn(n))
      BY <2>1, <2>4 DEF Starts
    <3>2. n \in Users(q) /\ n <= issued /\ \A m \in Users(q) : m <= issued => m <= n
      BY <1>0, <3>1 DEF Asked, Typed
    <3>3. /\ From(q)[n] \in Nat /\ words(Insn(n)) \in Nat /\ n \in Nat /\ n >= 1
          /\ words(Insn(n)) >= 1
      BY <1>0, <3>2, UserFacts
    <3>4. /\ opreq'[q] = 0
          /\ issued' = issued \/ (issued' = issued + 1 /\ issued' \notin Users(q))
      BY <2>4, <3>1, RequestStep
    <3>5. ASSUME NEW m \in Users(q), n < m, m <= issued' PROVE FALSE
      <4>1. m \in Nat
        BY <1>0, UserFacts
      <4> QED BY <1>0, <3>2, <3>3, <3>4, <3>5, <4>1
    <3> QED BY <1>0, <2>1, <2>2, <3>1, <3>2, <3>3, <3>4, <3>5
  <2> QED BY <1>1, <2>3, <2>4, RequesterStep DEF Ends
<1> QED BY <1>0, <1>1, SameProgram, SameFrom DEF Requested

\* Instruction n is read in this cycle.
ReadsOf(n, q, G) == q \in G /\ requester[q].id = n

LEMMA ReadStep ==
    ASSUME GInv, NoneEmpty(prog), Requested,
           NEW G, NEW work, NEW fin, CycleOf(G, work, fin),
           NEW q \in Queues, NEW n \in Users(q)
    PROVE  /\ Read(q)'[n] = IF ReadsOf(n, q, G) THEN Read(q)[n] + 1 ELSE Read(q)[n]
           /\ ReadsOf(n, q, G) => /\ n <= issued /\ Read(q)[n] < words(Insn(n))
                                  /\ requester[q].state = "REQUESTING"
                                  /\ requester[q].addr = From(q)[n] + Read(q)[n]
<1>0. Typed /\ Asked /\ prog' = prog /\ issued \in Nat
  BY IssueStep, ProgramFacts DEF GInv
<1>1. Read(q)'[n] = IF n > issued' \/ opreq'[q] = n THEN 0
                    ELSE IF requester'[q].state = "REQUESTING" /\ requester'[q].id = n
                         THEN requester'[q].addr - From(q)[n]
                    ELSE words(Insn(n))
  BY <1>0, SameProgram, SameFrom DEF Read
<1>2. PICK b \in Nat, w \in Nat, k \in Nat :
         b = From(q)[n] /\ w = words(Insn(n)) /\ k = Read(q)[n] /\ k <= w
  BY <1>0, UserFacts, ReadRange
<1>3. n \in Nat /\ n >= 1 /\ issued' \in Nat /\ issued <= issued'
  BY <1>0, UserFacts, IssueStep DEF Idles, Issues
<1>4. q \in G => requester[q].state = "REQUESTING"
  BY Reads
<1>5. requester[q].state = "REQUESTING" /\ requester[q].id = n =>
         /\ requester[q].addr = b + k /\ k + requester[q].len = w
         /\ requester[q].len \in Nat /\ requester[q].len >= 1
         /\ n <= issued /\ n # opreq[q]
  BY <1>0, <1>2, ReadRange DEF Requested
<1>6. ReadsOf(n, q, G) => /\ n <= issued /\ Read(q)[n] < words(Insn(n))
                          /\ requester[q].state = "REQUESTING"
                          /\ requester[q].addr = From(q)[n] + Read(q)[n]
  BY <1>2, <1>4, <1>5 DEF ReadsOf
<1>7. CASE n > issued
  <2>1. Read(q)'[n] = 0
    BY <1>0, <1>1, <1>3, <1>7, RequestStep
  <2>2. k = 0
    BY <1>0, <1>2, <1>7, ReadRange
  <2> QED BY <1>0, <1>2, <1>3, <1>6, <1>7, <2>1, <2>2
<1>8. CASE n <= issued /\ opreq[q] = n
  <2>1. k = 0 /\ ~ReadsOf(n, q, G)
    BY <1>0, <1>2, <1>4, <1>5, <1>8, ReadRange DEF ReadsOf
  <2>2. CASE Accepts(q, G)
    <3>1. Starts(q, G)
      BY <2>2, RequesterStep
    <3>2. /\ requester'[q].state = "REQUESTING" /\ requester'[q].id = n
          /\ requester'[q].addr = b
      BY <1>2, <1>8, <3>1 DEF Starts
    <3>3. opreq'[q] = 0
      BY <1>3, <1>8, <2>2, RequestStep
    <3> QED BY <1>1, <1>2, <1>3, <1>6, <1>8, <2>1, <3>2, <3>3
  <2>3. CASE ~Accepts(q, G)
    <3>1. opreq'[q] = n
      BY <1>3, <1>8, <2>3, RequestStep
    <3> QED BY <1>1, <1>2, <1>6, <2>1, <3>1
  <2> QED BY <2>2, <2>3
<1>9. CASE n <= issued /\ opreq[q] # n
  <2>1. n <= issued' /\ opreq'[q] # n
    BY <1>0, <1>3, <1>9, RequestStep
  <2>2. CASE requester[q].state = "REQUESTING" /\ requester[q].id = n
    <3>1. CASE Stays(q, G)
      <4>1. /\ requester'[q].state = "REQUESTING" /\ requester'[q].id = n
            /\ requester'[q].addr = requester[q].addr + (IF q \in G THEN 1 ELSE 0)
        BY <2>2, <3>1 DEF Stays
      <4>2. Read(q)'[n] = requester'[q].addr - b
        BY <1>1, <1>2, <1>3, <2>1, <4>1
      <4>3. Read(q)'[n] = IF q \in G THEN k + 1 ELSE k
        BY <1>5, <2>2, <4>1, <4>2
      <4> QED BY <1>2, <1>6, <2>2, <4>3 DEF ReadsOf
    <3>2. CASE Starts(q, G) \/ Ends(q, G)
      <4>1. q \in G /\ requester[q].len = 1 /\ k + 1 = w
        BY <1>5, <2>2, <3>2 DEF Starts, Ends, Through
      <4>2. ~(requester'[q].state = "REQUESTING" /\ requester'[q].id = n)
        BY <1>9, <3>2 DEF Starts, Ends
      <4>3. Read(q)'[n] = w
        BY <1>1, <1>2, <1>3, <2>1, <4>2
      <4> QED BY <1>2, <1>6, <2>2, <4>1, <4>3 DEF ReadsOf
    <3> QED BY <3>1, <3>2, RequesterStep
  <2>3. CASE ~(requester[q].state = "REQUESTING" /\ requester[q].id = n)
    <3>1. k = w /\ ~ReadsOf(n, q, G)
      BY <1>0, <1>2, <1>3, <1>4, <1>9, <2>3, ReadRange DEF ReadsOf
    <3>2. ~(requester'[q].state = "REQUESTING" /\ requester'[q].id = n)
      BY <1>9, <2>3, RequesterStep DEF Stays, Starts, Ends
    <3>3. Read(q)'[n] = w
      BY <1>1, <1>2, <1>3, <2>1, <3>2
    <3> QED BY <1>2, <1>6, <3>1, <3>3
  <2> QED BY <2>2, <2>3
<1> QED BY <1>0, <1>3, <1>7, <1>8, <1>9

LEMMA UInvGives ==
    ASSUME GInv, UInv, NoneEmpty(prog)
    PROVE  Typed /\ InUnits /\ Counted /\ Asked /\ Halved /\ Requested /\ Loaded
BY DEF GInv, UInv

\* A unit uses the operand that comes first.
LEMMA OperandUsed ==
    ASSUME GInv, UInv, NoneEmpty(prog),
           NEW G, NEW work, NEW fin, CycleOf(G, work, fin), NEW q \in Queues
    PROVE  /\ Popped(q, work) => ibuf[q] # <<>>
           /\ \A m \in Users(q) :
                Used'[m] = IF Popped(q, work) /\ m = Head(ibuf[q]).id
                           THEN Used[m] + 1 ELSE Used[m]
<1>0. Typed /\ Halved
  BY UInvGives
<1>1. CASE Popped(q, work)
  <2>1. PICK f \in work : /\ q \in Sources(Insn(Head(unit[f])))
                          /\ Consumes(Head(unit[f]))
    BY <1>1 DEF Popped
  <2>2. PICK n : n = Head(unit[f])
    OBVIOUS
  <2>3. /\ f \in FUs /\ unit[f] # <<>> /\ n \in Prog /\ Insn(n).fu = f
        /\ ibuf[q] # <<>>
    BY <2>1, <2>2, Working
  <2>4. Head(ibuf[q]).id = n
    BY <2>1, <2>2, <2>3, Own
  <2>5. n \in Users(q)
    BY <2>1, <2>2, <2>3 DEF Users
  <2>6. ASSUME NEW m \in Users(q)
        PROVE  Used'[m] = IF m = n THEN Used[m] + 1 ELSE Used[m]
    <3>1. m \in Prog
      BY <1>0, UserFacts
    <3>2. /\ Insn(m).fu \in FUs /\ q \in QueuesOf(Insn(m).fu)
          /\ q \in QueuesOf(Insn(n).fu)
      BY <1>0, <2>5, UserFacts
    <3>3. Insn(m).fu = f
      BY <2>3, <3>2, OneUnit
    <3>4. Uses(m, work) <=> m = n
      BY <2>1, <2>2, <3>3 DEF Uses, Steps
    <3> QED BY <1>0, <3>1, <3>4, UsedStep
  <2> QED BY <1>1, <2>3, <2>4, <2>6
<1>2. CASE ~Popped(q, work)
  <2>1. ASSUME NEW m \in Users(q) PROVE Used'[m] = Used[m]
    <3>1. m \in Prog /\ q \in Sources(Insn(m))
      BY <1>0, UserFacts
    <3>2. ~Uses(m, work)
      BY <1>2, <3>1 DEF Uses, Steps, Popped
    <3> QED BY <1>0, <3>1, <3>2, UsedStep
  <2> QED BY <1>2, <2>1
<1> QED BY <1>1, <1>2

LEMMA LoadedKept ==
    ASSUME GInv, UInv, NoneEmpty(prog),
           NEW G, NEW work, NEW fin, CycleOf(G, work, fin)
    PROVE  Loaded'
<1>0. Typed /\ Counted /\ Asked /\ Halved /\ Requested /\ Loaded /\ prog' = prog
  BY UInvGives, IssueStep
<1>1. ASSUME NEW q \in Queues
      PROVE  Flow(ibuf'[q], Users(q), From(q), Used', Read(q)')
  <2>0. PICK pop \in BOOLEAN : pop = Popped(q, work)
    BY DEF Popped
  <2>1. PICK push \in BOOLEAN : push <=> q \in G
    OBVIOUS
  <2>2. PICK e : e = [id |-> requester[q].id, addr |-> requester[q].addr,
                      writer |-> IF requester[q].addr \in Addrs
                                 THEN vrf[requester[q].addr] ELSE 0]
    OBVIOUS
  <2>3. ibuf'[q] = Push(Pop(ibuf[q], pop), push, e)
    <3>1. ibuf'[q] = Push(Pop(ibuf[q], Popped(q, work)), q \in G, e)
      BY <2>2 DEF CycleOf, Cycle, Lane, Buffers
    <3>2. Pop(ibuf[q], Popped(q, work)) = Pop(ibuf[q], pop)
      BY <2>0 DEF Pop
    <3> QED BY <2>1, <3>1, <3>2 DEF Push
  <2>4. /\ ibuf[q] \in Seq(Operands)
        /\ Words(Operands) /\ Counts(Users(q), From(q), Used, Read(q))
        /\ Flow(ibuf[q], Users(q), From(q), Used, Read(q))
    BY <1>0, OperandCounts DEF Typed, Loaded
  <2>5. Leaves(ibuf[q], pop, Users(q), Used, Used')
    <3>1. /\ pop => ibuf[q] # <<>>
          /\ \A m \in Users(q) :
                Used'[m] = IF pop /\ m = Head(ibuf[q]).id
                           THEN Used[m] + 1 ELSE Used[m]
      BY <2>0, OperandUsed
    <3> QED BY <3>1 DEF Leaves, OneMore
  <2>6. Joins(ibuf[q], push, e, Operands, Users(q), From(q), Read(q), Read(q)')
    <3>0. e.id = requester[q].id /\ e.addr = requester[q].addr
      BY <2>2
    <3>1. CASE push
      <4>1. e \in Operands
        <5>1. requester[q].id \in Nat /\ requester[q].addr \in Int
          BY <1>0, ProgramFacts DEF Typed, RequesterStates
        <5>2. \A a \in Addrs : vrf[a] \in Nat
          BY <1>0, ProgramFacts DEF Typed
        <5> QED BY <2>2, <5>1, <5>2 DEF Operands
      <4>2. q \in G /\ requester[q].state = "REQUESTING"
        BY <2>1, <3>1, Reads
      <4>3. e.id \in Users(q)
        BY <1>0, <3>0, <4>2 DEF Requested
      <4>4. /\ e.addr = From(q)[e.id] + Read(q)[e.id]
            /\ Read(q)[e.id] < words(Insn(e.id))
        BY <1>0, <3>0, <4>2, <4>3, ReadStep DEF ReadsOf
      <4>5. ASSUME NEW k \in 1..Len(ibuf[q]) PROVE ibuf[q][k].id <= e.id
        <5>1. PICK m, a : m = ibuf[q][k].id /\ a = ibuf[q][k].addr
          OBVIOUS
        <5>2. ibuf[q][k] \in Operands
          BY <2>4
        <5>3. /\ m \in Users(q) /\ From(q)[m] + Used[m] <= a
              /\ a < From(q)[m] + Read(q)[m] /\ a \in Int
          BY <2>4, <5>1, <5>2 DEF Flow, Operands
        <5>4. From(q)[m] \in Int /\ Used[m] \in Nat /\ Read(q)[m] \in Nat /\ m \in Nat
          BY <2>4, <5>3 DEF Counts
        <5>5. Read(q)[m] # 0
          BY <5>3, <5>4
        <5>6. e.id \in Nat /\ Read(q)[e.id] \in Nat /\ words(Insn(e.id)) \in Nat
          BY <1>0, <4>3, UserFacts, ReadRange
        <5>7. ~(e.id < m)
          <6>1. ASSUME e.id < m PROVE Read(q)[e.id] = words(Insn(e.id))
            BY <1>0, <4>3, <5>3, <5>5, <6>1, ReadInTurn
          <6> QED BY <4>4, <5>6, <6>1
        <5> QED BY <5>1, <5>4, <5>6, <5>7
      <4>6. OneMore(e.id, Users(q), Read(q), Read(q)')
        <5>1. ASSUME NEW m \in Users(q)
              PROVE  Read(q)'[m] = IF m = e.id THEN Read(q)[m] + 1 ELSE Read(q)[m]
          BY <1>0, <3>0, <4>2, ReadStep DEF ReadsOf
        <5> QED BY <5>1 DEF OneMore
      <4> QED BY <3>1, <4>1, <4>3, <4>4, <4>5, <4>6 DEF Joins, Enters
    <3>2. CASE ~push
      <4>1. ASSUME NEW m \in Users(q) PROVE Read(q)'[m] = Read(q)[m]
        <5>1. ~ReadsOf(m, q, G)
          BY <2>1, <3>2 DEF ReadsOf
        <5> QED BY <1>0, <5>1, ReadStep
      <4> QED BY <3>2, <4>1 DEF Joins
    <3> QED BY <3>1, <3>2
  <2>7. Flow(Push(Pop(ibuf[q], pop), push, e), Users(q), From(q), Used', Read(q)')
    BY <2>4, <2>5, <2>6, FlowStep
  <2> QED BY <2>3, <2>7
<1> QED BY <1>0, <1>1, SameProgram, SameFrom DEF Loaded

LEMMA RunningBefore ==
    ASSUME GInv, NEW G, NEW work, NEW fin, CycleOf(G, work, fin),
           NEW n \in Prog, n <= issued', NEW h \in Prog, h < n, h \in running'
    PROVE  /\ h \in running /\ h \notin fin
           /\ n <= issued => table'[n] = table[n] \ fin
           /\ n > issued => /\ table'[n] = (Row(n) \cap running) \ fin
                            /\ Sources(Insn(n)) = {} => Row(n) \cap running = {}
<1>1. issued \in Nat /\ n \in Nat /\ h \in Nat
  BY ProgramFacts DEF GInv
<1>2. CASE Idles(fin)
  BY <1>1, <1>2 DEF Idles
<1>3. CASE Issues(issued + 1, fin)
  <2>1. PICK k : k = issued + 1
    OBVIOUS
  <2>2. /\ issued' = k /\ running' = (running \ fin) \cup {k}
        /\ table'[n] = (IF n = k THEN Row(k) \cap running ELSE table[n]) \ fin
        /\ Sources(Insn(k)) = {} => Row(k) \cap running = {}
    BY <1>3, <2>1 DEF Issues, MayIssue
  <2>3. h # k /\ (n <= issued => n # k) /\ (n > issued => n = k)
    BY <1>1, <2>1, <2>2
  <2> QED BY <2>2, <2>3
<1> QED BY <1>2, <1>3, IssueStep

LEMMA FollowsKept ==
    ASSUME GInv, UInv, NoneEmpty(prog),
           NEW G, NEW work, NEW fin, CycleOf(G, work, fin)
    PROVE  Follows'
<1>0. Typed /\ Asked /\ Requested /\ prog' = prog /\ issued \in Nat
  BY UInvGives, IssueStep, ProgramFacts
<1>1. ASSUME NEW q \in Queues, NEW n \in Users(q), n <= issued',
             NEW h \in Hazard(n, q), h \in running'
      PROVE  /\ h \in table'[n] /\ Read(q)'[n] <= wrote'[h]
             /\ requester'[q].state = "REQUESTING" /\ requester'[q].id = n =>
                   /\ h \in requester'[q].hazard
                   /\ h \in written' => Read(q)'[n] + 1 <= wrote'[h]
  <2>1. /\ n \in Prog /\ n \in Nat /\ q \in Sources(Insn(n))
        /\ h \in Prog /\ h < n /\ h \in Row(n)
    BY <1>0, UserFacts, HazardBefore
  <2>2. /\ h \in running /\ h \notin fin
        /\ n <= issued => table'[n] = table[n] \ fin
        /\ n > issued => table'[n] = (Row(n) \cap running) \ fin
    BY <1>1, <2>1, RunningBefore
  <2>3. /\ Read(q)[n] \in Nat /\ wrote[h] \in Nat /\ wrote'[h] \in Nat
        /\ wrote'[h] = IF h \in WritersOf(G) THEN wrote[h] + 1 ELSE wrote[h]
        /\ Read(q)'[n] = IF ReadsOf(n, q, G) THEN Read(q)[n] + 1 ELSE Read(q)[n]
        /\ ReadsOf(n, q, G) => n <= issued
    BY <1>0, <2>1, ReadRange, ReadStep, WroteStep
  <2>4. written' = WritersOf(G)
    BY DEF CycleOf, Cycle, Lane, WriteBack
  <2>5. CASE n > issued
    <3>1. Read(q)'[n] = 0
      BY <1>0, <2>1, <2>3, <2>5, ReadRange
    <3>2. ~(requester'[q].state = "REQUESTING" /\ requester'[q].id = n)
      <4>1. opreq[q] <= issued
        BY <1>0 DEF Typed
      <4>2. ~(requester[q].state = "REQUESTING" /\ requester[q].id = n)
        BY <1>0, <2>1, <2>5 DEF Requested
      <4>3. opreq[q] # n
        BY <1>0, <2>1, <2>5, <4>1
      <4> QED BY <1>0, <4>2, <4>3, RequesterStep DEF Stays, Starts, Ends
    <3> QED BY <2>1, <2>2, <2>3, <2>5, <3>1, <3>2
  <2>6. CASE n <= issued
    <3>1. /\ h \in table[n] /\ Read(q)[n] <= wrote[h]
          /\ requester[q].state = "REQUESTING" /\ requester[q].id = n =>
                /\ h \in requester[q].hazard
                /\ h \in written => Read(q)[n] + 1 <= wrote[h]
      BY <2>2, <2>6 DEF UInv, Follows, PacedBy
    <3>2. ReadsOf(n, q, G) => Read(q)[n] + 1 <= wrote[h]
      <4>1. ASSUME ReadsOf(n, q, G) PROVE Read(q)[n] + 1 <= wrote[h]
        <5>1. /\ requester[q].state = "REQUESTING" /\ requester[q].id = n
              /\ ~stall(q)
          BY <4>1, Reads DEF ReadsOf
        <5>2. h \in written
          BY <3>1, <5>1 DEF stall
        <5> QED BY <3>1, <5>1, <5>2
      <4> QED BY <4>1
    <3>3. Read(q)'[n] <= wrote[h]
      BY <2>3, <3>1, <3>2
    <3>4. /\ Read(q)'[n] <= wrote'[h]
          /\ h \in written' => Read(q)'[n] + 1 <= wrote'[h]
      BY <2>3, <2>4, <3>3
    <3>5. requester'[q].state = "REQUESTING" /\ requester'[q].id = n =>
             h \in requester'[q].hazard
      BY <1>0, <3>1, RequesterStep DEF Stays, Starts, Ends
    <3> QED BY <2>2, <2>6, <3>1, <3>4, <3>5
  <2> QED BY <1>0, <2>1, <2>5, <2>6
<1>2. \A n, q : Hazard(n, q)' = Hazard(n, q)
  BY <1>0, SameProgram DEF Hazard, Writer, Reader, Latest, Earlier, Sources
<1> QED BY <1>0, <1>1, <1>2, SameProgram DEF Follows, PacedBy

LEMMA WaitedKept ==
    ASSUME GInv, UInv, NEW G, NEW work, NEW fin, CycleOf(G, work, fin)
    PROVE  Waited'
<1>0. Typed /\ prog' = prog /\ issued \in Nat
  BY IssueStep, ProgramFacts DEF GInv
<1>1. ASSUME NEW n \in Prog, n <= issued', Sources(Insn(n)) = {}
      PROVE  Row(n) \cap running' = {}
  <2>1. ASSUME NEW h \in Row(n), h \in running' PROVE FALSE
    <3>1. h \in Prog /\ h < n /\ n \in Nat
      BY <1>0, HazardBefore, ProgramFacts
    <3>2. h \in running /\ (n > issued => Row(n) \cap running = {})
      BY <1>1, <2>1, <3>1, RunningBefore
    <3>3. n <= issued => Row(n) \cap running = {}
      BY <1>1 DEF UInv, Waited
    <3> QED BY <1>0, <2>1, <3>1, <3>2, <3>3
  <2> QED BY <2>1
<1>2. \A n : Row(n)' = Row(n) /\ Sources(Insn(n))' = Sources(Insn(n))
  BY <1>0, SameProgram DEF Row, Hazard, Writer, Reader, Latest, Earlier, Sources
<1> QED BY <1>0, <1>1, <1>2, SameProgram DEF Waited

LEMMA StutterUInv == UInv /\ UNCHANGED vars => UInv'
<1> SUFFICES ASSUME UInv, UNCHANGED vars PROVE UInv'
  OBVIOUS
<1>1. /\ prog' = prog /\ issued' = issued /\ opreq' = opreq
      /\ requester' = requester /\ ibuf' = ibuf /\ made' = made /\ half' = half
      /\ table' = table /\ running' = running /\ wrote' = wrote /\ written' = written
  BY DEF vars, reqVars, unitVars
<1>2. Used' = Used /\ \A q : Read(q)' = Read(q)
  <2>1. Used' = Used
    BY <1>1, SameProgram, SameFrom DEF Used
  <2>2. \A q : Read(q)' = Read(q)
    BY <1>1, SameProgram, SameFrom DEF Read
  <2> QED BY <2>1, <2>2
<1>3. Requested' /\ Halved'
  <2>1. Requested'
    BY <1>1, SameProgram, SameFrom DEF UInv, Requested
  <2>2. Halved'
    BY <1>1, SameProgram DEF UInv, Halved
  <2> QED BY <2>1, <2>2
<1>4. Loaded'
  BY <1>1, <1>2, SameProgram, SameFrom DEF UInv, Loaded
<1>5. Follows' /\ Waited'
  <2>1. /\ \A n, q : Hazard(n, q)' = Hazard(n, q)
        /\ \A n : Row(n)' = Row(n) /\ Sources(Insn(n))' = Sources(Insn(n))
    BY <1>1, SameProgram DEF Row, Hazard, Writer, Reader, Latest, Earlier, Sources
  <2>2. Follows'
    BY <1>1, <1>2, <2>1, SameProgram DEF UInv, Follows, PacedBy
  <2>3. Waited'
    BY <1>1, <2>1, SameProgram DEF UInv, Waited
  <2> QED BY <2>2, <2>3
<1> QED BY <1>3, <1>4, <1>5 DEF UInv

LEMMA InitUInv == Init /\ NoneEmpty(prog) => UInv
<1> SUFFICES ASSUME Init, NoneEmpty(prog) PROVE UInv
  OBVIOUS
<1>3. Follows /\ Waited
  <2>1. running = {}
    BY DEF Init
  <2> QED BY <2>1 DEF Follows, Waited
<1>1. Requested /\ Halved
  <2>1. Requested
    BY DEF Init, Requested, Idle
  <2>2. Halved
    BY SMTT(20) DEF Init, Halved
  <2> QED BY <2>1, <2>2
<1>2. ASSUME NEW q \in Queues
      PROVE  Flow(ibuf[q], Users(q), From(q), Used, Read(q))
  <2>1. ibuf[q] = <<>> /\ Len(ibuf[q]) = 0
    BY DEF Init
  <2>2. ASSUME NEW n \in Users(q) PROVE Used[n] = 0 /\ Read(q)[n] = 0
    <3>1. Typed /\ n \in Prog /\ n > issued
      BY InitGInv, ProgramFacts DEF GInv, Users, Init
    <3>2. made[n] = 0 /\ half[n] = FALSE /\ n \in Prog
      BY <3>1 DEF Init
    <3>3. PICK z : z = 0 \div 2
      OBVIOUS
    <3>4. z = 0
      BY <3>3, SMTT(20)
    <3>5. Insn(n).out >= 1 /\ Insn(n).out \in Nat
      BY <3>1, WordsOf
    <3> QED BY <3>1, <3>2, <3>3, <3>4, <3>5 DEF Read, Used
  <2> QED BY <2>1, <2>2 DEF Flow
<1> QED BY <1>1, <1>2, <1>3 DEF UInv, Loaded

LEMMA NextUInv ==
    ASSUME GInv, UInv, NoneEmpty(prog), [Next]_vars
    PROVE  UInv' /\ NoneEmpty(prog)'
<1>1. CASE Next
  <2>1. PICK G, work, fin : CycleOf(G, work, fin)
    BY <1>1, NextIsCycle
  <2>2. prog' = prog
    BY <2>1, IssueStep
  <2>3. Halved' /\ Requested'
    BY <2>1, UInvGives, HalvedKept, RequestedKept
  <2>4. Loaded' /\ Follows' /\ Waited'
    BY <2>1, LoadedKept, FollowsKept, WaitedKept
  <2> QED BY <2>2, <2>3, <2>4 DEF UInv, NoneEmpty
<1>2. CASE UNCHANGED vars
  BY <1>2, StutterUInv DEF NoneEmpty, vars
<1> QED BY <1>1, <1>2

(***************************************************************************)
(* The operands a unit finds in its queues are those of the instruction it *)
(* executes (operand_requester.sv and the units agree on who reads how     *)
(* much), at any rate, for programs all of whose instructions have         *)
(* elements in the lane.                                                   *)
(***************************************************************************)
THEOREM OperandsAreOwn == Spec /\ NoneEmpty(prog) => []OwnOperands
<1> DEFINE Inv == GInv /\ UInv /\ NoneEmpty(prog)
<1>1. Init /\ NoneEmpty(prog) => Inv
  BY InitGInv, InitUInv
<1>2. Inv /\ [Next]_vars => Inv'
  BY NextGInv, NextUInv
<1>3. Inv => OwnOperands
  <2> SUFFICES ASSUME GInv, UInv, NoneEmpty(prog), NEW f \in FUs, unit[f] # <<>>,
                      NEW q \in Sources(Insn(Head(unit[f]))), ibuf[q] # <<>>
               PROVE  Head(ibuf[q]).id = Head(unit[f])
    BY DEF OwnOperands
  <2>1. q \in Queues
    <3>1. Head(unit[f]) = unit[f][1] /\ 1 \in 1..Len(unit[f])
      BY DEF GInv, Typed
    <3>2. Head(unit[f]) \in Prog
      BY <3>1, ProgramFacts DEF GInv, InUnits
    <3>3. InsnOK(Insn(Head(unit[f])))
      BY <3>2, ProgramFacts DEF GInv
    <3> QED BY <3>3 DEF InsnOK, Sources, QueuesOf, Queues, FUs
  <2> QED BY <2>1, Own
<1> QED BY <1>1, <1>2, <1>3, PTL DEF Spec

-----------------------------------------------------------------------------
(***************************************************************************)
(* The order of writes.  Registers do not overlap; of two instructions     *)
(* with the same destination the second makes as many results, and not two *)
(* of a word.                                                              *)
(***************************************************************************)
Orderly(p) ==
    /\ NoneEmpty(p)
    /\ \A k \in 1..Len(p) : p[k].out <= WordsPerReg
    /\ \A j, k \in 1..Len(p) :
          j < k /\ p[j].vd = p[k].vd /\ p[k].vd # NoReg =>
              p[k].rate # "wide" /\ p[j].out = p[k].out

SameDst(m, n) == Insn(m).vd = Insn(n).vd /\ Insn(n).vd # NoReg

WriteOrder == \A m, n \in Prog : m < n /\ SameDst(m, n) => wrote[n] <= wrote[m]

\* Instruction n has written word a.
Wrote(n, a) ==
    /\ Insn(n).vd # NoReg
    /\ vaddr(Insn(n).vd) <= a /\ a < vaddr(Insn(n).vd) + wrote[n]

\* A word is from the last instruction that wrote it.
Newest ==
    \A a \in Addrs : /\ vrf[a] # 0 => Wrote(vrf[a], a)
                     /\ \A n \in Prog : Wrote(n, a) => n <= vrf[a]

OInv == WriteOrder /\ Newest

LEMMA LatestExists ==
    ASSUME NEW N \in Nat, NEW S, S \subseteq 1..N, S # {}
    PROVE  \E n \in S : \A m \in S : m <= n
<1> DEFINE T == {N - k : k \in S}
<1>1. T \subseteq Nat /\ T # {}
  <2>1. ASSUME NEW k \in S PROVE N - k \in Nat
    <3>1. k \in 1..N
      OBVIOUS
    <3> QED BY <3>1
  <2>2. PICK k : k \in S
    OBVIOUS
  <2>3. N - k \in T
    BY <2>2
  <2> QED BY <2>1, <2>3
<1>2. PICK x \in T : \A y \in T : ~ (<<y, x>> \in OpToRel(<, Nat))
  BY <1>1, NatLessThanWellFounded, WFMin
<1>3. PICK n \in S : x = N - n
  OBVIOUS
<1>4. ASSUME NEW m \in S PROVE m <= n
  <2>1. N - m \in T /\ N - m \in Nat /\ N - n \in Nat /\ m \in Nat /\ n \in Nat
    BY <1>1, <1>3
  <2>2. ~ (N - m < N - n)
    BY <1>2, <1>3, <2>1 DEF OpToRel
  <2> QED BY <2>1, <2>2
<1> QED BY <1>4

LEMMA LastWriter ==
    ASSUME Typed, NEW m \in Prog, NEW n \in Prog, m < n, NEW r,
           Insn(m).vd = r, r # NoReg
    PROVE  \E h \in Prog : h \in Writer(n, r) /\ m <= h /\ h < n /\ Insn(h).vd = r
<1>1. n \in Nat /\ n >= 1 /\ m \in Nat /\ m >= 1 /\ n - 1 \in Nat
  BY ProgramFacts
<1> DEFINE S == {k \in Earlier(n) : Insn(k).vd = r /\ r # NoReg}
<1>2. S \subseteq 1..(n - 1) /\ m \in S
  BY <1>1 DEF Earlier
<1>3. PICK h \in S : \A k \in S : k <= h
  BY <1>1, <1>2, LatestExists
<1>4. h \in Writer(n, r)
  BY <1>3 DEF Writer, Latest
<1>5. h \in Prog /\ h < n
  BY <1>1, <1>2, ProgramFacts
<1> QED BY <1>2, <1>3, <1>4, <1>5

LEMMA LastReader ==
    ASSUME Typed, NEW m \in Prog, NEW n \in Prog, m < n, NEW r,
           NEW q \in Sources(Insn(m)), Insn(m).src[q] = r
    PROVE  \E h \in Prog : /\ h \in Reader(n, r) /\ m <= h /\ h < n
                           /\ \E p \in Sources(Insn(h)) : Insn(h).src[p] = r
<1>1. n \in Nat /\ n >= 1 /\ m \in Nat /\ m >= 1 /\ n - 1 \in Nat
  BY ProgramFacts
<1> DEFINE S == {k \in Earlier(n) : \E p \in Sources(Insn(k)) : Insn(k).src[p] = r}
<1>2. S \subseteq 1..(n - 1) /\ m \in S
  BY <1>1 DEF Earlier
<1>3. PICK h \in S : \A k \in S : k <= h
  BY <1>1, <1>2, LatestExists
<1>4. h \in Reader(n, r)
  BY <1>3 DEF Reader, Latest
<1>5. h \in Prog /\ h < n
  BY <1>1, <1>2, ProgramFacts
<1> QED BY <1>2, <1>3, <1>4, <1>5

\* A unit makes no more results than it has used words, and uses no more than
\* are read.
LEMMA MadeRead ==
    ASSUME GInv, UInv, NEW n \in Prog, Insn(n).rate # "wide",
           NEW q \in Sources(Insn(n))
    PROVE  q \in Queues /\ n \in Users(q) /\ made[n] <= Read(q)[n]
<1>0. Typed /\ Counted /\ Halved /\ Loaded /\ Requested
  BY DEF GInv, UInv
<1>1. q \in Queues
  BY <1>0, ProgramFacts DEF InsnOK, Sources, QueuesOf, Queues, FUs
<1>2. n \in Users(q)
  BY DEF Users
<1>3. /\ Used[n] \in Nat /\ made[n] \in Nat /\ Read(q)[n] \in Nat
      /\ half[n] \in BOOLEAN
  BY <1>0, <1>1, <1>2, Busy, ReadRange DEF Typed
<1>4. made[n] <= Used[n]
  BY <1>3 DEF Used
<1>5. Used[n] <= Read(q)[n]
  BY <1>0, <1>1, <1>2 DEF Loaded, Flow
<1> QED BY <1>1, <1>2, <1>3, <1>4, <1>5

\* An instruction makes no more results than one it waits for has written.
LEMMA MadeAfter ==
    ASSUME GInv, UInv, NEW n \in Prog, n <= issued, Insn(n).rate # "wide",
           NEW h \in running, h \in Row(n),
           \A q \in Sources(Insn(n)) : h \in Hazard(n, q)
    PROVE  made[n] <= wrote[h]
<1>1. PICK q : q \in Sources(Insn(n))
  BY DEF UInv, Waited
<1>2. q \in Queues /\ n \in Users(q) /\ made[n] <= Read(q)[n]
  BY <1>1, MadeRead
<1>3. Read(q)[n] <= wrote[h]
  BY <1>1, <1>2 DEF UInv, Follows, PacedBy
<1>4. Typed /\ Requested
  BY DEF GInv, UInv
<1>5. made[n] \in Nat /\ Read(q)[n] \in Nat /\ h \in Prog
  BY <1>2, <1>4, ReadRange, ProgramFacts DEF Typed
<1>6. wrote[h] \in Nat
  BY <1>4, <1>5 DEF Typed
<1> QED BY <1>2, <1>3, <1>5, <1>6

LEMMA OrderlyFacts ==
    ASSUME Typed, Orderly(prog)
    PROVE  /\ NoneEmpty(prog)
           /\ \A n \in Prog : Insn(n).out <= WordsPerReg
           /\ \A m, n \in Prog : m < n /\ SameDst(m, n) =>
                 Insn(n).rate # "wide" /\ Insn(m).out = Insn(n).out
BY DEF Orderly, Prog, Insn, SameDst

LEMMA WriteFollows ==
    ASSUME GInv, UInv, WriteOrder, Orderly(prog),
           NEW G, NEW work, NEW fin, CycleOf(G, work, fin),
           NEW m \in Prog, NEW n \in Prog, m < n, SameDst(m, n), n \in WritersOf(G)
    PROVE  wrote[n] + 1 <= wrote[m]
<1>0. Typed /\ Counted /\ prog' = prog /\ issued \in Nat
  BY IssueStep, ProgramFacts DEF GInv
<1>1. PICK h \in Prog : /\ h \in Writer(n, Insn(n).vd)
                        /\ m <= h /\ h < n /\ SameDst(h, n)
  BY <1>0, LastWriter DEF SameDst
<1>2. /\ m \in Nat /\ n \in Nat /\ h \in Nat /\ wrote[m] \in Nat /\ wrote[n] \in Nat
      /\ wrote[h] \in Nat /\ made[n] \in Nat /\ Insn(n).out \in Nat
  BY <1>0, ProgramFacts DEF Typed, InsnOK
<1>3. wrote[n] + 1 <= made[n] /\ made[n] <= Insn(n).out
  BY WroteStep, WroteMade
<1>4. wrote[h] <= wrote[m]
  BY <1>1, <1>2 DEF WriteOrder, SameDst
<1>5. Insn(n).rate # "wide" /\ Insn(h).out = Insn(n).out
  BY <1>0, <1>1, OrderlyFacts
<1>6. n <= issued
  BY <1>0, <1>2, <1>3 DEF Counted
<1>7. made[n] <= wrote[h]
  <2>1. CASE h \in running
    BY <1>1, <1>5, <1>6, <2>1, MadeAfter DEF Row, Hazard
  <2>2. CASE h \notin running
    <3>1. wrote[h] = Insn(h).out
      BY <1>0, <1>1, <1>2, <1>6, <2>2 DEF Counted, SameDst
    <3> QED BY <1>3, <1>5, <3>1
  <2> QED BY <2>1, <2>2
<1> QED BY <1>2, <1>3, <1>4, <1>7

LEMMA WriteOrderKept ==
    ASSUME GInv, UInv, WriteOrder, Orderly(prog),
           NEW G, NEW work, NEW fin, CycleOf(G, work, fin)
    PROVE  WriteOrder'
<1>1. prog' = prog
  BY IssueStep
<1>2. ASSUME NEW m \in Prog, NEW n \in Prog, m < n, SameDst(m, n)
      PROVE  wrote'[n] <= wrote'[m]
  <2>1. /\ wrote[m] \in Nat /\ wrote[n] \in Nat /\ wrote'[m] >= wrote[m]
        /\ wrote'[n] = IF n \in WritersOf(G) THEN wrote[n] + 1 ELSE wrote[n]
        /\ wrote'[m] \in Nat
    BY WroteStep
  <2>2. wrote[n] <= wrote[m]
    BY <1>2 DEF WriteOrder
  <2>3. n \in WritersOf(G) => wrote[n] + 1 <= wrote[m]
    BY <1>2, WriteFollows
  <2> QED BY <2>1, <2>2, <2>3
<1> QED BY <1>1, <1>2, SameProgram DEF WriteOrder, SameDst

LEMMA OneRegister ==
    ASSUME NEW r \in 0..NoReg, NEW s \in 0..NoReg, NEW a \in Int,
           vaddr(r) <= a, a < vaddr(r) + WordsPerReg,
           vaddr(s) <= a, a < vaddr(s) + WordsPerReg
    PROVE  r = s
<1>1. r \in Nat /\ s \in Nat /\ WordsPerReg \in Nat
  BY WordsAssumption DEF NoReg
<1>2. ASSUME NEW x \in Nat, NEW y \in Nat, x < y
      PROVE  x * WordsPerReg + WordsPerReg <= y * WordsPerReg
  <2>1. PICK d \in Nat : y = x + 1 + d
    <3>1. y - x - 1 \in Nat /\ y = x + 1 + (y - x - 1)
      BY <1>2
    <3> QED BY <3>1
  <2>2. y * WordsPerReg = x * WordsPerReg + WordsPerReg + d * WordsPerReg
    BY <1>1, <2>1, SMTT(30)
  <2>3. d * WordsPerReg \in Nat /\ x * WordsPerReg \in Nat
    BY <1>1, SMTT(30)
  <2> QED BY <1>1, <2>2, <2>3
<1>3. PICK x, y : x = r * WordsPerReg /\ y = s * WordsPerReg
  OBVIOUS
<1>4. x \in Nat /\ y \in Nat
  BY <1>1, <1>3, SMTT(30)
<1>5. x <= a /\ a < x + WordsPerReg /\ y <= a /\ a < y + WordsPerReg
  BY <1>3 DEF vaddr
<1>6. (r < s => x + WordsPerReg <= y) /\ (s < r => y + WordsPerReg <= x)
  BY <1>1, <1>2, <1>3
<1> QED BY <1>1, <1>4, <1>5, <1>6

LEMMA AddressesInt == Typed => Addrs \subseteq Int
<1> SUFFICES ASSUME Typed, NEW a \in Addrs PROVE a \in Int
  OBVIOUS
<1>1. PICK p \in Programs : \E k \in 1..Len(p) : a \in Dst(p[k])
  BY DEF Addrs
<1>2. PICK k \in 1..Len(p) : a \in Dst(p[k])
  BY <1>1
<1>3. InsnOK(p[k])
  BY <1>1, ProgramsAssumption
<1> QED BY <1>2, <1>3, Address DEF InsnOK, Dst

\* What two instructions wrote, or write, at one place is of one register.
LEMMA OneDst ==
    ASSUME GInv, Orderly(prog), NEW m \in Prog, NEW n \in Prog, NEW a \in Int,
           Insn(m).vd # NoReg, Insn(n).vd # NoReg,
           vaddr(Insn(m).vd) <= a, a < vaddr(Insn(m).vd) + Insn(m).out,
           vaddr(Insn(n).vd) <= a, a < vaddr(Insn(n).vd) + Insn(n).out
    PROVE  SameDst(m, n)
<1>1. Typed
  BY DEF GInv
<1>2. /\ Insn(m).vd \in 0..NoReg /\ Insn(n).vd \in 0..NoReg
      /\ Insn(m).out \in Nat /\ Insn(n).out \in Nat
      /\ Insn(m).out <= WordsPerReg /\ Insn(n).out <= WordsPerReg
  BY <1>1, ProgramFacts, OrderlyFacts DEF InsnOK
<1>3. vaddr(Insn(m).vd) \in Nat /\ vaddr(Insn(n).vd) \in Nat /\ WordsPerReg \in Nat
  BY <1>2, Address, WordsAssumption
<1>4. a < vaddr(Insn(m).vd) + WordsPerReg /\ a < vaddr(Insn(n).vd) + WordsPerReg
  BY <1>2, <1>3
<1> QED BY <1>2, <1>4, OneRegister DEF SameDst

\* What is written to word a.
LEMMA RegisterStep ==
    ASSUME GInv, NEW G, NEW work, NEW fin, CycleOf(G, work, fin), NEW a \in Addrs
    PROVE  \/ /\ vrf'[a] = vrf[a]
              /\ \A n \in Prog : n \in WritersOf(G) =>
                    vaddr(Insn(n).vd) + wrote[n] # a
           \/ \E n \in Prog : /\ n \in WritersOf(G) /\ vrf'[a] = n
                              /\ vaddr(Insn(n).vd) + wrote[n] = a
<1>1. vrf' = [b \in Addrs |->
                IF \E f \in G \cap FUs : Head(resq[f]).addr = b
                THEN CHOOSE n \in Prog : \E f \in G \cap FUs :
                        Head(resq[f]) = [id |-> n, addr |-> b]
                ELSE vrf[b]]
  BY DEF CycleOf, Cycle, Lane, WriteBack
<1>2. CASE \E f \in G \cap FUs : Head(resq[f]).addr = a
  <2>1. PICK f \in G \cap FUs : Head(resq[f]).addr = a
    BY <1>2
  <2>2. Head(resq[f]).id \in Prog /\ Head(resq[f]) \in Products
    BY Writers DEF Makers
  <2>3. Head(resq[f]) = [id |-> Head(resq[f]).id, addr |-> a]
    BY <2>1, <2>2 DEF Products
  <2>4. PICK n \in Prog : /\ vrf'[a] = n
                          /\ \E g \in G \cap FUs : Head(resq[g]) = [id |-> n, addr |-> a]
    BY <1>1, <1>2, <2>2, <2>3
  <2>5. PICK g \in G \cap FUs : Head(resq[g]) = [id |-> n, addr |-> a]
    BY <2>4
  <2>6. n \in WritersOf(G) /\ a = vaddr(Insn(n).vd) + wrote[n]
    <3>1. Head(resq[g]).id = n /\ Head(resq[g]).addr = a
      BY <2>5
    <3> QED BY <3>1, Writers DEF WritersOf
  <2> QED BY <2>4, <2>6
<1>3. CASE ~ \E f \in G \cap FUs : Head(resq[f]).addr = a
  <2>1. vrf'[a] = vrf[a]
    BY <1>1, <1>3
  <2>2. ASSUME NEW n \in Prog, n \in WritersOf(G)
        PROVE  vaddr(Insn(n).vd) + wrote[n] # a
    BY <1>3, <2>2, WroteStep
  <2> QED BY <2>1, <2>2
<1> QED BY <1>2, <1>3

LEMMA RegistersGrow ==
    ASSUME GInv, UInv, OInv, Orderly(prog),
           NEW G, NEW work, NEW fin, CycleOf(G, work, fin), NEW a \in Addrs
    PROVE  vrf'[a] >= vrf[a]
<1>0. Typed /\ a \in Int /\ vrf[a] \in {0} \cup Prog /\ vrf[a] \in Nat
  <2>1. Typed
    BY DEF GInv
  <2>2. vrf[a] \in {0} \cup Prog
    BY <2>1 DEF Typed
  <2> QED BY <2>1, <2>2, AddressesInt, ProgramFacts
<1>1. CASE vrf'[a] = vrf[a]
  BY <1>0, <1>1
<1>2. CASE \E n \in Prog : /\ n \in WritersOf(G) /\ vrf'[a] = n
                           /\ vaddr(Insn(n).vd) + wrote[n] = a
  <2>1. PICK n \in Prog : /\ n \in WritersOf(G) /\ vrf'[a] = n
                          /\ vaddr(Insn(n).vd) + wrote[n] = a
    BY <1>2
  <2>2. CASE vrf[a] = 0
    BY <1>0, <2>1, <2>2, ProgramFacts
  <2>3. CASE vrf[a] # 0
    <3>1. PICK p \in Prog : p = vrf[a] /\ Wrote(p, a)
      BY <1>0, <2>3 DEF OInv, Newest
    <3>2. /\ wrote[p] \in Nat /\ wrote[n] \in Nat /\ p \in Nat /\ n \in Nat
          /\ Insn(p).out \in Nat /\ Insn(n).out \in Nat /\ made[n] \in Nat
          /\ Insn(p).vd \in 0..NoReg /\ Insn(n).vd \in 0..NoReg
      BY <1>0, ProgramFacts DEF Typed, InsnOK
    <3>3. vaddr(Insn(p).vd) \in Nat /\ vaddr(Insn(n).vd) \in Nat
      BY <3>2, Address
    <3>4. /\ made[p] \in Nat /\ wrote[p] <= made[p] /\ made[p] <= Insn(p).out
          /\ wrote[n] + 1 <= made[n] /\ made[n] <= Insn(n).out
          /\ Insn(n).vd # NoReg
      BY <1>0, <2>1, WroteMade, WroteStep DEF Typed
    <3>5. SameDst(p, n)
      <4>1. /\ vaddr(Insn(p).vd) <= a /\ a < vaddr(Insn(p).vd) + Insn(p).out
            /\ Insn(p).vd # NoReg
        BY <1>0, <3>1, <3>2, <3>3, <3>4 DEF Wrote
      <4>2. vaddr(Insn(n).vd) <= a /\ a < vaddr(Insn(n).vd) + Insn(n).out
        BY <2>1, <3>2, <3>3, <3>4
      <4> QED BY <1>0, <3>4, <4>1, <4>2, OneDst
    <3>6. ASSUME n < p PROVE FALSE
      <4>1. wrote[p] <= wrote[n]
        BY <3>5, <3>6 DEF OInv, WriteOrder, SameDst
      <4>2. a < vaddr(Insn(n).vd) + wrote[p]
        BY <3>1, <3>5 DEF Wrote, SameDst
      <4> QED BY <1>0, <2>1, <3>2, <3>3, <4>1, <4>2
    <3> QED BY <2>1, <3>1, <3>2, <3>6
  <2> QED BY <2>2, <2>3
<1> QED BY <1>1, <1>2, RegisterStep

LEMMA NewestKept ==
    ASSUME GInv, UInv, OInv, Orderly(prog),
           NEW G, NEW work, NEW fin, CycleOf(G, work, fin)
    PROVE  Newest'
<1>0. Typed /\ prog' = prog /\ Addrs' = Addrs
  BY IssueStep, SameProgram DEF GInv, Addrs, Dst, vaddr
<1>1. ASSUME NEW n \in Prog
      PROVE  /\ wrote[n] \in Nat /\ wrote'[n] \in Nat /\ made[n] \in Nat
             /\ wrote'[n] = IF n \in WritersOf(G) THEN wrote[n] + 1 ELSE wrote[n]
             /\ Insn(n).vd # NoReg => vaddr(Insn(n).vd) \in Nat
             /\ Insn(n).out \in Nat /\ wrote[n] <= Insn(n).out /\ n \in Nat /\ n >= 1
             /\ n \in WritersOf(G) => /\ Insn(n).vd # NoReg
                                      /\ wrote[n] + 1 <= Insn(n).out
  <2>1. /\ Insn(n).vd \in 0..NoReg /\ Insn(n).out \in Nat /\ n \in Nat /\ n >= 1
        /\ made[n] \in Nat
    BY <1>0, ProgramFacts DEF Typed, InsnOK
  <2> QED BY <2>1, Address, WroteStep, WroteMade
<1>2. ASSUME NEW a \in Addrs
      PROVE  /\ vrf'[a] # 0 =>
                   /\ Insn(vrf'[a]).vd # NoReg
                   /\ vaddr(Insn(vrf'[a]).vd) <= a
                   /\ a < vaddr(Insn(vrf'[a]).vd) + wrote'[vrf'[a]]
             /\ \A n \in Prog :
                   /\ Insn(n).vd # NoReg
                   /\ vaddr(Insn(n).vd) <= a /\ a < vaddr(Insn(n).vd) + wrote'[n]
                   => n <= vrf'[a]
  <2>0. a \in Int /\ vrf[a] \in {0} \cup Prog /\ vrf[a] \in Nat /\ vrf'[a] >= vrf[a]
    BY <1>0, AddressesInt, ProgramFacts, RegistersGrow DEF Typed
  <2>1. vrf'[a] # 0 => /\ Insn(vrf'[a]).vd # NoReg
                       /\ vaddr(Insn(vrf'[a]).vd) <= a
                       /\ a < vaddr(Insn(vrf'[a]).vd) + wrote'[vrf'[a]]
    <3>1. CASE vrf'[a] = vrf[a]
      <4>1. ASSUME vrf[a] # 0
            PROVE  /\ Insn(vrf[a]).vd # NoReg
                   /\ vaddr(Insn(vrf[a]).vd) <= a
                   /\ a < vaddr(Insn(vrf[a]).vd) + wrote'[vrf[a]]
        <5>1. PICK p \in Prog : p = vrf[a] /\ Wrote(p, a)
          BY <2>0, <4>1 DEF OInv, Newest
        <5> QED BY <1>1, <2>0, <5>1 DEF Wrote
      <4> QED BY <3>1, <4>1
    <3>2. CASE \E n \in Prog : /\ n \in WritersOf(G) /\ vrf'[a] = n
                               /\ vaddr(Insn(n).vd) + wrote[n] = a
      <4>1. PICK n \in Prog : /\ n \in WritersOf(G) /\ vrf'[a] = n
                              /\ vaddr(Insn(n).vd) + wrote[n] = a
        BY <3>2
      <4> QED BY <1>1, <2>0, <4>1
    <3> QED BY <3>1, <3>2, RegisterStep
  <2>2. ASSUME NEW n \in Prog, Insn(n).vd # NoReg,
               vaddr(Insn(n).vd) <= a, a < vaddr(Insn(n).vd) + wrote'[n]
        PROVE  n <= vrf'[a]
    <3>1. CASE Wrote(n, a)
      <4>1. n <= vrf[a] /\ n \in Nat
        BY <1>1, <3>1 DEF OInv, Newest
      <4>2. vrf'[a] \in Nat
        BY <1>0, <2>0, RegisterType, ProgramFacts
      <4> QED BY <2>0, <4>1, <4>2
    <3>2. CASE ~Wrote(n, a)
      <4>1. n \in WritersOf(G) /\ vaddr(Insn(n).vd) + wrote[n] = a
        BY <1>1, <2>0, <2>2, <3>2 DEF Wrote
      <4>2. PICK m \in Prog : /\ m \in WritersOf(G) /\ vrf'[a] = m
                              /\ vaddr(Insn(m).vd) + wrote[m] = a
        BY <4>1, RegisterStep
      <4>3. SameDst(m, n)
        <5>1. /\ Insn(m).vd # NoReg /\ Insn(n).vd # NoReg
              /\ vaddr(Insn(m).vd) <= a /\ a < vaddr(Insn(m).vd) + Insn(m).out
              /\ vaddr(Insn(n).vd) <= a /\ a < vaddr(Insn(n).vd) + Insn(n).out
          BY <1>1, <4>1, <4>2
        <5> QED BY <2>0, <5>1, OneDst
      <4>4. ASSUME m < n PROVE FALSE
        <5>1. wrote[n] + 1 <= wrote[m]
          BY <4>1, <4>3, <4>4, WriteFollows DEF OInv
        <5>2. vaddr(Insn(m).vd) = vaddr(Insn(n).vd)
          BY <4>3 DEF SameDst
        <5> QED BY <1>1, <4>1, <4>2, <5>1, <5>2
      <4> QED BY <1>1, <4>2, <4>4
    <3> QED BY <3>1, <3>2
  <2> QED BY <2>1, <2>2
<1>3. /\ \A n : Insn(n)' = Insn(n) /\ vaddr(Insn(n).vd)' = vaddr(Insn(n).vd)
      /\ Prog' = Prog
  BY <1>0, SameProgram DEF vaddr
<1> QED BY <1>0, <1>2, <1>3 DEF Newest, Wrote

LEMMA InitOInv == Init => OInv
<1> SUFFICES ASSUME Init PROVE OInv
  OBVIOUS
<1>0. Typed
  BY InitGInv DEF GInv
<1>1. WriteOrder
  BY DEF Init, WriteOrder
<1>2. ASSUME NEW n \in Prog, NEW a \in Addrs, Wrote(n, a) PROVE FALSE
  <2>1. a \in Int /\ vaddr(Insn(n).vd) \in Nat /\ wrote[n] = 0
    BY <1>0, AddressesInt, ProgramFacts, Address DEF InsnOK, Init
  <2> QED BY <1>2, <2>1 DEF Wrote
<1>3. \A a \in Addrs : vrf[a] = 0
  BY DEF Init
<1> QED BY <1>1, <1>2, <1>3 DEF OInv, Newest

LEMMA NextOInv ==
    ASSUME GInv, UInv, OInv, Orderly(prog), [Next]_vars
    PROVE  OInv' /\ Orderly(prog)'
<1>1. CASE Next
  <2>1. PICK G, work, fin : CycleOf(G, work, fin)
    BY <1>1, NextIsCycle
  <2>2. prog' = prog
    BY <2>1, IssueStep
  <2>3. WriteOrder' /\ Newest'
    BY <2>1, WriteOrderKept, NewestKept DEF OInv
  <2>4. Orderly(prog)'
    BY <2>2 DEF Orderly, NoneEmpty
  <2> QED BY <2>3, <2>4 DEF OInv
<1>2. CASE UNCHANGED vars
  <2>1. prog' = prog /\ wrote' = wrote /\ vrf' = vrf
    BY <1>2 DEF vars
  <2>2. Orderly(prog)'
    BY <2>1 DEF Orderly, NoneEmpty
  <2>3. Addrs' = Addrs /\ \A n : vaddr(Insn(n).vd)' = vaddr(Insn(n).vd)
    BY <2>1, SameProgram DEF Addrs, Dst, vaddr
  <2>4. WriteOrder'
    BY <2>1, SameProgram DEF OInv, WriteOrder, SameDst
  <2>5. Newest'
    BY <2>1, <2>3, SameProgram DEF OInv, Newest, Wrote
  <2> QED BY <2>2, <2>4, <2>5 DEF OInv
<1> QED BY <1>1, <1>2

(***************************************************************************)
(* No result is overwritten by one of an earlier instruction               *)
(* (operand_requester.sv: the second of two writers is paced by the        *)
(* first), for programs whose registers do not overlap and in which the    *)
(* second writer of a register makes as many results as the first and is   *)
(* not widening.                                                           *)
(***************************************************************************)
THEOREM WritesAlwaysInOrder == Spec /\ Orderly(prog) => WritesInOrder
<1> DEFINE Inv == GInv /\ UInv /\ OInv /\ Orderly(prog)
<1>1. Init /\ Orderly(prog) => Inv
  BY InitGInv, InitUInv, InitOInv DEF Orderly
<1>2. Inv /\ [Next]_vars => Inv'
  <2> SUFFICES ASSUME Inv, [Next]_vars PROVE Inv'
    OBVIOUS
  <2>1. NoneEmpty(prog)
    BY DEF Orderly
  <2> QED BY <2>1, NextGInv, NextUInv, NextOInv
<1>3. Inv /\ [Next]_vars => [\A a \in Addrs : vrf'[a] >= vrf[a]]_vars
  <2> SUFFICES ASSUME Inv, Next PROVE \A a \in Addrs : vrf'[a] >= vrf[a]
    OBVIOUS
  <2>1. PICK G, work, fin : CycleOf(G, work, fin)
    BY NextIsCycle
  <2> QED BY <2>1, RegistersGrow
<1> QED BY <1>1, <1>2, <1>3, PTL DEF Spec, WritesInOrder

-----------------------------------------------------------------------------
(***************************************************************************)
(* The order of reads.  An instruction that writes a register which it or  *)
(* an earlier one reads does as many steps as it reads words, as does the  *)
(* reader; of the readers of a register only the last is remembered, so a  *)
(* value that is overwritten is read by one instruction.                   *)
(***************************************************************************)
ReadsReg(i, r) == \E q \in Sources(i) : i.src[q] = r

Chainable(p) ==
    /\ Orderly(p)
    /\ \A k \in 1..Len(p) : words(p[k]) <= WordsPerReg
    /\ \A j, k \in 1..Len(p) : j <= k /\ ReadsReg(p[j], p[k].vd) =>
          p[j].rate # "wide" /\ p[k].rate # "wide"
    /\ \A i, j, k \in 1..Len(p) :
          i < j /\ j < k /\ ReadsReg(p[i], p[k].vd) /\ ReadsReg(p[j], p[k].vd) =>
              \E w \in i..j : p[w].vd = p[k].vd

\* A word is not overwritten before it is read.
ReadOrder ==
    \A q \in Queues : \A m \in Users(q) : \A n \in Prog :
        m < n /\ Insn(n).vd = Insn(m).src[q] =>
            wrote[n] <= Read(q)[m] \/ Read(q)[m] = words(Insn(m))

RInv == ReadOrder /\ OperandsInOrder

LEMMA ChainableFacts ==
    ASSUME Typed, Chainable(prog)
    PROVE  /\ Orderly(prog) /\ NoneEmpty(prog)
           /\ \A n \in Prog : words(Insn(n)) <= WordsPerReg
           /\ \A m, n \in Prog : m <= n /\ ReadsReg(Insn(m), Insn(n).vd) =>
                 Insn(m).rate # "wide" /\ Insn(n).rate # "wide"
           /\ \A m, h, n \in Prog :
                 /\ m < h /\ h < n
                 /\ ReadsReg(Insn(m), Insn(n).vd) /\ ReadsReg(Insn(h), Insn(n).vd)
                 => \E w \in m..h : Insn(w).vd = Insn(n).vd
BY DEF Chainable, Orderly, Prog, Insn

\* What is executed is read.
LEMMA ReadWhenMade ==
    ASSUME GInv, UInv, NEW q \in Queues, NEW n \in Users(q), made[n] = Insn(n).out
    PROVE  Read(q)[n] = words(Insn(n))
<1>0. Typed /\ Counted /\ Halved /\ Loaded /\ Requested
  BY DEF GInv, UInv
<1>1. n \in Prog /\ words(Insn(n)) \in Nat
  BY <1>0, UserFacts
<1>2. Used[n] \in Nat /\ ~(Used[n] < words(Insn(n)))
  BY <1>0, <1>1, Busy, WordsOf
<1>3. Used[n] <= Read(q)[n]
  BY <1>0 DEF Loaded, Flow
<1>4. Read(q)[n] \in Nat /\ Read(q)[n] <= words(Insn(n))
  BY <1>0, ReadRange
<1> QED BY <1>1, <1>2, <1>3, <1>4

LEMMA ReadFirst ==
    ASSUME GInv, UInv, WriteOrder, ReadOrder, Chainable(prog),
           NEW G, NEW work, NEW fin, CycleOf(G, work, fin),
           NEW q \in Queues, NEW m \in Users(q), NEW n \in Prog, m < n,
           Insn(n).vd = Insn(m).src[q], n \in WritersOf(G)
    PROVE  wrote[n] + 1 <= Read(q)[m] \/ Read(q)[m] = words(Insn(m))
<1>0. Typed /\ Counted /\ Requested /\ issued \in Nat
  BY ProgramFacts DEF GInv, UInv
<1>1. /\ m \in Prog /\ m \in Nat /\ q \in Sources(Insn(m)) /\ n \in Nat
      /\ ReadsReg(Insn(m), Insn(n).vd)
      /\ Read(q)[m] \in Nat /\ words(Insn(m)) \in Nat
  BY <1>0, UserFacts, ReadRange, ProgramFacts DEF ReadsReg
<1>2. /\ wrote[n] \in Nat /\ made[n] \in Nat /\ made[m] \in Nat /\ wrote[m] \in Nat
      /\ wrote[n] + 1 <= made[n] /\ Insn(n).vd # NoReg
  BY <1>0, <1>1, WroteStep DEF Typed
<1>3. n <= issued
  BY <1>0, <1>1, <1>2 DEF Counted
<1>4. Insn(m).rate # "wide" /\ Insn(n).rate # "wide"
  BY <1>0, <1>1, ChainableFacts
<1>5. wrote[m] <= made[m] /\ made[m] <= Read(q)[m]
  BY <1>1, <1>4, WroteMade, MadeRead
<1>6. PICK h \in Prog : /\ h \in Reader(n, Insn(n).vd) /\ m <= h /\ h < n
                        /\ ReadsReg(Insn(h), Insn(n).vd)
  BY <1>0, <1>1, LastReader DEF ReadsReg
<1>7. CASE h = m
  <2>1. CASE m \in running
    <3>1. made[n] <= wrote[m]
      BY <1>3, <1>4, <1>6, <1>7, <2>1, MadeAfter DEF Row, Hazard
    <3> QED BY <1>1, <1>2, <1>5, <3>1
  <2>2. CASE m \notin running
    <3>1. made[m] = Insn(m).out
      BY <1>0, <1>1, <1>3, <2>2 DEF Counted
    <3> QED BY <3>1, ReadWhenMade
  <2> QED BY <2>1, <2>2
<1>8. CASE h # m
  <2>1. m < h /\ h \in Nat
    BY <1>0, <1>1, <1>6, <1>8, ProgramFacts
  <2>2. PICK w \in m..h : Insn(w).vd = Insn(n).vd
    BY <1>0, <1>1, <1>6, <2>1, ChainableFacts
  <2>3. w \in Prog /\ w < n /\ m <= w /\ w \in Nat /\ SameDst(w, n)
    BY <1>0, <1>1, <1>2, <1>6, <2>1, <2>2, ProgramFacts DEF SameDst
  <2>4. wrote[n] + 1 <= wrote[w] /\ wrote[w] \in Nat
    BY <1>0, <2>3, WriteFollows, ChainableFacts DEF Typed
  <2>5. CASE w = m
    BY <1>1, <1>2, <1>5, <2>4, <2>5
  <2>6. CASE w # m
    <3>1. m < w
      BY <1>1, <2>3, <2>6
    <3>2. wrote[w] <= Read(q)[m] \/ Read(q)[m] = words(Insn(m))
      BY <2>2, <2>3, <3>1 DEF ReadOrder
    <3> QED BY <1>1, <1>2, <2>4, <3>2
  <2> QED BY <2>5, <2>6
<1> QED BY <1>7, <1>8

LEMMA ReadOrderKept ==
    ASSUME GInv, UInv, WriteOrder, ReadOrder, Chainable(prog),
           NEW G, NEW work, NEW fin, CycleOf(G, work, fin)
    PROVE  ReadOrder'
<1>0. Typed /\ Requested /\ prog' = prog
  BY IssueStep DEF GInv, UInv
<1>1. ASSUME NEW q \in Queues, NEW m \in Users(q), NEW n \in Prog,
             m < n, Insn(n).vd = Insn(m).src[q]
      PROVE  wrote'[n] <= Read(q)'[m] \/ Read(q)'[m] = words(Insn(m))
  <2>1. /\ wrote[n] \in Nat
        /\ wrote'[n] = IF n \in WritersOf(G) THEN wrote[n] + 1 ELSE wrote[n]
    BY WroteStep
  <2>2. /\ Read(q)[m] \in Nat /\ words(Insn(m)) \in Nat
        /\ Read(q)'[m] = IF ReadsOf(m, q, G) THEN Read(q)[m] + 1 ELSE Read(q)[m]
        /\ ReadsOf(m, q, G) => Read(q)[m] < words(Insn(m))
    BY <1>0, UserFacts, ReadRange, ReadStep, ChainableFacts
  <2>3. wrote[n] <= Read(q)[m] \/ Read(q)[m] = words(Insn(m))
    BY <1>1 DEF ReadOrder
  <2>4. n \in WritersOf(G) =>
           wrote[n] + 1 <= Read(q)[m] \/ Read(q)[m] = words(Insn(m))
    BY <1>1, ReadFirst
  <2> QED BY <2>1, <2>2, <2>3, <2>4
<1> QED BY <1>0, <1>1, SameProgram, SameFrom DEF ReadOrder

\* What is read is what the program says.
LEMMA ReadRight ==
    ASSUME GInv, UInv, OInv, ReadOrder, Chainable(prog),
           NEW G, NEW work, NEW fin, CycleOf(G, work, fin),
           NEW q \in Queues, q \in G, NEW n, n = requester[q].id,
           NEW a, a = requester[q].addr
    PROVE  Expected(n, a) = IF a \in Addrs THEN vrf[a] ELSE 0
<1>0. /\ Typed /\ Counted /\ Requested /\ issued \in Nat /\ NoneEmpty(prog)
      /\ Orderly(prog)
  BY ProgramFacts, ChainableFacts DEF GInv, UInv
<1>1. requester[q].state = "REQUESTING" /\ ~stall(q)
  BY Reads
<1>2. n \in Users(q)
  BY <1>0, <1>1 DEF Requested
<1> DEFINE r == Insn(n).src[q]
           W == {m \in Earlier(n) : a \in Dst(Insn(m))}
<1>3. PICK i : i = Read(q)[n]
  OBVIOUS
<1>4. /\ n \in Prog /\ n \in Nat /\ n >= 1 /\ q \in Sources(Insn(n))
      /\ r \in 0..(NoReg - 1) /\ r \in 0..NoReg /\ r # NoReg
      /\ From(q)[n] = vaddr(r) /\ vaddr(r) \in Nat
  <2>1. /\ n \in Prog /\ n \in Nat /\ n >= 1 /\ q \in Sources(Insn(n))
        /\ r \in 0..(NoReg - 1)
        /\ From(q)[n] = vaddr(r) /\ From(q)[n] \in Nat
    BY <1>0, <1>2, UserFacts
  <2>2. r \in 0..NoReg /\ r # NoReg
    <3>1. PICK s \in 0..(NoReg - 1) : s = r
      BY <2>1
    <3> QED BY <3>1 DEF NoReg
  <2> QED BY <2>1, <2>2
<1>5. /\ a = vaddr(r) + i /\ i \in Nat /\ i < words(Insn(n))
      /\ n <= issued /\ a \in Int
  BY <1>0, <1>1, <1>2, <1>3, <1>4, ReadStep, ReadRange DEF ReadsOf
<1>6. /\ words(Insn(n)) \in Nat /\ words(Insn(n)) <= WordsPerReg
      /\ WordsPerReg \in Nat /\ vaddr(r) <= a /\ a < vaddr(r) + WordsPerReg
  <2>1. PICK w \in Nat : w = words(Insn(n))
    BY <1>0, <1>2, UserFacts
  <2>2. PICK d \in Nat : d = WordsPerReg
    BY WordsAssumption
  <2>3. PICK v \in Nat : v = vaddr(r)
    BY <1>4
  <2>4. w <= d
    <3>1. \A m \in Prog : words(Insn(m)) <= WordsPerReg
      BY <1>0, ChainableFacts
    <3> QED BY <1>4, <2>1, <2>2, <3>1
  <2>5. v <= v + i /\ v + i < v + d
    BY <1>5, <2>1, <2>4
  <2> QED BY <1>5, <2>1, <2>2, <2>3, <2>4, <2>5
<1> HIDE DEF r
<1>7. ASSUME NEW m \in Prog, Insn(m).vd # NoReg,
             vaddr(Insn(m).vd) <= a, a < vaddr(Insn(m).vd) + Insn(m).out
      PROVE  Insn(m).vd = r
  <2>1. /\ Insn(m).vd \in 0..NoReg /\ Insn(m).out \in Nat
        /\ Insn(m).out <= WordsPerReg
    BY <1>0, ProgramFacts, OrderlyFacts DEF InsnOK
  <2>2. vaddr(Insn(m).vd) \in Nat
    BY <2>1, Address
  <2>3. a < vaddr(Insn(m).vd) + WordsPerReg
    BY <1>5, <1>6, <1>7, <2>1, <2>2
  <2> QED BY <1>4, <1>5, <1>6, <1>7, <2>1, <2>3, OneRegister
<1>8. ASSUME NEW m \in W
      PROVE  /\ m \in Prog /\ m \in Nat /\ m >= 1 /\ m < n /\ a \in Addrs
             /\ Wrote(m, a)
  <2>1. m \in Prog /\ m \in Nat /\ m >= 1 /\ m < n
    BY <1>0, <1>4, ProgramFacts DEF Earlier
  <2>2. /\ Insn(m).vd # NoReg /\ Insn(m).out \in Nat /\ vaddr(Insn(m).vd) \in Nat
        /\ vaddr(Insn(m).vd) <= a /\ a < vaddr(Insn(m).vd) + Insn(m).out
    <3>1. Insn(m).vd \in 0..NoReg /\ Insn(m).out \in Nat
      BY <1>0, <2>1, ProgramFacts DEF InsnOK
    <3>2. vaddr(Insn(m).vd) \in Nat
      BY <3>1, Address
    <3> QED BY <1>5, <3>1, <3>2 DEF Dst
  <2>3. a \in Addrs
    <3>1. /\ m \in 1..Len(prog) /\ a \in Dst(prog[m]) /\ prog \in Programs
      BY <1>0, <2>1 DEF Prog, Insn, Typed
    <3> QED BY <3>1 DEF Addrs
  <2>4. Insn(m).vd = r
    BY <1>7, <2>1, <2>2
  <2>5. i < Insn(m).out
    BY <1>4, <1>5, <2>2, <2>4
  <2>6. PICK h \in Prog : /\ h \in Writer(n, r) /\ m <= h /\ h < n
                          /\ Insn(h).vd = r
    BY <1>0, <1>4, <2>1, <2>4, LastWriter
  <2>7. h \in Nat /\ wrote[h] \in Nat /\ wrote[m] \in Nat
    BY <1>0, <2>1, <2>6, ProgramFacts DEF Typed
  <2>8. SameDst(m, h)
    BY <1>4, <2>4, <2>6 DEF SameDst
  <2>9. wrote[h] <= wrote[m] /\ Insn(h).out = Insn(m).out
    <3>1. CASE m = h
      BY <2>7, <3>1
    <3>2. CASE m # h
      <4>1. m < h
        BY <2>1, <2>6, <2>7, <3>2
      <4> QED BY <1>0, <2>1, <2>6, <2>8, <4>1, OrderlyFacts DEF OInv, WriteOrder
    <3> QED BY <3>1, <3>2
  <2>10. i + 1 <= wrote[h]
    <3>1. CASE h \in running
      <4>1. h \in Hazard(n, q)
        BY <2>6 DEF Hazard, r
      <4>2. /\ h \in requester[q].hazard
            /\ h \in written => Read(q)[n] + 1 <= wrote[h]
        BY <1>1, <1>2, <1>5, <3>1, <4>1 DEF UInv, Follows, PacedBy
      <4>3. h \in written
        BY <1>1, <4>2 DEF stall
      <4> QED BY <1>3, <4>2, <4>3
    <3>2. CASE h \notin running
      <4>1. h <= issued
        BY <1>0, <1>4, <1>5, <2>6, <2>7
      <4>2. wrote[h] = Insn(h).out
        BY <1>0, <1>4, <2>6, <3>2, <4>1 DEF Counted
      <4> QED BY <1>5, <2>2, <2>5, <2>9, <4>2
    <3> QED BY <3>1, <3>2
  <2>11. Wrote(m, a)
    <3>1. i + 1 <= wrote[m]
      BY <1>5, <2>7, <2>9, <2>10
    <3>2. vaddr(Insn(m).vd) = vaddr(r)
      BY <2>4
    <3> QED BY <1>4, <1>5, <2>2, <2>7, <3>1, <3>2 DEF Wrote
  <2> QED BY <2>1, <2>3, <2>11
<1>9. ASSUME NEW p \in Prog, Wrote(p, a)
      PROVE  p \in W
  <2>1. /\ p \in Nat /\ p >= 1 /\ wrote[p] \in Nat /\ made[p] \in Nat
        /\ Insn(p).vd \in 0..NoReg /\ Insn(p).out \in Nat
        /\ wrote[p] <= made[p] /\ made[p] <= Insn(p).out
    BY <1>0, ProgramFacts, WroteMade DEF Typed, InsnOK
  <2>2. vaddr(Insn(p).vd) \in Nat
    BY <2>1, Address
  <2>3. /\ Insn(p).vd # NoReg /\ vaddr(Insn(p).vd) <= a
        /\ a < vaddr(Insn(p).vd) + Insn(p).out
    BY <1>5, <1>9, <2>1, <2>2 DEF Wrote
  <2>4. Insn(p).vd = r
    BY <1>7, <2>3
  <2>5. i < wrote[p]
    BY <1>4, <1>5, <1>9, <2>1, <2>4 DEF Wrote
  <2>6. ASSUME n < p PROVE FALSE
    <3>1. wrote[p] <= i \/ i = words(Insn(n))
      BY <1>2, <1>3, <2>4, <2>6 DEF ReadOrder, r
    <3> QED BY <1>5, <1>6, <2>1, <2>5, <3>1
  <2>7. ASSUME n = p PROVE FALSE
    <3>1. ReadsReg(Insn(n), Insn(n).vd)
      BY <1>4, <2>4, <2>7 DEF ReadsReg, r
    <3>2. Insn(n).rate # "wide"
      BY <1>0, <1>4, <3>1, ChainableFacts
    <3>3. made[n] <= i
      BY <1>3, <1>4, <3>2, MadeRead
    <3> QED BY <1>5, <2>1, <2>5, <2>7, <3>3
  <2>8. p \in Earlier(n)
    BY <1>4, <2>1, <2>6, <2>7 DEF Earlier
  <2>9. a \in Dst(Insn(p))
    BY <1>5, <2>1, <2>2, <2>3 DEF Dst
  <2> QED BY <2>8, <2>9
<1>10. Expected(n, a) = IF W = {} THEN 0 ELSE CHOOSE m \in W : \A k \in W : k <= m
  BY DEF Expected
<1>11. a \in Addrs => /\ vrf[a] \in {0} \cup Prog
                      /\ vrf[a] # 0 => Wrote(vrf[a], a)
                      /\ \A m \in Prog : Wrote(m, a) => m <= vrf[a]
  BY <1>0 DEF OInv, Newest, Typed
<1> HIDE DEF W
<1>12. CASE W = {}
  <2>1. a \in Addrs => vrf[a] = 0
    BY <1>9, <1>11, <1>12
  <2> QED BY <1>10, <1>12, <2>1
<1>13. CASE W # {}
  <2>1. PICK m \in W : TRUE
    BY <1>13
  <2>2. a \in Addrs /\ m \in Nat /\ m >= 1 /\ m <= vrf[a]
    BY <1>8, <1>11
  <2>3. PICK p \in Prog : p = vrf[a]
    BY <1>11, <2>2
  <2>4. p \in W
    BY <1>0, <1>9, <1>11, <2>2, <2>3, ProgramFacts
  <2>5. \A k \in W : k <= p /\ k \in Nat
    BY <1>8, <1>11, <2>2, <2>3
  <2>6. \A x \in W : (\A k \in W : k <= x) => x = p
    BY <2>4, <2>5
  <2>7. (CHOOSE x \in W : \A k \in W : k <= x) = p
    BY <2>4, <2>5, <2>6
  <2> QED BY <1>10, <1>13, <2>2, <2>3, <2>7
<1> QED BY <1>12, <1>13

\* What is in a queue after a cycle was there before, or was just read.
LEMMA Pushed ==
    ASSUME NEW S, NEW s \in Seq(S), NEW pop \in BOOLEAN, pop => s # <<>>,
           NEW push \in BOOLEAN, NEW e \in S,
           NEW k \in 1..Len(Push(Pop(s, pop), push, e))
    PROVE  LET x == Push(Pop(s, pop), push, e)[k]
           IN  (push /\ x = e) \/ \E j \in 1..Len(s) : x = s[j]
<1> DEFINE t == Pop(s, pop)
<1>1. t \in Seq(S) /\ \A i \in 1..Len(t) : \E j \in 1..Len(s) : t[i] = s[j]
  <2>1. CASE pop
    <3>1. t = Tail(s) /\ s # <<>> /\ Len(s) \in Nat
      BY <2>1 DEF Pop
    <3>2. /\ t \in Seq(S) /\ Len(t) = Len(s) - 1
          /\ \A i \in 1..Len(t) : t[i] = s[i + 1] /\ i + 1 \in 1..Len(s)
      BY <3>1
    <3> QED BY <3>2
  <2>2. CASE ~pop
    BY <2>2 DEF Pop
  <2> QED BY <2>1, <2>2
<1> HIDE DEF t
<1>2. CASE push
  <2>1. Push(t, push, e) = Append(t, e)
    BY <1>2 DEF Push
  <2>2. k \in 1..(Len(t) + 1) /\ Len(t) \in Nat
    BY <1>1, <2>1 DEF t
  <2>3. Append(t, e)[k] = IF k = Len(t) + 1 THEN e ELSE t[k]
    BY <1>1, <2>2
  <2>4. k # Len(t) + 1 => k \in 1..Len(t)
    BY <2>2
  <2> QED BY <1>1, <1>2, <2>1, <2>3, <2>4 DEF t
<1>3. CASE ~push
  BY <1>1, <1>3 DEF Push, t
<1> QED BY <1>2, <1>3

LEMMA SameExpected ==
    ASSUME prog' = prog
    PROVE  \A n, a : Expected(n, a)' = Expected(n, a)
BY SMT DEF Expected, Earlier, Dst, vaddr, Insn

LEMMA OperandsKept ==
    ASSUME GInv, UInv, OInv, RInv, Chainable(prog),
           NEW G, NEW work, NEW fin, CycleOf(G, work, fin)
    PROVE  OperandsInOrder'
<1>0. Typed /\ prog' = prog
  BY IssueStep DEF GInv
<1>1. ASSUME NEW q \in Queues, NEW k \in 1..Len(ibuf'[q])
      PROVE  ibuf'[q][k].writer = Expected(ibuf'[q][k].id, ibuf'[q][k].addr)
  <2>0. PICK pop \in BOOLEAN : pop = Popped(q, work)
    BY DEF Popped
  <2>1. PICK push \in BOOLEAN : push <=> q \in G
    OBVIOUS
  <2>2. PICK e : e = [id |-> requester[q].id, addr |-> requester[q].addr,
                      writer |-> IF requester[q].addr \in Addrs
                                 THEN vrf[requester[q].addr] ELSE 0]
    OBVIOUS
  <2>3. ibuf'[q] = Push(Pop(ibuf[q], pop), push, e)
    <3>1. ibuf'[q] = Push(Pop(ibuf[q], Popped(q, work)), q \in G, e)
      BY <2>2 DEF CycleOf, Cycle, Lane, Buffers
    <3>2. Pop(ibuf[q], Popped(q, work)) = Pop(ibuf[q], pop)
      BY <2>0 DEF Pop
    <3> QED BY <2>1, <3>1, <3>2 DEF Push
  <2>4. e \in Operands /\ ibuf[q] \in Seq(Operands) /\ (pop => ibuf[q] # <<>>)
    <3>1. requester[q].id \in Nat /\ requester[q].addr \in Int
      BY <1>0, ProgramFacts DEF Typed, RequesterStates
    <3>2. \A a \in Addrs : vrf[a] \in Nat
      BY <1>0, ProgramFacts DEF Typed
    <3>3. e \in Operands
      BY <2>2, <3>1, <3>2 DEF Operands
    <3>4. pop => ibuf[q] # <<>>
      BY <2>0, BuffersType
    <3> QED BY <1>0, <3>3, <3>4 DEF Typed
  <2>5. \/ push /\ ibuf'[q][k] = e
        \/ \E j \in 1..Len(ibuf[q]) : ibuf'[q][k] = ibuf[q][j]
    BY <2>3, <2>4, Pushed
  <2>6. CASE push /\ ibuf'[q][k] = e
    <3>1. PICK n, a : n = requester[q].id /\ a = requester[q].addr
      OBVIOUS
    <3>2. Expected(n, a) = IF a \in Addrs THEN vrf[a] ELSE 0
      BY <2>1, <2>6, <3>1, ReadRight DEF RInv
    <3>3. e.id = n /\ e.addr = a /\ e.writer = IF a \in Addrs THEN vrf[a] ELSE 0
      BY <2>2, <3>1
    <3> QED BY <2>6, <3>2, <3>3
  <2>7. CASE \E j \in 1..Len(ibuf[q]) : ibuf'[q][k] = ibuf[q][j]
    <3>1. PICK j \in 1..Len(ibuf[q]) : ibuf'[q][k] = ibuf[q][j]
      BY <2>7
    <3>2. ibuf[q][j].writer = Expected(ibuf[q][j].id, ibuf[q][j].addr)
      BY DEF RInv, OperandsInOrder
    <3> QED BY <3>1, <3>2
  <2> QED BY <2>5, <2>6, <2>7
<1>2. \A n, a : Expected(n, a)' = Expected(n, a)
  BY <1>0, SameExpected
<1> QED BY <1>1, <1>2 DEF OperandsInOrder

LEMMA InitRInv == Init => RInv
<1> SUFFICES ASSUME Init PROVE RInv
  OBVIOUS
<1>1. OperandsInOrder
  BY DEF Init, OperandsInOrder
<1>2. ASSUME NEW q \in Queues, NEW m \in Users(q), NEW n \in Prog
      PROVE  wrote[n] <= Read(q)[m]
  <2>1. wrote[n] = 0 /\ Typed /\ Requested
    BY InitGInv DEF Init, GInv, Requested, Idle
  <2>2. Read(q)[m] \in Nat
    BY <2>1, ReadRange
  <2> QED BY <2>1, <2>2
<1> QED BY <1>1, <1>2 DEF RInv, ReadOrder

LEMMA NextRInv ==
    ASSUME GInv, UInv, OInv, RInv, Chainable(prog), [Next]_vars
    PROVE  RInv' /\ Chainable(prog)'
<1>1. CASE Next
  <2>1. PICK G, work, fin : CycleOf(G, work, fin)
    BY <1>1, NextIsCycle
  <2>2. prog' = prog
    BY <2>1, IssueStep
  <2>3. ReadOrder' /\ OperandsInOrder'
    BY <2>1, ReadOrderKept, OperandsKept DEF OInv, RInv
  <2>4. Chainable(prog)'
    BY <2>2 DEF Chainable, Orderly, NoneEmpty
  <2> QED BY <2>3, <2>4 DEF RInv
<1>2. CASE UNCHANGED vars
  <2>1. /\ prog' = prog /\ issued' = issued /\ opreq' = opreq
        /\ requester' = requester /\ ibuf' = ibuf /\ wrote' = wrote
    BY <1>2 DEF vars, reqVars
  <2>2. Chainable(prog)'
    BY <2>1 DEF Chainable, Orderly, NoneEmpty
  <2>3. \A q : Read(q)' = Read(q)
    BY <2>1, SameProgram, SameFrom DEF Read
  <2>4. ReadOrder'
    <3>1. ASSUME NEW q \in Queues, NEW m \in Users(q), NEW n \in Prog,
                 m < n, Insn(n).vd = Insn(m).src[q]
          PROVE  wrote'[n] <= Read(q)'[m] \/ Read(q)'[m] = words(Insn(m))
      <4>1. wrote[n] <= Read(q)[m] \/ Read(q)[m] = words(Insn(m))
        BY <3>1 DEF RInv, ReadOrder
      <4> QED BY <2>1, <2>3, <4>1
    <3> QED BY <2>1, <3>1, SameProgram, SameFrom DEF ReadOrder
  <2>5. \A n, a : Expected(n, a)' = Expected(n, a)
    BY <2>1, SameExpected
  <2>6. OperandsInOrder'
    BY <2>1, <2>5 DEF RInv, OperandsInOrder
  <2> QED BY <2>2, <2>4, <2>6 DEF RInv
<1> QED BY <1>1, <1>2

(***************************************************************************)
(* Every operand is what it would be if the program were executed one      *)
(* instruction after the other (operand_requester.sv reads a word only     *)
(* after each instruction it waits for wrote one), however the arbiters,   *)
(* the units and the reports of finished instructions delay the reads and  *)
(* the writes, for programs that chain as described above.                 *)
(***************************************************************************)
THEOREM OperandsAlwaysInOrder == Spec /\ Chainable(prog) => []OperandsInOrder
<1> DEFINE Inv == GInv /\ UInv /\ OInv /\ RInv /\ Chainable(prog)
<1>1. Init /\ Chainable(prog) => Inv
  BY InitGInv, InitUInv, InitOInv, InitRInv DEF Chainable, Orderly
<1>2. Inv /\ [Next]_vars => Inv'
  <2> SUFFICES ASSUME Inv, [Next]_vars PROVE Inv'
    OBVIOUS
  <2>1. NoneEmpty(prog) /\ Orderly(prog)
    BY DEF Chainable, Orderly
  <2> QED BY <2>1, NextGInv, NextUInv, NextOInv, NextRInv
<1>3. Inv => OperandsInOrder
  BY DEF RInv
<1> QED BY <1>1, <1>2, <1>3, PTL DEF Spec
=============================================================================
