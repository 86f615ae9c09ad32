-------------------------- MODULE DispatcherProofs --------------------------
(***************************************************************************)
(* Proofs about the dispatcher, for any registers, widths and instructions. *)
(***************************************************************************)
EXTENDS Dispatcher, TLAPS

(***************************************************************************)
(* Whatever the instruction, the cycle pays what it owes: a load without   *)
(* elements is not taken in a cycle in which the load unit has the         *)
(* completion signal.                                                      *)
(***************************************************************************)
LEMMA CompletionPaid ==
    ASSUME NEW complete \in BOOLEAN, NEW zero \in BOOLEAN, NEW taken \in BOOLEAN,
           owed = 0,
           taken => ~(zero /\ complete),
           zero => complete \/ taken,
           LoadCompletes(complete, zero, taken)
    PROVE  owed' = 0
<1>1. CASE complete
  BY <1>1, SMT DEF LoadCompletes
<1>2. CASE ~complete
  BY <1>2, SMT DEF LoadCompletes
<1> QED BY <1>1, <1>2

(***************************************************************************)
(* CVA6 counts its pending loads.  Every one is signalled complete once,   *)
(* even if the load unit and a load without elements want to signal in the *)
(* same cycle (NoLostCompletion).                                          *)
(***************************************************************************)
THEOREM EveryCompletionSignalled == Spec => []NoLostCompletion
<1>1. Init => NoLostCompletion
  BY DEF Init, NoLostCompletion
<1>2. NoLostCompletion /\ [Next]_vars => NoLostCompletion'
  <2> SUFFICES ASSUME owed = 0, [Next]_vars PROVE owed' = 0
    BY DEF NoLostCompletion
  <2>1. CASE UNCHANGED vars
    BY <2>1 DEF vars, accVars
  <2>2. CASE Next
    <3> PICK ready \in BOOLEAN, complete \in BOOLEAN, fin \in SUBSET inflight :
             Cycle(ready, fin, complete)
      BY <2>2 DEF Next
    <3>1. ASSUME LoadCompletes(complete, FALSE, FALSE) PROVE owed' = 0
      BY <3>1, CompletionPaid
    <3>2. CASE Decode(ready, complete)
      <4>1. CASE Config(acc, complete)
        BY <4>1, <3>1 DEF Config
      <4>2. CASE Answered(acc, complete)
        BY <4>2, <3>1 DEF Answered
      <4>3. CASE Illegal(acc, complete)
        BY <4>3, <3>1 DEF Illegal
      <4>4. CASE ZeroVl(acc, complete)
        <5> DEFINE zero == acc.kind \in Load
                   taken == ~(acc.kind \in Load /\ complete)
        <5>1. LoadCompletes(complete, zero, taken)
          BY <4>4 DEF ZeroVl
        <5>2. zero \in BOOLEAN /\ taken \in BOOLEAN
          OBVIOUS
        <5>3. (taken => ~(zero /\ complete)) /\ (zero => complete \/ taken)
          OBVIOUS
        <5> HIDE DEF zero, taken
        <5> QED BY <5>1, <5>2, <5>3, CompletionPaid
      <4>5. CASE Reshuffle(acc, complete)
        BY <4>5, <3>1 DEF Reshuffle
      <4>6. CASE Dispatch(acc, complete)
        BY <4>6, <3>1 DEF Dispatch
      <4> QED BY <3>2, <4>1, <4>2, <4>3, <4>4, <4>5, <4>6 DEF Decode
    <3>3. CASE Hold(ready, complete)
      BY <3>3, <3>1 DEF Hold
    <3>4. CASE Reshuffling(ready, complete)
      BY <3>4, <3>1 DEF Reshuffling
    <3> QED BY <3>2, <3>3, <3>4 DEF Cycle
  <2> QED BY <2>1, <2>2
<1> QED BY <1>1, <1>2, PTL DEF Spec
-----------------------------------------------------------------------------
(***************************************************************************)
(* The table of widths.  The dispatcher looks at the first register of a   *)
(* group, before masks and lengths are known, and at each operand by       *)
(* itself.  What follows is about the programs for which that is enough:   *)
(* every operand lies in one register, no instruction names a register     *)
(* twice, vectors are not empty, and a masked instruction leaves a part of *)
(* its destination to the check.                                           *)
(***************************************************************************)
Fields == {"vd", "vs1", "vs2"}

\* The width of the destination, or of the elements in memory.
Width(i, c) == IF i.kind \in {"load", "store"} THEN i.sew ELSE c.sew

PlainConfig(c) ==
    /\ c.kind = "config"
    /\ c.sew \in EEWs
    /\ c.lmul \in Int /\ c.lmul <= 0
    /\ c.vl \in Nat \ {0}

PlainInsn(i) ==
    /\ i.kind \in {"inlane", "load", "store", "indexed", "scalar"}
    /\ i.kind = "scalar" => i.vd = NoReg
    /\ i.sew \in EEWs
    /\ \A x \in Fields : i[x] \in Regs \cup {NoReg}
    /\ \A x, y \in Fields : x # y /\ i[x] # NoReg => i[x] # i[y]

OneRegister(i, c) ==
    /\ c.vl * 2^Width(i, c) <= VLENB
    /\ i.kind \in {"load", "store"} => c.lmul + (i.sew - c.sew) <= 0
    /\ i.masked => c.vl # Per(Width(i, c))

Plain ==
    \A p \in Programs : \A i \in p :
        \/ PlainConfig(i)
        \/ PlainInsn(i) /\ \A c \in p : c.kind = "config" => OneRegister(i, c)

WidthsFit == \A e \in EEWs : 2^e \in 1..VLENB

-----------------------------------------------------------------------------
(* Elements and registers *)

LEMMA DivMul ==
    ASSUME NEW v \in Nat, NEW k \in Nat \ {0}
    PROVE  v \div k \in Nat /\ (v \div k) * k <= v /\ v < (v \div k) * k + k
<1>1. v \div k \in Nat
  BY SMTT(30)
<1>2. (v \div k) * k <= v
  BY SMTT(30)
<1>3. v < (v \div k) * k + k
  BY SMTT(30)
<1> QED BY <1>1, <1>2, <1>3

LEMMA DivBound ==
    ASSUME NEW v \in Nat, NEW k \in Nat \ {0}, NEW n \in Nat, n * k <= v
    PROVE  n <= v \div k
<1>1. PICK d \in Nat : d = v \div k /\ v < d * k + k
  BY DivMul
<1>2. ASSUME n >= d + 1 PROVE FALSE
  <2>1. n * k >= (d + 1) * k
    BY <1>2, SMTT(20)
  <2>2. (d + 1) * k = d * k + k
    BY SMTT(20)
  <2>3. n * k \in Int /\ d * k \in Int
    BY SMTT(20)
  <2> QED BY <1>1, <2>1, <2>2, <2>3
<1> QED BY <1>1, <1>2

\* The elements that fit a register lie in that register.
LEMMA SpanOne ==
    ASSUME NEW r \in Regs, NEW e, 2^e \in Nat \ {0}, NEW n \in Nat,
           n * 2^e <= VLENB
    PROVE  /\ Per(e) \in Nat /\ n <= Per(e)
           /\ n > 0 => Span(r, n, e) = {r}
           /\ n = 0 => Span(r, n, e) = {}
<1>1. Per(e) \in Nat /\ n <= Per(e)
  BY RegsAssumption, DivMul, DivBound DEF Per
<1>2. r # NoReg
  BY RegsAssumption DEF Regs, NoReg
<1>3. ASSUME NEW x \in Regs, r < x PROVE ~((x - r) * Per(e) < n)
  <2>1. PICK d \in Nat \ {0} : d = x - r
    BY <1>3 DEF Regs
  <2>2. PICK p \in Nat : p = Per(e) /\ n <= p
    BY <1>1
  <2>3. d * p >= p /\ d * p \in Int
    BY SMTT(20)
  <2> QED BY <2>1, <2>2, <2>3
<1>4. (r - r) * Per(e) = 0
  BY <1>1 DEF Regs
<1>5. ASSUME NEW x \in Regs, r <= x, (x - r) * Per(e) < n
      PROVE  x = r /\ n > 0
  <2>1. ~(r < x)
    BY <1>3, <1>5
  <2>2. x = r
    BY <1>5, <2>1 DEF Regs
  <2> QED BY <1>4, <1>5, <2>2
<1>6. n > 0 => r \in Span(r, n, e)
  BY <1>2, <1>4 DEF Span, Regs
<1> QED BY <1>1, <1>2, <1>5, <1>6 DEF Span

LEMMA SpanNone == \A n, e : Span(NoReg, n, e) = {}
BY DEF Span

\* A register is written as a whole by as many elements as fit it.
LEMMA FullRegister ==
    ASSUME WidthsFit, NEW e \in EEWs
    PROVE  /\ 2^e \in Nat \ {0}
           /\ Per(e) \in Nat \ {0} /\ Per(e) * 2^e <= VLENB
<1>1. 2^e \in Nat \ {0} /\ 1 * 2^e <= VLENB
  BY RegsAssumption DEF WidthsFit
<1>2. 1 <= VLENB \div 2^e
  BY <1>1, RegsAssumption, DivBound
<1> QED BY <1>1, <1>2, RegsAssumption, DivMul DEF Per

-----------------------------------------------------------------------------
(* What a plain program asks *)

\* vtype and vl were set by an instruction of the program.
Configured ==
    \E c \in prog : /\ PlainConfig(c)
                    /\ csr = [sew |-> c.sew, lmul |-> c.lmul, vl |-> c.vl]

LEMMA PlainNow ==
    ASSUME Plain, WidthsFit, prog \in Programs, Configured,
           NEW i \in prog, i.kind # "config"
    PROVE  /\ PlainInsn(i)
           /\ csr.sew \in EEWs /\ csr.lmul \in Int /\ csr.lmul <= 0
           /\ csr.vl \in Nat \ {0}
           /\ VSew(i) \in EEWs /\ VSew(i) = Width(i, csr)
           /\ Emul(i) \in Int /\ Emul(i) <= 0 /\ Group(Emul(i)) = 1
           /\ csr.vl * 2^VSew(i) <= VLENB
           /\ i.masked => csr.vl # Per(VSew(i))
           /\ ~NoEffect(i)
<1>1. PICK c \in prog :
        PlainConfig(c) /\ csr = [sew |-> c.sew, lmul |-> c.lmul, vl |-> c.vl]
  BY DEF Configured
<1>2. /\ csr.sew = c.sew /\ csr.lmul = c.lmul /\ csr.vl = c.vl
      /\ c.sew \in EEWs /\ c.lmul \in Int /\ c.lmul <= 0 /\ c.vl \in Nat \ {0}
  BY <1>1 DEF PlainConfig
<1>3. PlainInsn(i) /\ OneRegister(i, c)
  BY <1>1 DEF Plain, PlainConfig
<1>4. VSew(i) = Width(i, c) /\ Width(i, c) = Width(i, csr) /\ VSew(i) \in EEWs
  BY <1>2, <1>3 DEF VSew, Width, PlainInsn, Widening
<1>5. Emul(i) \in Int /\ Emul(i) <= 0
  BY <1>2, <1>3, WidthsAssumption DEF Emul, PlainInsn, OneRegister, EEWs, Widening
<1>6. Group(Emul(i)) = 1
  BY <1>5, WidthsAssumption DEF Group
<1>7. ~NoEffect(i)
  BY <1>2, <1>3 DEF NoEffect, PlainInsn
<1> QED BY <1>2, <1>3, <1>4, <1>5, <1>6, <1>7 DEF OneRegister

\* What becomes of a register when its request is executed: it is ordered by
\* the width it is written with, if nothing of another width is left in it.
LEMMA WrittenPlainly ==
    ASSUME WidthsFit, NEW i, PlainInsn(i), NEW e \in EEWs, NEW n \in Nat \ {0},
           n * 2^e <= VLENB, NEW q, q.vd = i.vd, q.vl = n, q.sew = e,
           ~q.rewrite, q.masked = i.masked, NEW lay,
           i.vd # NoReg => \/ lay[i.vd] \in {Unwritten, e}
                           \/ ~i.masked /\ n = Per(e)
    PROVE  \A r \in Regs : Written(q, lay)[r] = IF r = i.vd THEN e ELSE lay[r]
<1> SUFFICES ASSUME NEW r \in Regs
             PROVE  Written(q, lay)[r] = IF r = i.vd THEN e ELSE lay[r]
  OBVIOUS
<1>1. i.vd \in Regs \cup {NoReg} /\ NoReg \notin Regs
  BY DEF PlainInsn, Fields, Regs, NoReg
<1>2. CASE i.vd = NoReg
  BY <1>1, <1>2, SpanNone DEF Written
<1>3. CASE i.vd \in Regs
  <2>1. 2^e \in Nat \ {0} /\ Per(e) \in Nat
    BY FullRegister
  <2>2. Span(i.vd, n, e) = {i.vd}
    BY <1>3, <2>1, SpanOne
  <2>3. CASE r # i.vd
    BY <2>2, <2>3 DEF Written
  <2>4. CASE r = i.vd
    <3>1. (r - q.vd + 1) * Per(e) = Per(e)
      BY <1>3, <2>1, <2>4 DEF Regs
    <3>2. \/ lay[r] \in {Unwritten, q.sew}
          \/ ~q.masked /\ (r - q.vd + 1) * Per(q.sew) <= q.vl
      BY <1>1, <1>3, <2>1, <2>4, <3>1
    <3> QED BY <2>2, <2>4, <3>2 DEF Written
  <2> QED BY <2>3, <2>4
<1> QED BY <1>1, <1>2, <1>3

\* A rewrite orders a register by its new width, if it had the old one.
LEMMA WrittenAnew ==
    ASSUME WidthsFit, NEW q, q.vd \in Regs, q.sew \in EEWs, q.vl = Per(q.sew),
           q.rewrite, ~q.masked, NEW lay, lay[q.vd] \in {Unwritten, q.eew_vs2}
    PROVE  \A r \in Regs : Written(q, lay)[r] = IF r = q.vd THEN q.sew ELSE lay[r]
<1> SUFFICES ASSUME NEW r \in Regs
             PROVE  Written(q, lay)[r] = IF r = q.vd THEN q.sew ELSE lay[r]
  OBVIOUS
<1>1. /\ 2^q.sew \in Nat \ {0} /\ q.vl \in Nat \ {0}
      /\ q.vl * 2^q.sew <= VLENB /\ Per(q.sew) \in Nat
  BY FullRegister
<1>2. Span(q.vd, q.vl, q.sew) = {q.vd}
  BY <1>1, SpanOne
<1>3. CASE r # q.vd
  BY <1>2, <1>3 DEF Written
<1>4. CASE r = q.vd
  <2>1. (r - q.vd + 1) * Per(q.sew) <= q.vl
    BY <1>1, <1>4 DEF Regs
  <2> QED BY <1>2, <1>4, <2>1 DEF Written
<1> QED BY <1>3, <1>4

\* The table after a plain instruction, or a rewrite.
LEMMA OneEntry ==
    ASSUME NEW r \in Regs \cup {NoReg}, NEW m, Group(m) = 1, NEW e,
           TypeOK, UpdateEEW(r, m, e)
    PROVE  /\ \A x \in Regs : /\ eew'[x] = IF x = r THEN e ELSE eew[x]
                              /\ eew_valid'[x] = (x = r \/ eew_valid[x])
           /\ e \in EEWs => eew' \in [Regs -> EEWs]
           /\ eew_valid' \in [Regs -> BOOLEAN]
<1> DEFINE G == {x \in Regs : r # NoReg /\ r <= x /\ x < r + Group(m)}
<1>1. \A x \in Regs : x \in G <=> x = r
  BY DEF Regs, NoReg
<1>2. /\ eew' = [x \in Regs |-> IF x \in G THEN e ELSE eew[x]]
      /\ eew_valid' = [x \in Regs |-> x \in G \/ eew_valid[x]]
  BY DEF UpdateEEW
<1> HIDE DEF G
<1> QED BY <1>1, <1>2 DEF TypeOK

-----------------------------------------------------------------------------
(***************************************************************************)
(* The invariant: the table says how the bytes of a register will lie, or  *)
(* that it has none; and a reshuffle in progress is about operands of the  *)
(* instruction on offer, from the width the table has for the next one.    *)
(***************************************************************************)
Table ==
    \A r \in Regs : IF eew_valid[r] THEN Settled[r] \in {Unwritten, eew[r]}
                    ELSE Settled[r] = Unwritten

Reshuffled ==
    state = "RESHUFFLE" =>
        /\ acc \in prog /\ acc.kind # "config" /\ acc # NoInsn
        /\ \A x \in rs.req : acc[x] \in Regs
        /\ rs.vs = acc[First(rs.req)] /\ rs.old = eew[rs.vs]
        /\ rs.cnt = 0 /\ rs.limit = 0 /\ rs.mask = FALSE

RsShape ==
    rs = [req |-> rs.req, old |-> rs.old, new |-> rs.new, vs |-> rs.vs,
          cnt |-> rs.cnt, limit |-> rs.limit, mask |-> rs.mask]

DInv == TypeOK /\ RsShape /\ Configured /\ Table /\ Reshuffled

\* Parts of a cycle that all branches share.
LEMMA SettledType ==
    ASSUME TypeOK
    PROVE  /\ Settled \in [Regs -> EEWs \cup {Unwritten, Mixed}]
           /\ layout \in [Regs -> EEWs \cup {Unwritten, Mixed}]
<1>1. CASE ara_req = NoReq
  BY <1>1 DEF Settled, TypeOK
<1>2. CASE ara_req # NoReq
  <2>1. ara_req.sew \in EEWs /\ layout \in [Regs -> EEWs \cup {Unwritten, Mixed}]
    BY <1>2 DEF TypeOK
  <2>2. Written(ara_req, layout) \in [Regs -> EEWs \cup {Unwritten, Mixed}]
    BY <2>1 DEF Written
  <2> QED BY <1>2, <2>1, <2>2 DEF Settled
<1> QED BY <1>1, <1>2

LEMMA OutputsType ==
    ASSUME TypeOK, NEW a \in BOOLEAN, NEW b \in BOOLEAN, Outputs(a, b),
           prog' = prog
    PROVE  /\ acc' \in prog' \cup {NoInsn}
           /\ out' \in [ready : BOOLEAN, valid : BOOLEAN]
           /\ ~a /\ acc # NoInsn => acc' = acc
BY DEF Outputs, TypeOK

LEMMA OwedType ==
    ASSUME TypeOK, NEW a, NEW b, NEW c, LoadCompletes(a, b, c)
    PROVE  owed' \in Int
BY DEF LoadCompletes, TypeOK

LEMMA TableSame ==
    ASSUME Table, UNCHANGED eewVars, Settled' = Settled
    PROVE  Table'
BY DEF Table, eewVars

LEMMA TableEntry ==
    ASSUME Table, NEW r, NEW e,
           \A x \in Regs : Settled'[x] = IF x = r THEN e ELSE Settled[x],
           \A x \in Regs : /\ eew'[x] = IF x = r THEN e ELSE eew[x]
                           /\ eew_valid'[x] = (x = r \/ eew_valid[x])
    PROVE  Table'
<1>1. ASSUME NEW x \in Regs
      PROVE  IF eew_valid'[x] THEN Settled'[x] \in {Unwritten, eew'[x]}
             ELSE Settled'[x] = Unwritten
  <2>1. CASE x = r
    <3>1. eew_valid'[x] = TRUE /\ Settled'[x] = e /\ eew'[x] = e
      BY <2>1
    <3> QED BY <3>1
  <2>2. CASE x # r
    <3>1. /\ eew_valid'[x] = (FALSE \/ eew_valid[x]) /\ Settled'[x] = Settled[x]
          /\ eew'[x] = eew[x]
      BY <2>2
    <3>2. IF eew_valid[x] THEN Settled[x] \in {Unwritten, eew[x]}
          ELSE Settled[x] = Unwritten
      BY DEF Table
    <3> QED BY <3>1, <3>2
  <2> QED BY <2>1, <2>2
<1> QED BY <1>1 DEF Table

\* An instruction whose destination needs no reshuffle may write it.
LEMMA DestinationFits ==
    ASSUME Plain, WidthsFit, DInv, NEW i \in prog, i.kind # "config",
           "vd" \notin reshuffle_req(i), i.vd # NoReg
    PROVE  \/ Settled[i.vd] \in {Unwritten, VSew(i)}
           \/ ~i.masked /\ csr.vl = Per(VSew(i))
<1>1. prog \in Programs /\ eew_valid \in [Regs -> BOOLEAN]
  BY DEF DInv, TypeOK
<1>2. PlainInsn(i) /\ (i.masked => csr.vl # Per(VSew(i)))
  BY <1>1, PlainNow DEF DInv
<1>3. i.vd \in Regs
  BY <1>2 DEF PlainInsn, Fields
<1>4. ~(Mismatch(i.vd, VSew(i)) /\ csr.vl # Per(VSew(i)))
  BY DEF reshuffle_req
<1>5. CASE csr.vl = Per(VSew(i))
  <2>1. CASE ~i.masked
    BY <1>5, <2>1
  <2>2. CASE i.masked
    BY <1>2, <1>5, <2>2
  <2> QED BY <2>1, <2>2
<1>6. CASE csr.vl # Per(VSew(i))
  <2>1. ~(eew_valid[i.vd] /\ eew[i.vd] # VSew(i))
    BY <1>3, <1>4, <1>6 DEF Mismatch
  <2>2. IF eew_valid[i.vd] THEN Settled[i.vd] \in {Unwritten, eew[i.vd]}
        ELSE Settled[i.vd] = Unwritten
    BY <1>3 DEF DInv, Table
  <2> QED BY <2>1, <2>2
<1> QED BY <1>5, <1>6

LEMMA RequestKind ==
    ASSUME Plain, WidthsFit, DInv, NEW i \in prog, i.kind # "config"
    PROVE  /\ Vl(i) \in Nat \ {0} /\ Vl(i) * 2^VSew(i) <= VLENB
           /\ i.vd # NoReg => Vl(i) = csr.vl
           /\ Request(i) # NoReq
<1>1. prog \in Programs
  BY DEF DInv, TypeOK
<1>2. /\ PlainInsn(i) /\ VSew(i) \in EEWs /\ csr.vl \in Nat \ {0}
      /\ csr.vl * 2^VSew(i) <= VLENB
  BY <1>1, PlainNow DEF DInv
<1>3. 2^VSew(i) \in Nat \ {0} /\ 1 * 2^VSew(i) <= VLENB
  BY <1>2, RegsAssumption DEF WidthsFit
<1>4. Vl(i) = IF i.kind = "scalar" THEN 1 ELSE csr.vl
  BY <1>2 DEF Vl, PlainInsn
<1>5. Vl(i) \in Nat \ {0} /\ Vl(i) * 2^VSew(i) <= VLENB
  BY <1>2, <1>3, <1>4
<1>6. Request(i).vl = Vl(i) /\ NoReq.vl = 0
  BY DEF Request, NoReq
<1>7. Request(i) # NoReq
  BY <1>5, <1>6
<1> QED BY <1>2, <1>4, <1>5, <1>7 DEF PlainInsn

LEMMA DispatchKeeps ==
    ASSUME Plain, WidthsFit, DInv, prog' = prog, layout' = Settled,
           NEW complete, acc \in prog, Dispatch(acc, complete),
           state # "RESHUFFLE"
    PROVE  DInv'
<1> DEFINE i == acc
           q == Request(i)
<1>1. /\ i.kind # "config" /\ i \in prog /\ reshuffle_req(i) = {}
      /\ ara_req' = q /\ UpdateEEW(i.vd, Emul(i), VSew(i))
      /\ Outputs(~Waits(i), ~Waits(i)) /\ LoadCompletes(complete, FALSE, FALSE)
      /\ state' = "NORMAL_OPERATION" /\ UNCHANGED <<csr, rs>>
  BY DEF Dispatch, Offer
<1>2. /\ TypeOK /\ prog \in Programs /\ Configured
  BY DEF DInv, TypeOK
<1>3. /\ PlainInsn(i) /\ VSew(i) \in EEWs /\ Group(Emul(i)) = 1
      /\ i.vd \in Regs \cup {NoReg}
  BY <1>1, <1>2, PlainNow DEF PlainInsn, Fields
<1>4. /\ Vl(i) \in Nat \ {0} /\ Vl(i) * 2^VSew(i) <= VLENB /\ q # NoReq
      /\ i.vd # NoReg => Vl(i) = csr.vl
  BY <1>1, RequestKind
<1>5. /\ q.vd = i.vd /\ q.vl = Vl(i) /\ q.sew = VSew(i) /\ q.rewrite = FALSE
      /\ q.masked = i.masked
  BY DEF Request
<1>6. /\ \A x \in Regs : /\ eew'[x] = IF x = i.vd THEN VSew(i) ELSE eew[x]
                         /\ eew_valid'[x] = (x = i.vd \/ eew_valid[x])
      /\ eew' \in [Regs -> EEWs] /\ eew_valid' \in [Regs -> BOOLEAN]
  BY <1>1, <1>2, <1>3, OneEntry
<1>7. \A x \in Regs : Settled'[x] = IF x = i.vd THEN VSew(i) ELSE Settled[x]
  <2>1. i.vd # NoReg => \/ Settled[i.vd] \in {Unwritten, VSew(i)}
                        \/ ~i.masked /\ Vl(i) = Per(VSew(i))
    BY <1>1, <1>4, DestinationFits
  <2>2. Settled' = Written(q, Settled)
    BY <1>1, <1>4 DEF Settled
  <2> HIDE DEF q, i
  <2> QED BY <1>3, <1>4, <1>5, <2>1, <2>2, WrittenPlainly
<1>8. Table'
  <2>1. PICK r, e : r = i.vd /\ e = VSew(i)
    OBVIOUS
  <2>2. \A x \in Regs : Settled'[x] = IF x = r THEN e ELSE Settled[x]
    BY <1>7, <2>1
  <2>3. \A x \in Regs : /\ eew'[x] = IF x = r THEN e ELSE eew[x]
                        /\ eew_valid'[x] = (x = r \/ eew_valid[x])
    BY <1>6, <2>1
  <2>4. Table
    BY DEF DInv
  <2> QED BY <2>2, <2>3, <2>4, TableEntry
<1>9. TypeOK'
  <2>1. Waits(i) \in BOOLEAN
    BY DEF Waits
  <2>2. /\ acc' \in prog' \cup {NoInsn} /\ owed' \in Int
        /\ out' \in [ready : BOOLEAN, valid : BOOLEAN]
    BY <1>1, <1>2, <2>1, OutputsType, OwedType
  <2>3. layout' \in [Regs -> EEWs \cup {Unwritten, Mixed}]
    BY <1>2, SettledType
  <2>4. ara_req'.sew \in EEWs /\ ara_req'.vd \in Regs \cup {NoReg}
    BY <1>1, <1>3, <1>5
  <2> HIDE DEF q, i
  <2> QED BY <1>1, <1>2, <1>6, <2>2, <2>3, <2>4 DEF TypeOK
<1>10. Configured' /\ Reshuffled' /\ RsShape'
  BY <1>1, <1>2 DEF Configured, Reshuffled, DInv, RsShape
<1> QED BY <1>8, <1>9, <1>10 DEF DInv

\* Nothing is offered, and the table stays.
LEMMA NothingKeeps ==
    ASSUME Plain, WidthsFit, DInv, prog' = prog, layout' = Settled,
           NEW complete, acc \in prog, state # "RESHUFFLE",
           Config(acc, complete) \/ Answered(acc, complete) \/ Illegal(acc, complete)
    PROVE  DInv'
<1>1. /\ ara_req' = NoReq /\ UNCHANGED eewVars /\ UNCHANGED rs
      /\ state' \in {"NORMAL_OPERATION", "WAIT_IDLE"}
      /\ LoadCompletes(complete, FALSE, FALSE)
      /\ \E a, b \in BOOLEAN : Outputs(a, b)
  <2>1. CASE Config(acc, complete)
    BY <2>1 DEF Config, Offer
  <2>2. CASE Answered(acc, complete)
    BY <2>2 DEF Answered, Offer
  <2>3. CASE Illegal(acc, complete)
    <3>1. (~Waits(acc)) \in BOOLEAN /\ (acc.kind # "scalar") \in BOOLEAN
      OBVIOUS
    <3> QED BY <2>3, <3>1 DEF Illegal, Offer
  <2> QED BY <2>1, <2>2, <2>3
<1>2. Settled' = Settled
  BY <1>1 DEF Settled
<1>3. Table'
  BY <1>1, <1>2, TableSame DEF DInv
<1>4. Configured' /\ csr'.sew \in EEWs /\ csr'.lmul <= MaxLMUL /\ csr'.vl \in Nat
  <2>1. CASE Config(acc, complete)
    <3>1. acc.kind = "config" /\ csr' = [sew |-> acc.sew, lmul |-> acc.lmul, vl |-> acc.vl]
      BY <2>1 DEF Config
    <3>2. PlainConfig(acc)
      BY <3>1 DEF Plain, PlainInsn, DInv, TypeOK
    <3> QED BY <3>1, <3>2, WidthsAssumption DEF Configured, PlainConfig
  <2>2. CASE Answered(acc, complete) \/ Illegal(acc, complete)
    <3>1. csr' = csr
      BY <2>2 DEF Answered, Illegal
    <3> QED BY <3>1 DEF DInv, TypeOK, Configured
  <2> QED BY <2>1, <2>2
<1>5. TypeOK'
  <2>1. /\ acc' \in prog' \cup {NoInsn} /\ owed' \in Int
        /\ out' \in [ready : BOOLEAN, valid : BOOLEAN]
    BY <1>1, OutputsType, OwedType DEF DInv
  <2>2. layout' \in [Regs -> EEWs \cup {Unwritten, Mixed}]
    BY SettledType DEF DInv
  <2> QED BY <1>1, <1>4, <2>1, <2>2 DEF DInv, TypeOK, eewVars
<1>6. Reshuffled' /\ RsShape'
  BY <1>1 DEF Reshuffled, DInv, RsShape
<1> QED BY <1>3, <1>4, <1>5, <1>6 DEF DInv

LEMMA FirstOf ==
    ASSUME NEW S \in SUBSET Fields, S # {}
    PROVE  First(S) \in S
BY DEF First, Fields

LEMMA ReshuffleKeeps ==
    ASSUME Plain, WidthsFit, DInv, prog' = prog, layout' = Settled,
           NEW complete, acc \in prog, Reshuffle(acc, complete)
    PROVE  DInv'
<1> DEFINE S == reshuffle_req(acc)
           x == First(S)
<1>1. /\ acc.kind # "config" /\ S # {} /\ StartReshuffle(acc, S)
      /\ ara_req' = NoReq /\ Outputs(FALSE, FALSE)
      /\ LoadCompletes(complete, FALSE, FALSE) /\ UNCHANGED <<csr, eewVars>>
  BY DEF Reshuffle, Offer
<1>2. TypeOK /\ prog \in Programs /\ Configured
  BY DEF DInv, TypeOK
<1>3. /\ PlainInsn(acc) /\ VSew(acc) \in EEWs /\ csr.sew \in EEWs
      /\ Group(Emul(acc)) = 1
  BY <1>1, <1>2, PlainNow
<1>4. S \subseteq Fields /\ \A y \in S : acc[y] \in Regs
  <2>1. \A y \in S : y \in Fields /\ acc[y] # NoReg
    BY DEF reshuffle_req, Mismatch, Fields
  <2> QED BY <1>3, <2>1 DEF PlainInsn
<1>5. x \in S /\ x \in Fields /\ acc[x] \in Regs
  BY <1>1, <1>4, FirstOf
<1>6. eew \in [Regs -> EEWs] /\ \A r \in Regs : eew[r] \in EEWs
  BY <1>2 DEF TypeOK
\* A store asks for no reshuffle of its source, an indexed load neither.
<1>7. /\ x = "vs1" => EewVs1(acc) \in EEWs
      /\ x = "vs2" => EewVs2(acc) \in EEWs
  <2>1. x # "vd" => acc.kind = "inlane"
    BY <1>3, <1>5 DEF reshuffle_req, InLane, PlainInsn, Fields, Widening
  <2> QED BY <1>3, <2>1 DEF EewVs1, EewVs2
<1>8. /\ rs'.req = S /\ rs'.old = eew[acc[x]] /\ rs'.new \in EEWs
      /\ rs'.vs = acc[x] /\ rs'.cnt = 0 /\ rs'.limit = 0 /\ rs'.mask = FALSE
      /\ state' = "RESHUFFLE" /\ RsShape'
  <2>1. x \in {"vd", "vs1", "vs2"}
    BY <1>5 DEF Fields
  <2> HIDE DEF S, x
  <2>2. First(S) = x
    BY DEF x
  <2>3. Group(Emul(acc)) - 1 = 0
    BY <1>3
  <2> QED BY <1>1, <1>3, <1>7, <2>1, <2>2, <2>3 DEF StartReshuffle, RsShape
<1>9. acc # NoInsn
  BY <1>3 DEF PlainInsn, NoInsn
<1>10. /\ acc' = acc /\ owed' \in Int
       /\ out' \in [ready : BOOLEAN, valid : BOOLEAN]
  BY <1>1, <1>2, <1>9, OutputsType, OwedType
<1> HIDE DEF S, x
<1>11. Settled' = Settled
  BY <1>1 DEF Settled
<1>12. Table'
  BY <1>1, <1>11, TableSame DEF DInv
<1>13. TypeOK'
  <2>1. layout' \in [Regs -> EEWs \cup {Unwritten, Mixed}]
    BY <1>2, SettledType
  <2>2. 0 \in 0..0 /\ 0 < NrRegs
    BY RegsAssumption
  <2> QED BY <1>1, <1>2, <1>4, <1>5, <1>6, <1>8, <1>10, <2>1, <2>2
          DEF TypeOK, eewVars, Fields
<1>14. Reshuffled'
  BY <1>1, <1>4, <1>8, <1>9, <1>10 DEF Reshuffled, eewVars, x
<1>15. Configured'
  BY <1>1, <1>2 DEF Configured
<1> QED BY <1>8, <1>12, <1>13, <1>14, <1>15 DEF DInv

LEMMA HoldKeeps ==
    ASSUME Plain, WidthsFit, DInv, prog' = prog, NEW complete,
           NEW ready \in BOOLEAN, layout' = IF ready THEN Settled ELSE layout,
           Hold(ready, complete)
    PROVE  DInv'
<1>1. /\ state # "RESHUFFLE" /\ ara_req' = IF ready THEN NoReq ELSE ara_req
      /\ state' \in {"NORMAL_OPERATION", "WAIT_IDLE"} /\ Outputs(FALSE, FALSE)
      /\ LoadCompletes(complete, FALSE, FALSE) /\ UNCHANGED <<csr, eewVars, rs>>
  BY DEF Hold, Offer
<1>2. TypeOK
  BY DEF DInv
<1>3. Settled' = Settled
  BY <1>1 DEF Settled, Written
<1>4. Table'
  BY <1>1, <1>3, TableSame DEF DInv
<1>5. TypeOK'
  <2>1. /\ acc' \in prog' \cup {NoInsn} /\ owed' \in Int
        /\ out' \in [ready : BOOLEAN, valid : BOOLEAN]
    BY <1>1, <1>2, OutputsType, OwedType
  <2>2. layout' \in [Regs -> EEWs \cup {Unwritten, Mixed}]
    BY <1>2, SettledType
  <2> QED BY <1>1, <1>2, <2>1, <2>2 DEF TypeOK, eewVars
<1>6. Configured' /\ Reshuffled' /\ RsShape'
  BY <1>1 DEF DInv, Configured, Reshuffled, RsShape
<1> QED BY <1>4, <1>5, <1>6 DEF DInv

\* A rewrite was offered, or not yet; the next operand is another register.
LEMMA ReshufflingKeeps ==
    ASSUME Plain, WidthsFit, DInv, prog' = prog, NEW complete,
           NEW ready \in BOOLEAN, layout' = IF ready THEN Settled ELSE layout,
           Reshuffling(ready, complete)
    PROVE  DInv'
<1>1. /\ state = "RESHUFFLE" /\ UNCHANGED csr /\ Outputs(FALSE, FALSE)
      /\ LoadCompletes(complete, FALSE, FALSE)
  BY DEF Reshuffling
<1>2. TypeOK /\ prog \in Programs /\ Configured /\ Table /\ RsShape
  BY DEF DInv, TypeOK
<1>3. /\ acc \in prog /\ acc.kind # "config" /\ acc # NoInsn
      /\ \A x \in rs.req : acc[x] \in Regs
      /\ rs.vs = acc[First(rs.req)] /\ rs.old = eew[rs.vs]
      /\ rs.cnt = 0 /\ rs.limit = 0 /\ rs.mask = FALSE
  BY <1>1 DEF DInv, Reshuffled
<1>4. /\ rs.req \subseteq Fields /\ rs.req # {} /\ rs.old \in EEWs
      /\ rs.new \in EEWs /\ rs.vs \in Regs
      /\ eew \in [Regs -> EEWs] /\ csr.sew \in EEWs
  BY <1>1, <1>2 DEF TypeOK, Fields
<1>5. PlainInsn(acc) /\ csr.lmul \in Int /\ csr.lmul <= 0
  BY <1>2, <1>3, PlainNow
<1>6. acc' = acc /\ owed' \in Int /\ out' \in [ready : BOOLEAN, valid : BOOLEAN]
  BY <1>1, <1>2, <1>3, OutputsType, OwedType
<1>7. layout' \in [Regs -> EEWs \cup {Unwritten, Mixed}]
  BY <1>2, SettledType
<1>8. Configured'
  BY <1>1, <1>2 DEF Configured
<1>9. CASE ~ready
  <2>1. /\ ara_req' = ara_req /\ UNCHANGED eewVars /\ UNCHANGED state
        /\ rs' = [rs EXCEPT !.mask = FALSE]
    BY <1>9 DEF Reshuffling, Offer
  <2>2. /\ rs'.req = rs.req /\ rs'.old = rs.old /\ rs'.new = rs.new
        /\ rs'.vs = rs.vs /\ rs'.cnt = 0 /\ rs'.limit = 0 /\ rs'.mask = FALSE
        /\ RsShape'
    BY <1>2, <1>3, <2>1 DEF RsShape
  <2>3. Table'
    <3>1. Settled' = Settled
      BY <1>9, <2>1 DEF Settled, Written
    <3> QED BY <1>2, <2>1, <3>1, TableSame
  <2>4. TypeOK'
    BY <1>1, <1>2, <1>4, <1>6, <1>7, <2>1, <2>2, RegsAssumption DEF TypeOK, eewVars
  <2>5. Reshuffled'
    BY <1>3, <1>6, <2>1, <2>2 DEF Reshuffled, eewVars
  <2> QED BY <1>8, <2>2, <2>3, <2>4, <2>5 DEF DInv
<1>10. CASE ready
  <2> DEFINE left == rs.req \ {First(rs.req)}
  <2>1. /\ ara_req' = Rewrite /\ UpdateEEW(rs.vs, csr.lmul, rs.new)
        /\ NextOperand /\ layout' = Settled
    BY <1>3, <1>10 DEF Reshuffling, Offer
  <2>2. /\ \A x \in Regs : /\ eew'[x] = IF x = rs.vs THEN rs.new ELSE eew[x]
                           /\ eew_valid'[x] = (x = rs.vs \/ eew_valid[x])
        /\ eew' \in [Regs -> EEWs] /\ eew_valid' \in [Regs -> BOOLEAN]
    <3>1. Group(csr.lmul) = 1
      BY <1>5, WidthsAssumption DEF Group
    <3> QED BY <1>2, <1>4, <2>1, <3>1, OneEntry
  <2>3. \A x \in Regs : Settled'[x] = IF x = rs.vs THEN rs.new ELSE Settled[x]
    <3>1. PICK q : q = Rewrite
      OBVIOUS
    <3>2. /\ q.vd = rs.vs /\ q.sew = rs.new /\ q.vl = Per(q.sew)
          /\ q.eew_vs2 = rs.old /\ q.rewrite = TRUE /\ q.masked = FALSE
      BY <3>1 DEF Rewrite, NoReq
    <3>3. q # NoReq
      BY <3>2 DEF NoReq
    <3>4. Settled' = Written(q, Settled)
      BY <2>1, <3>1, <3>3 DEF Settled
    <3>5. Settled[q.vd] \in {Unwritten, q.eew_vs2}
      BY <1>2, <1>3, <1>4, <3>2 DEF Table
    <3> QED BY <1>4, <3>2, <3>4, <3>5, WrittenAnew
  <2>4. Table'
    <3>1. PICK r, e : r = rs.vs /\ e = rs.new
      OBVIOUS
    <3>2. \A x \in Regs : Settled'[x] = IF x = r THEN e ELSE Settled[x]
      BY <2>3, <3>1
    <3>3. \A x \in Regs : /\ eew'[x] = IF x = r THEN e ELSE eew[x]
                          /\ eew_valid'[x] = (x = r \/ eew_valid[x])
      BY <2>2, <3>1
    <3> QED BY <1>2, <3>2, <3>3, TableEntry
  <2>5. ara_req'.sew \in EEWs /\ ara_req'.vd \in Regs
    <3>1. Rewrite.sew = rs.new /\ Rewrite.vd = rs.vs
      BY DEF Rewrite, NoReq
    <3> QED BY <1>4, <2>1, <3>1
  <2>6. CASE left = {}
    <3>1. state' = "NORMAL_OPERATION" /\ rs' = RsIdle
      BY <2>1, <2>6 DEF NextOperand
    <3>2. /\ rs'.req = {} /\ rs'.old \in EEWs /\ rs'.new \in EEWs /\ rs'.vs \in Regs
          /\ rs'.cnt \in 0..rs'.limit /\ rs'.limit < NrRegs /\ RsShape'
      BY <3>1, RegsAssumption, WidthsAssumption DEF RsIdle, EEWs, Regs, RsShape
    <3>3. TypeOK'
      BY <1>1, <1>2, <1>6, <1>7, <2>2, <2>5, <3>1, <3>2 DEF TypeOK
    <3>4. Reshuffled'
      BY <3>1 DEF Reshuffled
    <3> QED BY <1>8, <2>4, <3>2, <3>3, <3>4 DEF DInv
  <2>7. CASE left # {}
    <3> DEFINE x == First(left)
    <3>1. /\ left \subseteq Fields /\ x \in left /\ x \in rs.req
          /\ First(rs.req) \in rs.req /\ x # First(rs.req)
      BY <1>4, <2>7, FirstOf
    <3>2. acc[x] \in Regs /\ acc[x] # rs.vs
      BY <1>3, <1>4, <1>5, <3>1 DEF PlainInsn, Regs, NoReg
    <3>3. Operand(x) = {acc[x]}
      BY <1>3, <3>2 DEF Operand, Regs, NoReg
    <3>4. /\ UNCHANGED state
          /\ rs' = [rs EXCEPT !.req = left, !.old = eew[acc[x]],
                              !.new = NextWidth(x), !.vs = acc[x], !.cnt = 0,
                              !.mask = FALSE]
      BY <2>1, <2>7, <3>3 DEF NextOperand
    <3>5. /\ rs'.req = left /\ rs'.old = eew[acc[x]] /\ rs'.new = NextWidth(x)
          /\ rs'.vs = acc[x] /\ rs'.cnt = 0 /\ rs'.limit = 0 /\ rs'.mask = FALSE
          /\ RsShape'
      <4> HIDE DEF left, x
      <4> QED BY <1>2, <1>3, <3>4 DEF RsShape
    <3>6. NextWidth(x) \in EEWs
      BY <1>4, <3>1 DEF NextWidth, Fields
    <3>7. eew'[acc[x]] = eew[acc[x]] /\ eew[acc[x]] \in EEWs
      BY <1>4, <2>2, <3>2
    <3> HIDE DEF left, x
    <3>8. TypeOK'
      <4>1. 0 \in 0..0 /\ 0 < NrRegs
        BY RegsAssumption
      <4> QED BY <1>1, <1>2, <1>6, <1>7, <2>2, <2>5, <2>7, <3>1, <3>2, <3>4, <3>5,
                 <3>6, <3>7, <4>1 DEF TypeOK, Fields
    <3>9. Reshuffled'
      BY <1>3, <1>6, <3>1, <3>5, <3>7 DEF Reshuffled, left, x
    <3> QED BY <1>8, <2>4, <3>5, <3>8, <3>9 DEF DInv
  <2> QED BY <2>6, <2>7
<1> QED BY <1>9, <1>10

LEMMA StartsSound ==
    ASSUME Plain, WidthsFit, Init
    PROVE  DInv
<1>1. TypeOK
  <2>1. PICK i \in prog : /\ i.kind = "config"
                          /\ csr = [sew |-> i.sew, lmul |-> i.lmul, vl |-> i.vl]
    BY DEF Init
  <2>2. PlainConfig(i) /\ prog \in Programs
    BY <2>1 DEF Plain, PlainInsn, Init
  <2>3. csr.sew \in EEWs /\ csr.lmul <= MaxLMUL /\ csr.vl \in Nat
    BY <2>1, <2>2, WidthsAssumption DEF PlainConfig
  <2>4. 0 \in EEWs /\ 0 \in Regs /\ 0 \in 0..0 /\ 0 < NrRegs
    BY RegsAssumption, WidthsAssumption DEF EEWs, Regs
  <2> QED BY <2>2, <2>3, <2>4 DEF Init, TypeOK, RsIdle, Quiet
<1>2. Configured
  BY DEF Init, Configured, Plain, PlainInsn
<1>3. Table
  BY DEF Init, Table, Settled
<1>4. RsShape /\ Reshuffled
  BY DEF Init, RsShape, RsIdle, Reshuffled
<1> QED BY <1>1, <1>2, <1>3, <1>4 DEF DInv

LEMMA StaysSound ==
    ASSUME Plain, WidthsFit, DInv, [Next]_vars
    PROVE  DInv'
<1>1. CASE UNCHANGED vars
  <2>1. Settled' = Settled
    BY <1>1 DEF vars, backendVars, Settled, Written
  <2> QED BY <1>1, <2>1 DEF vars, accVars, eewVars, backendVars, DInv, TypeOK,
             RsShape, Configured, Table, Reshuffled
<1>2. CASE Next
  <2>1. PICK ready, complete \in BOOLEAN, fin \in SUBSET inflight :
        Cycle(ready, fin, complete)
    BY <1>2 DEF Next
  <2>2. prog' = prog /\ layout' = IF ready THEN Settled ELSE layout
    BY <2>1 DEF Cycle, Backend
  <2>3. CASE Decode(ready, complete)
    <3>1. ready = TRUE /\ state # "RESHUFFLE" /\ acc \in prog
      BY <2>3 DEF Decode, Decoding, DInv, TypeOK
    <3>2. ~ZeroVl(acc, complete)
      <4>1. acc.kind # "config" => ~NoEffect(acc)
        BY <3>1, PlainNow DEF DInv, TypeOK
      <4> QED BY <4>1 DEF ZeroVl
    <3>3. CASE Reshuffle(acc, complete)
      BY <2>2, <3>1, <3>3, ReshuffleKeeps
    <3>4. CASE Dispatch(acc, complete)
      BY <2>2, <3>1, <3>4, DispatchKeeps
    <3>5. CASE \/ Config(acc, complete) \/ Answered(acc, complete)
               \/ Illegal(acc, complete)
      BY <2>2, <3>1, <3>5, NothingKeeps
    <3> QED BY <2>3, <3>2, <3>3, <3>4, <3>5 DEF Decode
  <2>4. CASE Hold(ready, complete)
    BY <2>2, <2>4, HoldKeeps
  <2>5. CASE Reshuffling(ready, complete)
    BY <2>2, <2>5, ReshufflingKeeps
  <2> QED BY <2>1, <2>3, <2>4, <2>5 DEF Cycle
<1> QED BY <1>1, <1>2

(***************************************************************************)
(* For every plain program the table of element widths is right: the width *)
(* noted for a register is the one its bytes are ordered by once the       *)
(* request on offer is executed, through every reshuffle.                  *)
(***************************************************************************)
THEOREM TableAlwaysSound ==
    ASSUME Plain, WidthsFit
    PROVE  Spec => []TableSound
<1>1. Init => DInv
  BY StartsSound
<1>2. DInv /\ [Next]_vars => DInv'
  BY StaysSound
<1>3. DInv => TableSound
  <2> SUFFICES ASSUME DInv, NEW r \in Regs, eew_valid[r]
               PROVE  TypeOK /\ Settled[r] \in {Unwritten, eew[r]}
    BY DEF TableSound, TableMatchesLayout, DInv
  <2> QED BY DEF DInv, Table
<1> QED BY <1>1, <1>2, <1>3, PTL DEF Spec

-----------------------------------------------------------------------------
(***************************************************************************)
(* Reading.  In-lane operations and stores read registers in the lanes; a  *)
(* load reads none, unless by indices, and nobody checks the width of a    *)
(* register of indices or of a scalar move.                                *)
(***************************************************************************)
ReadsInLanes ==
    \A p \in Programs : \A i \in p :
        /\ i.kind \in {"config", "inlane", "load", "store"}
        /\ i.kind = "load" => i.vs1 = NoReg
        /\ i.kind \in {"load", "store"} => i.vs2 = NoReg

LEMMA SpanWithin ==
    ASSUME WidthsFit, NEW r \in Regs \cup {NoReg}, NEW e \in EEWs, NEW n \in Nat,
           n * 2^e <= VLENB
    PROVE  Span(r, n, e) \subseteq {r} \ {NoReg}
<1>1. CASE r = NoReg
  BY <1>1, SpanNone
<1>2. CASE r \in Regs
  <2>1. 2^e \in Nat \ {0} /\ r # NoReg
    BY <1>2, FullRegister DEF Regs, NoReg
  <2>2. Span(r, n, e) \in {{r}, {}}
    BY <1>2, <2>1, SpanOne
  <2> QED BY <2>1, <2>2
<1> QED BY <1>1, <1>2

\* Bytes that fit a register fit it as elements of any width.
LEMMA BytesFit ==
    ASSUME WidthsFit, NEW e \in EEWs, NEW b \in Nat, b <= VLENB
    PROVE  b \div 2^e \in Nat /\ (b \div 2^e) * 2^e <= VLENB
<1>1. 2^e \in Nat \ {0}
  BY FullRegister
<1>2. PICK k \in Nat \ {0} : k = 2^e
  BY <1>1
<1>3. b \div k \in Nat /\ (b \div k) * k <= b
  BY DivMul
<1>4. (b \div k) * k \in Int
  BY <1>3, SMTT(20)
<1>5. (b \div k) * k <= VLENB
  BY <1>3, <1>4, RegsAssumption
<1> QED BY <1>2, <1>3, <1>5

\* What a request reads, if each operand lies in one register.
OneEach(q) ==
    /\ q.vl \in Nat /\ q.vl * 2^q.sew \in Nat /\ q.vl * 2^q.sew <= VLENB
    /\ q.vs1 \in Regs \cup {NoReg} /\ q.vs2 \in Regs \cup {NoReg}
    /\ q.vs1 # NoReg => /\ q.eew_vs1 \in EEWs
                        /\ q.scaled \/ q.vl * 2^q.eew_vs1 <= VLENB
    /\ q.vs2 # NoReg => /\ q.eew_vs2 \in EEWs
                        /\ q.scaled \/ q.vl * 2^q.eew_vs2 <= VLENB

LEMMA ReadsTwo ==
    ASSUME WidthsFit, NEW q, OneEach(q)
    PROVE  \A x \in Reads(q) :
              \/ x = <<q.vs1, q.eew_vs1>> /\ q.vs1 # NoReg
              \/ x = <<q.vs2, q.eew_vs2>> /\ q.vs2 # NoReg
<1> DEFINE n(e) == IF q.scaled THEN (q.vl * 2^q.sew) \div 2^e ELSE q.vl
<1>1. /\ \A r \in Span(q.vs1, n(q.eew_vs1), q.eew_vs1) : r = q.vs1 /\ q.vs1 # NoReg
      /\ \A r \in Span(q.vs2, n(q.eew_vs2), q.eew_vs2) : r = q.vs2 /\ q.vs2 # NoReg
  <2>1. ASSUME NEW r \in Regs \cup {NoReg}, NEW e,
               r # NoReg => e \in EEWs /\ (q.scaled \/ q.vl * 2^e <= VLENB)
        PROVE  \A x \in Span(r, n(e), e) : x = r /\ r # NoReg
    <3>1. CASE r = NoReg
      BY <3>1, SpanNone
    <3>2. CASE r # NoReg
      <4>1. e \in EEWs
        BY <2>1, <3>2
      <4>2. n(e) \in Nat /\ n(e) * 2^e <= VLENB
        <5>1. CASE q.scaled
          BY <4>1, <5>1, BytesFit DEF OneEach
        <5>2. CASE ~q.scaled
          BY <2>1, <3>2, <5>2 DEF OneEach
        <5> QED BY <5>1, <5>2
      <4>3. Span(r, n(e), e) \subseteq {r} \ {NoReg}
        <5> HIDE DEF n
        <5> QED BY <4>1, <4>2, SpanWithin
      <4> QED BY <4>3
    <3> QED BY <3>1, <3>2
  <2> HIDE DEF n
  <2>2. \A r \in Span(q.vs1, n(q.eew_vs1), q.eew_vs1) : r = q.vs1 /\ q.vs1 # NoReg
    BY <2>1 DEF OneEach
  <2>3. \A r \in Span(q.vs2, n(q.eew_vs2), q.eew_vs2) : r = q.vs2 /\ q.vs2 # NoReg
    BY <2>1 DEF OneEach
  <2> QED BY <2>2, <2>3
<1>2. Reads(q) = {<<r, q.eew_vs1>> : r \in Span(q.vs1, n(q.eew_vs1), q.eew_vs1)}
          \cup {<<r, q.eew_vs2>> : r \in Span(q.vs2, n(q.eew_vs2), q.eew_vs2)}
  BY DEF Reads
<1> HIDE DEF n
<1> QED BY <1>1, <1>2

LEMMA ReadsSettled ==
    ASSUME Table, NEW r \in Regs, NEW e, ~Mismatch(r, e)
    PROVE  Settled[r] \in {Unwritten, e}
<1>1. r # NoReg
  BY DEF Regs, NoReg
<1>2. eew_valid[r] => eew[r] = e
  BY <1>1 DEF Mismatch
<1>3. IF eew_valid[r] THEN Settled[r] \in {Unwritten, eew[r]}
      ELSE Settled[r] = Unwritten
  BY DEF Table
<1> QED BY <1>2, <1>3

LEMMA RequestReads ==
    ASSUME Plain, WidthsFit, ReadsInLanes, DInv, NEW i \in prog,
           i.kind # "config", reshuffle_req(i) = {}
    PROVE  \A x \in Reads(Request(i)) : Settled[x[1]] \in {Unwritten, x[2]}
<1>1. prog \in Programs /\ Configured /\ Table /\ eew \in [Regs -> EEWs]
  BY DEF DInv, TypeOK
<1>2. /\ PlainInsn(i) /\ VSew(i) \in EEWs /\ VSew(i) = Width(i, csr)
      /\ csr.sew \in EEWs
      /\ csr.vl \in Nat /\ csr.vl * 2^VSew(i) <= VLENB
      /\ 2^VSew(i) \in Nat
  <2>1. 2^VSew(i) \in Nat
    BY <1>1, PlainNow, FullRegister
  <2> QED BY <1>1, <2>1, PlainNow
<1>3. /\ i.kind \in {"inlane", "load", "store"}
      /\ i.kind = "load" => i.vs1 = NoReg
      /\ i.kind \in {"load", "store"} => i.vs2 = NoReg
      /\ i.vs1 \in Regs \cup {NoReg} /\ i.vs2 \in Regs \cup {NoReg}
  BY <1>1, <1>2 DEF ReadsInLanes, PlainInsn, Fields
<1>4. PICK q : q = Request(i)
  OBVIOUS
<1>5. /\ q.vs1 = i.vs1 /\ q.vs2 = i.vs2 /\ q.eew_vs1 = EewVs1(i)
      /\ q.eew_vs2 = EewVs2(i) /\ q.sew = VSew(i) /\ q.vl = csr.vl
      /\ q.scaled = (i.kind = "store")
  BY <1>3, <1>4 DEF Request, Vl
<1>6. csr.vl * 2^VSew(i) \in Nat
  BY <1>2, SMTT(20)
<1>7. CASE i.kind = "inlane"
  <2>1. /\ q.scaled = FALSE /\ VSew(i) = csr.sew
        /\ EewVs1(i) = csr.sew /\ EewVs2(i) = csr.sew
    BY <1>2, <1>5, <1>7 DEF EewVs1, EewVs2, Width
  <2>2. ~Mismatch(i.vs1, csr.sew) /\ ~Mismatch(i.vs2, csr.sew)
    <3>1. "vs1" \notin reshuffle_req(i) /\ "vs2" \notin reshuffle_req(i)
      OBVIOUS
    <3> QED BY <1>7, <2>1, <3>1 DEF reshuffle_req, InLane
  <2>3. \A x \in Reads(q) : \/ x = <<i.vs1, csr.sew>> /\ i.vs1 # NoReg
                            \/ x = <<i.vs2, csr.sew>> /\ i.vs2 # NoReg
    <3>1. OneEach(q)
      BY <1>2, <1>3, <1>5, <1>6, <2>1 DEF OneEach
    <3> QED BY <1>5, <2>1, <3>1, ReadsTwo
  <2>4. /\ i.vs1 # NoReg => Settled[i.vs1] \in {Unwritten, csr.sew}
        /\ i.vs2 # NoReg => Settled[i.vs2] \in {Unwritten, csr.sew}
    BY <1>1, <1>3, <2>2, ReadsSettled
  <2> QED BY <1>4, <2>3, <2>4
<1>8. CASE i.kind = "load"
  <2>1. \A x \in Reads(q) : FALSE
    <3>1. OneEach(q) /\ q.vs1 = NoReg /\ q.vs2 = NoReg
      BY <1>2, <1>3, <1>5, <1>6, <1>8 DEF OneEach
    <3> QED BY <3>1, ReadsTwo
  <2> QED BY <1>4, <2>1
<1>9. CASE i.kind = "store"
  <2>1. i.vs2 = NoReg /\ q.scaled = TRUE
    BY <1>3, <1>5, <1>9
  <2>2. i.vs1 # NoReg => i.vs1 \in Regs /\ EewVs1(i) = eew[i.vs1] /\ eew[i.vs1] \in EEWs
    BY <1>1, <1>3, <1>9 DEF EewVs1, EewOf
  <2>3. \A x \in Reads(q) : x = <<i.vs1, q.eew_vs1>> /\ i.vs1 # NoReg
    <3>1. OneEach(q)
      BY <1>2, <1>3, <1>5, <1>6, <2>1, <2>2 DEF OneEach
    <3> QED BY <1>5, <2>1, <3>1, ReadsTwo
  <2>4. i.vs1 # NoReg => Settled[i.vs1] \in {Unwritten, eew[i.vs1]}
    BY <1>1, <2>2 DEF Table
  <2> QED BY <1>4, <1>5, <2>2, <2>3, <2>4
<1> QED BY <1>3, <1>7, <1>8, <1>9

LEMMA RewriteReads ==
    ASSUME WidthsFit, Table, rs.vs \in Regs, rs.old \in EEWs, rs.new \in EEWs,
           rs.old = eew[rs.vs]
    PROVE  \A x \in Reads(Rewrite) : Settled[x[1]] \in {Unwritten, x[2]}
<1>1. PICK q : q = Rewrite
  OBVIOUS
<1>2. /\ q.vs1 = NoReg /\ q.vs2 = rs.vs /\ q.eew_vs2 = rs.old /\ q.sew = rs.new
      /\ q.vl = Per(rs.new) /\ q.scaled = TRUE
  BY <1>1 DEF Rewrite, NoReq
<1>3. /\ 2^rs.new \in Nat /\ Per(rs.new) \in Nat
      /\ Per(rs.new) * 2^rs.new <= VLENB
  BY FullRegister
<1>4. Per(rs.new) * 2^rs.new \in Nat
  BY <1>3, SMTT(20)
<1>5. \A x \in Reads(q) : x = <<rs.vs, rs.old>>
  <2>1. OneEach(q)
    BY <1>2, <1>3, <1>4 DEF OneEach
  <2> QED BY <1>2, <2>1, ReadsTwo
<1>6. Settled[rs.vs] \in {Unwritten, rs.old}
  BY DEF Table
<1> QED BY <1>1, <1>5, <1>6

LEMMA StaysReadable ==
    ASSUME Plain, WidthsFit, ReadsInLanes, DInv, ReadsAsWritten, Next
    PROVE  ReadsAsWritten'
<1>1. PICK ready, complete \in BOOLEAN, fin \in SUBSET inflight :
        Cycle(ready, fin, complete)
  BY DEF Next
<1>2. prog' = prog /\ layout' = IF ready THEN Settled ELSE layout
  BY <1>1 DEF Cycle, Backend
<1>3. CASE ara_req' = NoReq
  BY <1>3 DEF ReadsAsWritten
<1>4. CASE ~ready /\ ara_req' = ara_req
  <2>1. Reads(ara_req)' = Reads(ara_req)
    BY <1>4 DEF Reads, Span
  <2> QED BY <1>2, <1>4, <2>1 DEF ReadsAsWritten
<1>5. ASSUME ready, NEW q, ara_req' = q,
             \A x \in Reads(q) : Settled[x[1]] \in {Unwritten, x[2]}
      PROVE  ReadsAsWritten'
  <2>1. layout' = Settled
    BY <1>2, <1>5
  <2>2. Reads(ara_req)' = Reads(q)
    BY <1>5 DEF Reads, Span
  <2> QED BY <1>5, <2>1, <2>2 DEF ReadsAsWritten
<1>6. CASE Decode(ready, complete)
  <2>1. ready = TRUE /\ acc \in prog /\ prog \in Programs
    BY <1>6 DEF Decode, Decoding, DInv, TypeOK
  <2>2. CASE Dispatch(acc, complete)
    <3>1. /\ acc.kind # "config" /\ reshuffle_req(acc) = {}
          /\ ara_req' = Request(acc)
      BY <2>2 DEF Dispatch, Offer
    <3>2. PICK q : q = Request(acc)
      OBVIOUS
    <3>3. \A x \in Reads(q) : Settled[x[1]] \in {Unwritten, x[2]}
      BY <2>1, <3>1, <3>2, RequestReads
    <3> QED BY <1>5, <2>1, <3>1, <3>2, <3>3
  <2>3. CASE ~Dispatch(acc, complete)
    <3>1. ara_req' = NoReq
      BY <1>6, <2>3 DEF Decode, Config, Answered, Illegal, ZeroVl, Reshuffle, Offer
    <3> QED BY <1>3, <3>1
  <2> QED BY <2>2, <2>3
<1>7. CASE Hold(ready, complete)
  <2>1. ara_req' = IF ready THEN NoReq ELSE ara_req
    BY <1>7 DEF Hold, Offer
  <2> QED BY <1>3, <1>4, <2>1
<1>8. CASE Reshuffling(ready, complete)
  <2>1. CASE ~ready
    BY <1>4, <1>8, <2>1 DEF Reshuffling, Offer
  <2>2. CASE ready
    <3>1. /\ rs.mask = FALSE /\ rs.old = eew[rs.vs] /\ Table
          /\ rs.vs \in Regs /\ rs.old \in EEWs /\ rs.new \in EEWs
      BY <1>8 DEF Reshuffling, DInv, Reshuffled, TypeOK
    <3>2. ara_req' = Rewrite
      BY <1>8, <2>2, <3>1 DEF Reshuffling, Offer
    <3>3. PICK q : q = Rewrite
      OBVIOUS
    <3>4. \A x \in Reads(q) : Settled[x[1]] \in {Unwritten, x[2]}
      BY <3>1, <3>3, RewriteReads
    <3> QED BY <1>5, <2>2, <3>2, <3>3, <3>4
  <2> QED BY <2>1, <2>2
<1> QED BY <1>1, <1>6, <1>7, <1>8 DEF Cycle

(***************************************************************************)
(* For every plain program whose vectors are read in the lanes, a request  *)
(* reads every operand in the order its bytes were written: the reshuffles *)
(* that were injected before it are the ones it needed.                    *)
(***************************************************************************)
THEOREM ReadAsWrittenAlways ==
    ASSUME Plain, WidthsFit, ReadsInLanes
    PROVE  Spec => []ReadsAsWritten
<1> DEFINE IInv == DInv /\ ReadsAsWritten
<1>1. Init => IInv
  <2>1. Init => ReadsAsWritten
    BY DEF Init, ReadsAsWritten
  <2> QED BY <2>1, StartsSound
<1>2. IInv /\ [Next]_vars => IInv'
  <2> SUFFICES ASSUME IInv, [Next]_vars
               PROVE  DInv' /\ ReadsAsWritten'
    OBVIOUS
  <2>1. DInv'
    BY StaysSound
  <2>2. CASE Next
    BY <2>1, <2>2, StaysReadable
  <2>3. CASE UNCHANGED vars
    <3>1. ara_req' = ara_req /\ layout' = layout
      BY <2>3 DEF vars, backendVars
    <3>2. Reads(ara_req)' = Reads(ara_req)
      BY <3>1 DEF Reads, Span
    <3> QED BY <2>1, <3>1, <3>2 DEF ReadsAsWritten
  <2> QED BY <2>2, <2>3
<1>3. IInv => ReadsAsWritten
  OBVIOUS
<1> QED BY <1>1, <1>2, <1>3, PTL DEF Spec

-----------------------------------------------------------------------------
(***************************************************************************)
(* Answers.  Only an illegal load, store or indexed load is answered       *)
(* without being taken.                                                    *)
(***************************************************************************)
LegalMemory ==
    \A p \in Programs : \A i, c \in p :
        c.kind = "config" /\ i.kind \in Load \cup {"store"} =>
            LET w == IF i.kind = "indexed" THEN c.sew ELSE i.sew
                m == c.lmul + (IF i.kind = "indexed" THEN 0 ELSE i.sew - c.sew)
            IN  /\ w \in EEWs
                /\ i.kind # "indexed" => m \in -3..MaxLMUL
                /\ ~Misaligned(i.vd, m)
                /\ i.kind = "store" => ~Misaligned(i.vs1, m)

\* vtype and vl were set by an instruction of the program CVA6 runs.
FromProgram ==
    /\ prog \in Programs /\ acc \in prog \cup {NoInsn}
    /\ \E c \in prog : /\ c.kind = "config"
                       /\ csr = [sew |-> c.sew, lmul |-> c.lmul, vl |-> c.vl]

LEMMA MemoryLegal ==
    ASSUME LegalMemory, FromProgram, NEW i \in prog, i.kind \in Load \cup {"store"}
    PROVE  ~illegal_insn(i)
<1>1. PICK c \in prog : /\ c.kind = "config" /\ csr.sew = c.sew
                        /\ csr.lmul = c.lmul
  BY DEF FromProgram
<1>2. prog \in Programs
  BY DEF FromProgram
<1>3. PICK w, m : /\ w = IF i.kind = "indexed" THEN c.sew ELSE i.sew
                  /\ m = c.lmul + (IF i.kind = "indexed" THEN 0 ELSE i.sew - c.sew)
  OBVIOUS
<1>4. /\ w \in EEWs
      /\ i.kind # "indexed" => m \in -3..MaxLMUL
      /\ ~Misaligned(i.vd, m)
      /\ i.kind = "store" => ~Misaligned(i.vs1, m)
  BY <1>1, <1>2, <1>3 DEF LegalMemory
<1>5. VSew(i) = w /\ Emul(i) = m
  BY <1>1, <1>3 DEF VSew, Emul, Load, Widening
<1>6. ~(VSew(i) > MaxEEW)
  BY <1>4, <1>5, WidthsAssumption DEF EEWs
<1> QED
  BY <1>4, <1>5, <1>6 DEF illegal_insn, ReservedGroup, Load, InLane, Widening

LEMMA AnswersMatch ==
    ASSUME LegalMemory, FromProgram, Next
    PROVE  FromProgram' /\ AnsweredOnce'
<1>1. PICK ready, complete \in BOOLEAN, fin \in SUBSET inflight :
        Cycle(ready, fin, complete)
  BY DEF Next
<1>2. prog' = prog
  BY <1>1 DEF Cycle
<1>3. ASSUME NEW a \in BOOLEAN, NEW b \in BOOLEAN, Outputs(a, b), a = b
      PROVE  AnsweredOnce' /\ acc' \in prog' \cup {NoInsn}
  BY <1>2, <1>3 DEF Outputs, AnsweredOnce, FromProgram
<1>4. ASSUME UNCHANGED csr, acc' \in prog' \cup {NoInsn}
      PROVE  FromProgram'
  BY <1>2, <1>4 DEF FromProgram
<1>5. CASE Decode(ready, complete)
  <2>1. acc \in prog
    BY <1>5 DEF Decode, Decoding, FromProgram
  <2>2. CASE Config(acc, complete)
    <3>1. /\ Outputs(TRUE, TRUE) /\ acc.kind = "config"
          /\ csr' = [sew |-> acc.sew, lmul |-> acc.lmul, vl |-> acc.vl]
      BY <2>2 DEF Config
    <3>2. AnsweredOnce' /\ acc' \in prog' \cup {NoInsn}
      BY <1>3, <3>1
    <3> QED BY <1>2, <2>1, <3>1, <3>2 DEF FromProgram
  <2>3. CASE Answered(acc, complete)
    BY <1>3, <1>4, <2>3 DEF Answered
  <2>4. CASE Illegal(acc, complete)
    <3>1. acc.kind \notin Load \cup {"store"}
      BY <2>1, <2>4, MemoryLegal DEF Illegal
    <3>2. (~Waits(acc)) = (acc.kind # "scalar")
      BY <3>1 DEF Waits
    <3>3. PICK a, b \in BOOLEAN : a = (~Waits(acc)) /\ b = (acc.kind # "scalar")
      OBVIOUS
    <3>4. Outputs(a, b) /\ UNCHANGED csr
      BY <2>4, <3>3 DEF Illegal
    <3> QED BY <1>3, <1>4, <3>2, <3>3, <3>4
  <2>5. CASE ZeroVl(acc, complete)
    <3>1. PICK a \in BOOLEAN : a = ~(acc.kind \in Load /\ complete)
      OBVIOUS
    <3>2. Outputs(a, a) /\ UNCHANGED csr
      BY <2>5, <3>1 DEF ZeroVl
    <3> QED BY <1>3, <1>4, <3>2
  <2>6. CASE Reshuffle(acc, complete)
    BY <1>3, <1>4, <2>6 DEF Reshuffle
  <2>7. CASE Dispatch(acc, complete)
    <3>1. PICK a \in BOOLEAN : a = ~Waits(acc)
      BY DEF Waits
    <3>2. Outputs(a, a) /\ UNCHANGED csr
      BY <2>7, <3>1 DEF Dispatch
    <3> QED BY <1>3, <1>4, <3>2
  <2> QED BY <1>5, <2>2, <2>3, <2>4, <2>5, <2>6, <2>7 DEF Decode
<1>6. CASE Hold(ready, complete)
  BY <1>3, <1>4, <1>6 DEF Hold
<1>7. CASE Reshuffling(ready, complete)
  BY <1>3, <1>4, <1>7 DEF Reshuffling
<1> QED BY <1>1, <1>5, <1>6, <1>7 DEF Cycle

(***************************************************************************)
(* CVA6 gets one answer for every instruction, in the cycle it is taken,   *)
(* for all programs without an illegal memory operation: groups, widths,   *)
(* empty vectors and reshuffles may be as they will.                       *)
(***************************************************************************)
THEOREM AnsweredOnceAlways ==
    ASSUME LegalMemory
    PROVE  Spec => []AnsweredOnce
<1>1. Init => FromProgram /\ AnsweredOnce
  BY DEF Init, FromProgram, AnsweredOnce, Quiet
<1>2. FromProgram /\ AnsweredOnce /\ [Next]_vars => (FromProgram /\ AnsweredOnce)'
  <2> SUFFICES ASSUME FromProgram, AnsweredOnce, [Next]_vars
               PROVE  FromProgram' /\ AnsweredOnce'
    OBVIOUS
  <2>1. CASE Next
    BY <2>1, AnswersMatch
  <2>2. CASE UNCHANGED vars
    BY <2>2 DEF vars, accVars, FromProgram, AnsweredOnce
  <2> QED BY <2>1, <2>2
<1> QED BY <1>1, <1>2, PTL DEF Spec
=============================================================================
