----------------------------- MODULE Dispatcher -----------------------------
(***************************************************************************)
(* The dispatcher between CVA6 and the main sequencer.  It keeps vl and    *)
(* vtype, turns instructions into requests, holds the request until the    *)
(* sequencer takes it, and answers CVA6.                                   *)
(*                                                                         *)
(* The bytes of a register are spread over the lanes in an order that      *)
(* depends on the element width it was written with.  The dispatcher keeps *)
(* that width for every register, and before a request that would read or  *)
(* partly write a register with another width it injects requests that     *)
(* rewrite the register (a reshuffle).                                     *)
(*                                                                         *)
(* One step is one clock cycle.  Widths and register groups are kept as    *)
(* exponents: a width of e is an element of 2^e bytes, an lmul of m a      *)
(* group of 2^m registers.                                                 *)
(***************************************************************************)
EXTENDS Integers, FiniteSets

CONSTANTS
    NrRegs,      \* vector registers
    VLENB,       \* bytes of a vector register
    MaxEEW,      \* the widest element
    MaxLMUL,     \* the largest group
    Depth,       \* the requests the backend works on at a time
    Programs     \* sets of instructions: CVA6 sends those of one of them

ASSUME RegsAssumption == NrRegs \in Nat \ {0} /\ VLENB \in Nat \ {0}
ASSUME WidthsAssumption == MaxEEW \in Nat /\ MaxLMUL \in Nat
ASSUME DepthAssumption == Depth \in Nat \ {0}

Regs == 0..(NrRegs - 1)
EEWs == 0..MaxEEW
NoReg == NrRegs

\* What the bytes of a register are besides ordered by a width.
Unwritten == -1
Mixed == -2

(***************************************************************************)
(* An instruction names registers vd, vs1 and vs2 (NoReg if unused).  The  *)
(* kinds are                                                               *)
(*   "config"   vsetvli and its variants: new sew, lmul and vl             *)
(*   "inlane"   arithmetic, reductions, slides; all operands of width sew  *)
(*   "widening" arithmetic with a destination twice as wide                *)
(*   "fwidening" the same in floating point                                *)
(*   "move"     vmv.v.v, which takes over the width of its source          *)
(*   "nullslide" vslideup by vl elements or more, which has no effects      *)
(*   "load", "store"  with the width sew of the elements in memory         *)
(*   "indexed"  a load with indices of width sew in vs2                     *)
(*   "scalar"   vmv.x.s and the like, answered with a result               *)
(* masked tells whether the instruction is subject to the mask register.   *)
(***************************************************************************)
Widening == {"widening", "fwidening"}
InLane == Widening \cup {"inlane", "move", "nullslide"}

NoInsn == [kind |-> "none"]
NoReq == [waits |-> FALSE, vd |-> NoReg, vs1 |-> NoReg, vs2 |-> NoReg,
          eew_vs1 |-> 0, eew_vs2 |-> 0, sew |-> 0, emul |-> 0, vl |-> 0,
          masked |-> FALSE, scaled |-> FALSE, rewrite |-> FALSE]

VARIABLES
    prog,        \* the instructions CVA6 may send
    acc,         \* the instruction CVA6 offers
    csr,         \* vtype and vl: the fields sew, lmul and vl
    state,       \* NORMAL_OPERATION, WAIT_IDLE or RESHUFFLE
    eew,         \* the width each register was written with,
    eew_valid,   \*   and whether it was written at all
    rs,          \* the registers of the RESHUFFLE state
    ara_req,     \* the request offered to the sequencer
    layout,      \* the width the bytes of each register are ordered by
    inflight,    \* the requests the backend works on: their register groups
    owed,        \* completions of memory operations CVA6 has not heard of
    out          \* the outputs of the last cycle

accVars == <<prog, acc, owed>>
eewVars == <<eew, eew_valid>>
backendVars == <<layout, inflight>>
vars == <<accVars, csr, state, eewVars, rs, ara_req, backendVars, out>>

RsIdle == [req |-> {}, old |-> 0, new |-> 0, vs |-> 0, cnt |-> 0, limit |-> 0,
           mask |-> FALSE]
Quiet == [ready |-> FALSE, valid |-> FALSE]

\* The first instruction of a program sets vtype: until then it is illegal to
\* compute.  The model starts after it.
Init ==
    /\ acc = NoInsn
    /\ prog \in Programs
    /\ \E i \in {j \in prog : j.kind = "config"} :
         csr = [sew |-> i.sew, lmul |-> i.lmul, vl |-> i.vl]
    /\ state = "NORMAL_OPERATION"
    /\ eew = [r \in Regs |-> 0]
    /\ eew_valid = [r \in Regs |-> FALSE]
    /\ rs = RsIdle
    /\ ara_req = NoReq
    /\ layout = [r \in Regs |-> Unwritten]
    /\ inflight = {}
    /\ owed = 0
    /\ out = Quiet

-----------------------------------------------------------------------------
(***************************************************************************)
(* Requests.                                                               *)
(***************************************************************************)
\* The registers of a group; a reserved value counts as one register.
Group(m) == IF m \in 1..MaxLMUL THEN 2^m ELSE 1
Per(e) == VLENB \div 2^e      \* elements of a register
EewOf(r) == IF r = NoReg THEN 0 ELSE eew[r]

\* The width of the destination, and for a store of the data in memory.
VSew(i) == CASE i.kind \in {"load", "store"} -> i.sew
             [] i.kind \in Widening          -> csr.sew + 1
             [] i.kind = "move"              -> EewOf(i.vs1)
             [] OTHER                        -> csr.sew

\* Twice the largest group is a reserved value, as is less than an eighth of
\* a register.
Emul(i) == csr.lmul + (CASE i.kind \in {"load", "store"} -> i.sew - csr.sew
                         [] i.kind \in Widening          -> 1
                         [] OTHER                        -> 0)

\* Mutant: a store reads its source with the current width.
EewVs1_Sew(i) == IF i.kind = "move" THEN EewOf(i.vs1) ELSE csr.sew

\* The width vs1 is read with.  A store and a move read what is there.
EewVs1(i) == IF i.kind \in {"store", "move"} THEN EewOf(i.vs1) ELSE csr.sew

EewVs2(i) == IF i.kind = "indexed" THEN i.sew ELSE csr.sew

\* The elements.  A scalar move reads one; a move counts in its own width.
Vl(i) == CASE i.kind = "scalar" -> 1
           [] i.kind = "move"   -> (csr.vl * 2^csr.sew) \div 2^VSew(i)
           [] OTHER             -> csr.vl

Load == {"load", "indexed"}
Waits(i) == i.kind \in Load \cup {"store", "scalar"}

Request(i) == [waits |-> Waits(i), vd |-> i.vd, vs1 |-> i.vs1, vs2 |-> i.vs2,
               eew_vs1 |-> EewVs1(i), eew_vs2 |-> EewVs2(i), sew |-> VSew(i),
               emul |-> Emul(i), vl |-> Vl(i), masked |-> i.masked,
               scaled |-> i.kind = "store", rewrite |-> FALSE]

Misaligned(r, m) == r # NoReg /\ r % Group(m) # 0

\* A group twice the largest, or less than an eighth of a register, is looked
\* for in memory operations; floating-point instructions look for the first,
\* and integer arithmetic for neither.
ReservedGroup(i) ==
    \/ i.kind \in {"load", "store"} /\ Emul(i) \notin -3..MaxLMUL
    \/ i.kind = "fwidening" /\ Emul(i) > MaxLMUL

illegal_insn(i) ==
    \/ VSew(i) > MaxEEW
    \/ ReservedGroup(i)
    \/ Misaligned(i.vd, Emul(i))
    \/ i.kind = "store" /\ Misaligned(i.vs1, Emul(i))
    \/ i.kind \in InLane /\
         (Misaligned(i.vs1, csr.lmul) \/ Misaligned(i.vs2, csr.lmul))

-----------------------------------------------------------------------------
(***************************************************************************)
(* The backend executes requests in order.  A register that is written in  *)
(* part keeps its other bytes: if they are ordered by another width, the   *)
(* register is mixed up.  So is one that is rewritten from a width it does *)
(* not have, unless the rewrite leaves every byte in its place.            *)
(***************************************************************************)
\* The registers that hold the first n elements of width e from register r on.
Span(r, n, e) ==
    IF r = NoReg THEN {}
    ELSE {x \in Regs : r <= x /\ (x - r) * Per(e) < n}

Written(q, lay) ==
    [r \in Regs |->
        IF r \notin Span(q.vd, q.vl, q.sew) THEN lay[r]
        ELSE IF q.rewrite /\ lay[r] \notin {Unwritten, q.eew_vs2}
             THEN IF q.sew = q.eew_vs2 THEN lay[r] ELSE Mixed
        ELSE IF \/ lay[r] \in {Unwritten, q.sew}
                \/ ~q.masked /\ (r - q.vd + 1) * Per(q.sew) <= q.vl
        THEN q.sew
        ELSE Mixed]

Settled == IF ara_req = NoReq THEN layout ELSE Written(ara_req, layout)

\* The registers a request reads, with the width it takes them to have.  The
\* length of a store and of a reshuffle counts elements of another width.
Reads(q) ==
    LET bytes == q.vl * 2^q.sew
        n(e) == IF q.scaled THEN bytes \div 2^e ELSE q.vl
    IN  {<<r, q.eew_vs1>> : r \in Span(q.vs1, n(q.eew_vs1), q.eew_vs1)}
          \cup {<<r, q.eew_vs2>> : r \in Span(q.vs2, n(q.eew_vs2), q.eew_vs2)}

\* The register groups a request uses; the first register is their label.
Groups(q) ==
    {g \in {[first |-> q.vd, size |-> Group(q.emul), write |-> TRUE],
            [first |-> q.vs1, size |-> Group(q.emul), write |-> FALSE],
            [first |-> q.vs2, size |-> Group(q.emul), write |-> FALSE]} :
        g.first # NoReg}

\* The backend takes the request, and is through with some earlier ones.
Backend(ready, fin) ==
    /\ ready => Cardinality(inflight \ fin) < Depth
    /\ layout' = IF ready THEN Settled ELSE layout
    /\ inflight' = (inflight \ fin) \cup
         (IF ready /\ ara_req # NoReq THEN {Groups(ara_req)} ELSE {})

-----------------------------------------------------------------------------
(***************************************************************************)
(* Decoding.                                                               *)
(***************************************************************************)
Decoding(ready) ==
    /\ \/ state = "NORMAL_OPERATION"
       \/ state = "WAIT_IDLE" /\ inflight = {}
    /\ ready
    /\ acc # NoInsn

\* Mutant: the answer is overlooked.
Answer_Ignored == FALSE

\* The answer to the load, store or scalar move that CVA6 still offers.
Answer == ara_req.waits

Mismatch(r, e) == r # NoReg /\ eew_valid[r] /\ eew[r] # e

\* Mutant: the destination counts as overwritten as a whole by the current width.
reshuffle_req_BySew(i) ==
    {x \in {"vd", "vs1", "vs2"} :
        CASE x = "vd"  -> Mismatch(i.vd, VSew(i)) /\ csr.vl # Per(csr.sew)
          [] x = "vs1" -> Mismatch(i.vs1, EewVs1(i)) /\ i.kind \in InLane
          [] x = "vs2" -> Mismatch(i.vs2, EewVs2(i)) /\ i.kind \in InLane}

\* The operands to be reshuffled first.  A destination that is overwritten as
\* a whole need not be, and only in-lane operations mind their sources.
reshuffle_req(i) ==
    {x \in {"vd", "vs1", "vs2"} :
        CASE x = "vd"  -> Mismatch(i.vd, VSew(i)) /\ csr.vl # Per(VSew(i))
          [] x = "vs1" -> Mismatch(i.vs1, EewVs1(i)) /\ i.kind \in InLane
          [] x = "vs2" -> Mismatch(i.vs2, EewVs2(i)) /\ i.kind \in InLane}

First(S) == IF "vd" \in S THEN "vd" ELSE IF "vs2" \in S THEN "vs2" ELSE "vs1"

StartReshuffle(i, S) ==
    /\ state' = "RESHUFFLE"
    /\ rs' = [req |-> S, old |-> eew[i[First(S)]],
              new |-> CASE First(S) = "vd"  -> VSew(i)
                        [] First(S) = "vs1" -> EewVs1(i)
                        [] First(S) = "vs2" -> EewVs2(i),
              vs |-> i[First(S)], cnt |-> 0, limit |-> Group(Emul(i)) - 1,
              mask |-> FALSE]

\* Mutant: only the first width of a register is noted.
UpdateEEW_Once(first, m, e) ==
    LET G == {r \in Regs : first # NoReg /\ first <= r /\ r < first + Group(m)}
    IN  /\ eew' = [r \in Regs |-> IF r \in G /\ ~eew_valid[r] THEN e ELSE eew[r]]
        /\ eew_valid' = [r \in Regs |-> r \in G \/ eew_valid[r]]

\* The destination group is written with width e.
UpdateEEW(first, m, e) ==
    LET G == {r \in Regs : first # NoReg /\ first <= r /\ r < first + Group(m)}
    IN  /\ eew' = [r \in Regs |-> IF r \in G THEN e ELSE eew[r]]
        /\ eew_valid' = [r \in Regs |-> r \in G \/ eew_valid[r]]

Offer(q) == ara_req' = q

\* CVA6 goes on once its instruction is taken.
Outputs(ready, valid) ==
    /\ out' = [ready |-> ready, valid |-> valid]
    /\ IF ready \/ acc = NoInsn THEN acc' \in prog \cup {NoInsn}
       ELSE UNCHANGED acc

\* The completion of a load, signalled by the load unit (complete) or by the
\* dispatcher itself for a load without elements.
LoadCompletes(complete, zero, taken) ==
    owed' = owed + (IF complete THEN 1 ELSE 0) + (IF zero /\ taken THEN 1 ELSE 0)
              - (IF complete \/ zero THEN 1 ELSE 0)

\* Mutant: no wait for an idle backend.
Config_NoWait(i, complete) ==
    /\ i.kind = "config"
    /\ csr' = [sew |-> i.sew, lmul |-> i.lmul, vl |-> i.vl]
    /\ state' = "NORMAL_OPERATION"
    /\ Offer(NoReq)
    /\ Outputs(TRUE, TRUE)
    /\ LoadCompletes(complete, FALSE, FALSE)
    /\ UNCHANGED <<eewVars, rs>>

Config(i, complete) ==
    /\ i.kind = "config"
    /\ csr' = [sew |-> i.sew, lmul |-> i.lmul, vl |-> i.vl]
    /\ state' = IF csr.lmul >= 0 /\ i.lmul >= 0 /\ i.lmul < csr.lmul
                THEN "WAIT_IDLE" ELSE "NORMAL_OPERATION"
    /\ Offer(NoReq)
    /\ Outputs(TRUE, TRUE)
    /\ LoadCompletes(complete, FALSE, FALSE)
    /\ UNCHANGED <<eewVars, rs>>

\* The backend has answered.
Answered(i, complete) ==
    /\ Answer
    /\ Offer(NoReq)
    /\ Outputs(TRUE, TRUE)
    /\ LoadCompletes(complete, FALSE, FALSE)
    /\ state' = "NORMAL_OPERATION"
    /\ UNCHANGED <<csr, eewVars, rs>>

\* An illegal memory operation is answered without being taken.
Illegal(i, complete) ==
    /\ i.kind # "config" /\ ~Answer
    /\ illegal_insn(i)
    /\ reshuffle_req(i) = {}
    /\ Offer(NoReq)
    /\ Outputs(~Waits(i), i.kind # "scalar")
    /\ LoadCompletes(complete, FALSE, FALSE)
    /\ state' = "NORMAL_OPERATION"
    /\ UNCHANGED <<csr, eewVars, rs>>

NoEffect(i) == (csr.vl = 0 \/ i.kind = "nullslide") /\ i.kind # "scalar"

\* Mutant: taken while the load unit signals a completion.
ZeroVl_TakenAnyway(i, complete) ==
    /\ i.kind # "config" /\ ~Answer
    /\ ~illegal_insn(i)
    /\ NoEffect(i)
    /\ Outputs(TRUE, ~(i.kind \in Load /\ complete))
    /\ LoadCompletes(complete, i.kind \in Load, TRUE)
    /\ Offer(NoReq)
    /\ IF reshuffle_req(i) # {}
       THEN /\ StartReshuffle(i, reshuffle_req(i))
            /\ UNCHANGED eewVars
       ELSE /\ UpdateEEW(i.vd, Emul(i), VSew(i))
            /\ state' = "NORMAL_OPERATION"
            /\ UNCHANGED rs
    /\ UNCHANGED csr

\* Nothing to be done: taken at once, except that a load waits while the load
\* unit signals a completion.  By then the reshuffle is on its way, and the
\* width of the destination is noted.
ZeroVl(i, complete) ==
    /\ i.kind # "config" /\ ~Answer
    /\ ~illegal_insn(i)
    /\ NoEffect(i)
    /\ LET taken == ~(i.kind \in Load /\ complete)
       IN  /\ Outputs(taken, taken)
           /\ LoadCompletes(complete, i.kind \in Load, taken)
    /\ Offer(NoReq)
    /\ IF reshuffle_req(i) # {}
       THEN /\ StartReshuffle(i, reshuffle_req(i))
            /\ UNCHANGED eewVars
       ELSE /\ UpdateEEW(i.vd, Emul(i), VSew(i))
            /\ state' = "NORMAL_OPERATION"
            /\ UNCHANGED rs
    /\ UNCHANGED csr

Reshuffle(i, complete) ==
    /\ i.kind # "config" /\ ~Answer
    /\ illegal_insn(i) \/ ~NoEffect(i)
    /\ reshuffle_req(i) # {}
    /\ StartReshuffle(i, reshuffle_req(i))
    /\ Offer(NoReq)
    /\ Outputs(FALSE, FALSE)
    /\ LoadCompletes(complete, FALSE, FALSE)
    /\ UNCHANGED <<csr, eewVars>>

Dispatch(i, complete) ==
    /\ i.kind # "config" /\ ~Answer
    /\ ~illegal_insn(i) /\ ~NoEffect(i)
    /\ reshuffle_req(i) = {}
    /\ Offer(Request(i))
    /\ UpdateEEW(i.vd, Emul(i), VSew(i))
    /\ Outputs(~Waits(i), ~Waits(i))
    /\ LoadCompletes(complete, FALSE, FALSE)
    /\ state' = "NORMAL_OPERATION"
    /\ UNCHANGED <<csr, rs>>

\* Nothing to decode, or the request register is not free.
Hold(ready, complete) ==
    /\ state # "RESHUFFLE"
    /\ ~Decoding(ready)
    /\ Offer(IF ready THEN NoReq ELSE ara_req)
    /\ state' = IF state = "WAIT_IDLE" /\ inflight # {} THEN "WAIT_IDLE"
                ELSE "NORMAL_OPERATION"
    /\ Outputs(FALSE, FALSE)
    /\ LoadCompletes(complete, FALSE, FALSE)
    /\ UNCHANGED <<csr, eewVars, rs>>

-----------------------------------------------------------------------------
(***************************************************************************)
(* The RESHUFFLE state: one request for every register of every operand    *)
(* that needs it.                                                          *)
(***************************************************************************)
Rewrite == [NoReq EXCEPT !.vd = rs.vs, !.vs2 = rs.vs, !.eew_vs2 = rs.old,
                         !.sew = rs.new, !.emul = csr.lmul, !.vl = Per(rs.new),
                         !.scaled = TRUE, !.rewrite = TRUE]

\* The register the instruction word names as operand x.
Operand(x) == IF acc = NoInsn \/ acc.kind = "config" \/ acc[x] = NoReg THEN Regs
              ELSE {acc[x]}

\* The width given to the next register.  It is taken from the request that
\* is offered now, whose own source has the old width.
NextWidth(x) == CASE x = "vd"  -> rs.new
                  [] x = "vs2" -> rs.old
                  [] x = "vs1" -> csr.sew

NextOperand ==
    LET left == rs.req \ {First(rs.req)}
        x == First(left)
    IN  IF left = {}
        THEN state' = "NORMAL_OPERATION" /\ rs' = RsIdle
        ELSE /\ \E r \in Operand(x) :
                  rs' = [rs EXCEPT !.req = left, !.old = eew[r],
                                   !.new = NextWidth(x), !.vs = r, !.cnt = 0,
                                   !.mask = FALSE]
             /\ UNCHANGED state

NextOfGroup ==
    LET r == (rs.vs + 1) % NrRegs
        new == NextWidth(First(rs.req))
    IN  /\ rs' = [rs EXCEPT !.vs = r, !.old = eew[r], !.new = new,
                            !.cnt = rs.cnt + 1, !.mask = (new = eew[r])]
        /\ UNCHANGED state

Reshuffling(ready, complete) ==
    /\ state = "RESHUFFLE"
    /\ Offer(IF ~ready THEN ara_req ELSE IF rs.mask THEN NoReq ELSE Rewrite)
    /\ IF ready /\ ~rs.mask THEN UpdateEEW(rs.vs, csr.lmul, rs.new)
       ELSE UNCHANGED eewVars
    /\ IF ~ready THEN rs' = [rs EXCEPT !.mask = FALSE] /\ UNCHANGED state
       ELSE IF rs.cnt = rs.limit THEN NextOperand ELSE NextOfGroup
    /\ Outputs(FALSE, FALSE)
    /\ LoadCompletes(complete, FALSE, FALSE)
    /\ UNCHANGED csr

Decode(ready, complete) ==
    /\ Decoding(ready)
    /\ \/ Config(acc, complete)
       \/ Answered(acc, complete)
       \/ Illegal(acc, complete)
       \/ ZeroVl(acc, complete)
       \/ Reshuffle(acc, complete)
       \/ Dispatch(acc, complete)

Cycle(ready, fin, complete) ==
    /\ UNCHANGED prog
    /\ Backend(ready, fin)
    /\ \/ Decode(ready, complete)
       \/ Hold(ready, complete)
       \/ Reshuffling(ready, complete)

Next == \E ready, complete \in BOOLEAN, fin \in SUBSET inflight :
            Cycle(ready, fin, complete)

Spec == Init /\ [][Next]_vars

\* Time and again the sequencer takes the request it is offered in a cycle in
\* which no load completes, and what the backend works on comes to an end.
Accepts == \E fin \in SUBSET inflight : Cycle(TRUE, fin, FALSE)
Finishes == \E ready, complete \in BOOLEAN, fin \in SUBSET inflight :
                fin # {} /\ Cycle(ready, fin, complete)
FairSpec == Spec /\ SF_vars(Accepts) /\ SF_vars(Finishes)

-----------------------------------------------------------------------------
TypeOK ==
    /\ prog \in Programs
    /\ acc \in prog \cup {NoInsn}
    /\ csr.sew \in EEWs /\ csr.lmul <= MaxLMUL /\ csr.vl \in Nat
    /\ state \in {"NORMAL_OPERATION", "WAIT_IDLE", "RESHUFFLE"}
    /\ eew \in [Regs -> EEWs]
    /\ eew_valid \in [Regs -> BOOLEAN]
    /\ rs.req \subseteq {"vd", "vs1", "vs2"}
    /\ rs.old \in EEWs /\ rs.new \in EEWs /\ rs.vs \in Regs
    /\ rs.cnt \in 0..rs.limit /\ rs.limit < NrRegs
    /\ state = "RESHUFFLE" <=> rs.req # {}
    /\ ara_req # NoReq => ara_req.sew \in EEWs /\ ara_req.vd \in Regs \cup {NoReg}
    /\ layout \in [Regs -> EEWs \cup {Unwritten, Mixed}]
    /\ owed \in Int
    /\ out \in [ready : BOOLEAN, valid : BOOLEAN]

(***************************************************************************)
(* The element width the dispatcher remembers for a register is the width  *)
(* its bytes will be ordered by once the request on offer is executed.     *)
(***************************************************************************)
TableMatchesLayout ==
    \A r \in Regs : eew_valid[r] => Settled[r] \in {Unwritten, eew[r]}

(***************************************************************************)
(* A request reads its operands with the width they were written with: the *)
(* bytes are taken out of the lanes in the order they were put there.      *)
(***************************************************************************)
ReadsAsWritten ==
    ara_req # NoReq =>
        \A x \in Reads(ara_req) : layout[x[1]] \in {Unwritten, x[2]}

(***************************************************************************)
(* No request is for elements wider than the lanes can handle: an          *)
(* instruction that asks for them is illegal and has no effect.            *)
(***************************************************************************)
SupportedWidth == ara_req.sew <= MaxEEW

(***************************************************************************)
(* CVA6 gets one answer for every instruction: an instruction is answered  *)
(* in the cycle it is taken, and only then.                                *)
(***************************************************************************)
AnsweredOnce == out.valid = out.ready

(***************************************************************************)
(* Every completed load is signalled to CVA6 once, even if the load unit   *)
(* and the dispatcher have one to signal in the same cycle.                *)
(***************************************************************************)
NoLostCompletion == owed = 0

Overlap(g, h) ==
    /\ g.first < h.first + h.size /\ h.first < g.first + g.size
    /\ g.write \/ h.write

(***************************************************************************)
(* The sequencer finds hazards by the label of a register group, its first *)
(* register.  After LMUL was lowered no request meets an earlier one that  *)
(* uses its registers as part of a larger group.                           *)
(***************************************************************************)
LabelsAfterNarrowing ==
    [][\A I \in inflight' \ inflight, J \in inflight : \A g \in I, h \in J :
         h.size > g.size /\ Overlap(g, h) => g.first = h.first]_vars

(***************************************************************************)
(* Two groups in flight that share a register share their label, so that   *)
(* the hazard table can order them.                                        *)
(***************************************************************************)
SharedRegistersShareLabel ==
    \A I, J \in inflight : I # J =>
        \A g \in I, h \in J : Overlap(g, h) => g.first = h.first

(***************************************************************************)
(* An instruction that starts a reshuffle stays offered until its operands *)
(* are rewritten: the interface stalls.                                    *)
(***************************************************************************)
StallsForReshuffle == [][state' = "RESHUFFLE" => ~out'.ready]_vars

(***************************************************************************)
(* Every instruction CVA6 offers is taken in the end: the reshuffles it    *)
(* asks for come to an end, and so does the wait for an idle backend.      *)
(***************************************************************************)
EveryInsnTaken == (acc # NoInsn) ~> out.ready

(***************************************************************************)
(* The registers of the dispatcher make sense, and its table of element    *)
(* widths says how the bytes will lie.                                     *)
(***************************************************************************)
TableSound == TypeOK /\ TableMatchesLayout
=============================================================================
