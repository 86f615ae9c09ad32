---------------------------- MODULE LaneCluster -----------------------------
(***************************************************************************)
(* The lanes together: the offer of an instruction by the main sequencer   *)
(* to the lane sequencers, the ALUs, the multiplier and floating-point     *)
(* units, the slide unit, which moves elements from lane to lane, of a     *)
(* vector or of a reduction's partial results, and the mask unit.          *)
(*                                                                         *)
(* A step is a clock cycle of all of them.  What a cycle does not decide   *)
(* itself is free: whether an instruction comes, which lanes' operand      *)
(* requesters are busy, which of the operands requested are there, and     *)
(* which results the register file takes.                                  *)
(***************************************************************************)
EXTENDS VectorALU, FiniteSets, TLC

MF == INSTANCE VectorMFPU

CONSTANT SlduDepth     \* SlduInsnQueueDepth

SU == INSTANCE SlideUnit
MU == INSTANCE MaskUnit

CONSTANTS
    Programs,      \* [lanes, prompt, insns]: the instructions, in order; prompt:
                   \* the register file takes a result when it is offered, and the
                   \* lanes have their words for slide and mask unit together
    NrVInsn,       \* the identifiers
    Apart          \* see MayOffer

ASSUME ClusterAssumption ==
    /\ \A p \in Programs :
           /\ p.lanes \in {1, 2, 4, 8, 16} /\ p.prompt \in BOOLEAN
           /\ \A n \in DOMAIN p.insns :
                  /\ \/ p.insns[n].op \in {"VADD", "VREDSUM"} \/ MU!Executes(p.insns[n])
                     \/ SU!IsSlide(p.insns[n]) \/ MF!Unit(p.insns[n]) # None
                  /\ p.insns[n].vl \in Nat \ {0} /\ p.insns[n].ew \in {1, 2, 4}
                  /\ p.insns[n].off \subseteq 0..(p.insns[n].vl - 1)
    /\ NrVInsn \in 1..VInsnQueueDepth /\ SlduDepth >= NrVInsn
    /\ Apart \in BOOLEAN

VARIABLES
    prog,
    offered,       \* the number of instructions offered so far
    pe_req,        \* the offer, or None
    running,       \* per lane, and for the slide and the mask unit: the identifiers
                   \* it has not reported
    lane,          \* per lane: the registers of the lane sequencer
    alu,           \* per lane: the ALU
    mfpu,          \* per lane: the multiplier and floating-point unit
    sldu,          \* the slide unit
    masku,         \* the mask unit
    port,          \* per lane: its queue and its register for the slide unit
    mux,           \* the slide unit serves a reduction (sldu_mux_sel_q)
    link,          \* per lane: its queues and its registers for ALU and mask unit
    sampled,       \* history: per lane, the instructions it has taken, in order
    written,       \* history: per lane, the results written, in order
    reported       \* history: <<lane, instruction>> reported as done

sequencer == <<prog, offered, pe_req, running>>
history == <<sampled, written, reported>>
vars == <<sequencer, lane, alu, mfpu, sldu, masku, port, mux, link, history>>

NrLanes == prog.lanes
Lanes == 0..(NrLanes - 1)
Ids == 0..(NrVInsn - 1)

\* The elements of an instruction that are in a lane.
LaneElements(vl, l) == vl \div NrLanes + (IF l < vl % NrLanes THEN 1 ELSE 0)

\* The words it has there.
LaneWords(i, l) ==
    LET ew == prog.insns[i].ew IN 1..((LaneElements(prog.insns[i].vl, l) + ew - 1) \div ew)

OnALU(insn) == insn.op \in {"VADD", "VREDSUM", "VMSEQ"} \cup MU!MaskLogicals

\* Slide and mask unit have places of their own among those that report.
SlideUnit == NrLanes
MaskUnit == NrLanes + 1
Units == Lanes \cup {SlideUnit, MaskUnit}

\* Those that have to report an instruction.
Reporters(insn) ==
    (IF SU!IsSlide(insn) THEN {SlideUnit} ELSE IF MU!Executes(insn) THEN {} ELSE Lanes)
        \cup (IF MU!Serves(insn) THEN {MaskUnit} ELSE {})

-----------------------------------------------------------------------------
(***************************************************************************)
(* Lane sequencer.                                                         *)
(***************************************************************************)
IdleLane == [last_id |-> 0, en_sync |-> FALSE, held |-> None, vfu_operation |-> None,
             vinsn_running |-> {}, vinsn_done |-> {}]

\* Mutant: the same offer is taken in every cycle.
Masked_Never(u, req) == FALSE

\* Mutant: an offer with the same identifier is the same offer.
Masked_Stale(u, req) == req.id = u.last_id

\* The offer is the one the lane took last.
Masked(u, req) == u.en_sync /\ req.id = u.last_id

Takes(u, req) == req # None /\ ~Masked(u, req) /\ u.held = None

\* What comes out of the fall-through register.
Request(u, req) == IF Takes(u, req) THEN req ELSE u.held

\* The instruction runs in the lane, with its part of the elements.
Part(req, l) == [req EXCEPT !.vl = LaneElements(req.vl, l)]

Mutes(req, l) ==
    LaneElements(req.vl, l) = 0 /\ req.op # "VREDSUM" /\ ~SU!IsSlide(req) /\ ~MU!Executes(req)

\* The lane takes up an instruction.
Goes(u, req, busy, ids) ==
    LET r == Request(u, req) IN r # None /\ ~busy /\ r.id \notin u.vinsn_running \cap ids

\* A clock cycle, in which the ALU has finished the instructions "done".
LaneCycle(u, l, req, busy, done, ids) ==
    LET r == Request(u, req)
        runs == u.vinsn_running \cap ids
        go == Goes(u, req, busy, ids)
    IN  [last_id |-> IF Takes(u, req) THEN req.id ELSE u.last_id,
         en_sync |-> req # None /\ (u.en_sync \/ Takes(u, req)),
         held |-> IF busy THEN r ELSE None,
         vfu_operation |-> IF go /\ ~Mutes(r, l) THEN Part(r, l) ELSE None,
         vinsn_running |-> IF go /\ ~Mutes(r, l) THEN runs \cup {r.id} ELSE runs,
         vinsn_done |-> done \cup (IF go /\ Mutes(r, l) THEN {r.id} ELSE {})]

-----------------------------------------------------------------------------
(***************************************************************************)
(* A lane's side of the slide unit.  The words of a slide's source are     *)
(* "coming" for the cycles that the requester and the bank take at least,  *)
(* and then "asked" until the slide unit takes them from the operand       *)
(* queue.  A result is in "result" (the stream register) until it is       *)
(* written, which "final" says a cycle later.                              *)
(***************************************************************************)
IdlePort == [asked |-> <<>>, coming |-> <<<<>>, <<>>>>, result |-> None, final |-> FALSE]

\* The words of a slide, row by row.
Words(insn, l) ==
    LET rows == SU!SourceRows(insn, NrLanes)
        first == CHOOSE r \in rows : \A t \in rows : r <= t
    IN  [n \in 1..Cardinality(rows) |-> SU!SourceWord(insn, NrLanes, l, first + n - 1)]

-----------------------------------------------------------------------------
(***************************************************************************)
(* A lane's side of the ALU and the mask unit.  Of the words a lane        *)
(* requests, the ALU's are in "words", the mask register's in "masks" and  *)
(* the old values of what the mask unit writes in "olds".  A lane's masks  *)
(* come back in "off" (the spill register, which ALU and multiplier share) *)
(* and its results for the mask unit are in "alu" or "mfpu" (the stream    *)
(* registers); what it writes for the mask unit is in "result".            *)
(***************************************************************************)
IdleLink == [words |-> <<>>, masks |-> <<>>, olds |-> <<>>, off |-> <<>>,
             alu |-> None, mfpu |-> None, result |-> None, final |-> FALSE]

\* The words a lane requests for its ALU.
ALUWords(insn, l) ==
    LET bits == MU!ElementBits(insn)
        full == (insn.vl \div NrLanes) \div bits
        elements == CASE insn.op \in MU!MaskLogicals ->
                             IF full * bits * NrLanes = insn.vl THEN full ELSE full + 1
                      [] insn.op = "VREDSUM" /\ LaneElements(insn.vl, l) = 0 -> 1
                      [] OTHER -> LaneElements(insn.vl, l)
    IN  IF OnALU(insn) THEN MU!Ceil(elements, insn.ew) ELSE 0

\* The elements of the mask register a lane requests: bits of its elements, but for an
\* instruction of the mask unit words.
MaskElements(insn) ==
    LET bits == IF MU!Executes(insn) THEN WordBits ELSE MU!ElementBits(insn)
        full == (insn.vl \div NrLanes) \div bits
    IN  IF full * bits * NrLanes = insn.vl THEN full ELSE full + 1

Requested(insn, l) ==
    [words |-> [w \in 1..ALUWords(insn, l) |-> <<insn.i, w>>],
     masks |-> IF ~MU!masked(insn) THEN <<>>
               ELSE [n \in 1..MU!Ceil(MaskElements(insn), insn.ew) |-> [row |-> n - 1, off |-> insn.off]],
     olds |-> IF ~MU!Executes(insn) THEN <<>>
              ELSE [n \in 1..MU!Ceil(insn.vl, MU!Chunk(NrLanes)) |-> <<insn.i, n - 1>>]]

-----------------------------------------------------------------------------
(***************************************************************************)
(* Main sequencer: which instructions it offers, and when.                 *)
(***************************************************************************)
InFlight == UNION {running[l] : l \in Units}

\* The units of a lane that take masks from one register.
MaskTaker(insn) == IF ~MU!masked(insn) THEN None ELSE IF OnALU(insn) THEN "ALU" ELSE "MFPU"

\* A reduction shares the ALUs with no other instruction, and a slide in several
\* turns finds the slide unit idle: so it is when the program leaves time between
\* them.  Nor are there masks for the ALU and the multiplier at a time.  The
\* sequencer does not see to it.
OnItsOwn(insn) ==
    /\ \A n \in 1..offered, l \in Lanes :
           (/\ OnALU(insn) /\ OnALU(prog.insns[n])
            /\ is_reduction(insn) \/ is_reduction(prog.insns[n])) =>
               <<l, n>> \in reported /\ alu[l].result_cnt = 0
    /\ SU!is_stride_np2(insn) => running[SlideUnit] = {} /\ sldu.commit_cnt = 0
    /\ \A n \in 1..offered :
           (MaskTaker(insn) # None /\ MaskTaker(prog.insns[n]) \notin {None, MaskTaker(insn)}) =>
               \A l \in Reporters(prog.insns[n]) : <<l, n>> \in reported

\* All lanes can take an offer: then they have it after this cycle.
AllReady == \A l \in Lanes : lane[l].held = None

\* There is a free identifier, the mask unit is free, and the lanes do not drift apart.
MayOffer ==
    /\ offered < Len(prog.insns)
    /\ pe_req = None \/ AllReady
    /\ InFlight # Ids
    /\ MU!Serves(prog.insns[offered + 1]) => running[MaskUnit] = {}
    /\ \A id \in Ids : id \notin running[0] => \A l \in Lanes : id \notin running[l]
    /\ Apart => OnItsOwn(prog.insns[offered + 1])

\* The lowest free identifier.
FreeId(ids) == CHOOSE id \in Ids \ ids : \A n \in Ids \ ids : id <= n

Offer(n) == prog.insns[n] @@ [i |-> n, id |-> FreeId(InFlight)]

-----------------------------------------------------------------------------
Init ==
    /\ prog \in Programs
    /\ offered = 0 /\ pe_req = None
    /\ running = [l \in Units |-> {}]
    /\ lane = [l \in Lanes |-> IdleLane]
    /\ alu = [l \in Lanes |-> IdleALU] /\ mfpu = [l \in Lanes |-> MF!IdleMFPU]
    /\ sldu = SU!IdleSldu(NrLanes) /\ port = [l \in Lanes |-> IdlePort] /\ mux = FALSE
    /\ masku = MU!IdleMasku(NrLanes) /\ link = [l \in Lanes |-> IdleLink]
    /\ sampled = [l \in Lanes |-> <<>>] /\ written = [l \in Lanes |-> <<>>]
    /\ reported = {}

\* What the ALU finds of operands and masks.
Operand(l) == IF link[l].words = <<>> THEN None ELSE Head(link[l].words)
Mask(l) == IF link[l].off = <<>> THEN None ELSE Head(link[l].off)

\* Lanes whose ALU could use operands, and whose result could be written.
Waiting == {l \in Lanes : Issues(alu[l], Operand(l), Mask(l)) \/ Reduces(alu[l], Operand(l))}
Writing == {l \in Lanes : alu_result_req(alu[l])}
MfpuWaiting == {l \in Lanes : mfpu[l].issue_cnt # 0}
MfpuWriting == {l \in Lanes : MF!mfpu_result_req(mfpu[l])}
Dividing == {l \in Lanes : mfpu[l].div.serdiv # None /\ ~mfpu[l].div.serdiv.done}
Requesting == {l \in Lanes : Request(lane[l], pe_req) # None}

\* Lanes whose partial result the slide unit takes; lanes that take one from it.
Sending == {l \in Lanes : mux /\ alu[l].state = "INTER_LANES_REDUCTION_TX"
                          /\ l \in SU!Ready(sldu)}
Taking == {l \in Lanes : mux /\ l \in SU!RedValid(sldu) /\ Len(alu[l].spill) < 2}

\* Lanes that have a word for the slide unit; lanes with a result of it to write.
Feeding == {l \in Lanes : ~mux /\ port[l].asked # <<>>}
Landing == {l \in Lanes : port[l].result # None}
MaskLanding == {l \in Lanes : link[l].result # None}

\* What the mask unit finds: results, and if they are there masks and old values.
Results == [l \in Lanes |-> IF MU!FromMFPU(masku) THEN link[l].mfpu ELSE link[l].alu]
MaskChunk(there) ==
    IF there /\ \A l \in Lanes : link[l].masks # <<>> THEN Head(link[0].masks) ELSE None
OldChunk(there) ==
    IF there /\ \A l \in Lanes : link[l].olds # <<>> THEN Head(link[0].olds) ELSE None

\* The lanes whose register before the mask unit has room for a result of the ALU
\* or of the multiplier, which it empties itself if it uses the results.
Condenses(k) == MU!Produces(masku, Results, OldChunk(k.olds), NrLanes)
ALUGiving(k) ==
    {l \in Lanes : /\ mask_operand_valid(alu[l])
                   /\ link[l].alu = None \/ (Condenses(k) /\ ~MU!FromMFPU(masku))}
MfpuGiving(k) ==
    {l \in Lanes : /\ MF!mask_operand_valid(mfpu[l])
                   /\ link[l].mfpu = None \/ (Condenses(k) /\ MU!FromMFPU(masku))}

\* A clock cycle of an ALU up to its commit; what it commits; the rest of the cycle.
Works(l, operand, grant) ==
    LET u == Execute(alu[l], l, IF operand THEN Operand(l) ELSE None, Mask(l), l \in Sending)
    IN  IF grant THEN WriteResult(u, alu[l]) ELSE u

MfpuWorks(l, operand, grant, divides) ==
    IF MF!Idle(mfpu[l]) THEN mfpu[l]
    ELSE LET u == MF!Execute(mfpu[l], operand, Mask(l), divides)
         IN  IF grant THEN MF!WriteResult(u, mfpu[l]) ELSE u

Finishes(l, u) == IF Commits(u, alu[l]) THEN {Committed(alu[l])} ELSE {}

MfpuFinishes(l, u) == IF MF!Commits(u, mfpu[l]) THEN {MF!Committed(mfpu[l])} ELSE {}

Ends(l, u) ==
    LET insn == lane[l].vfu_operation
        mine == IF insn # None /\ OnALU(insn) THEN insn ELSE None
        d == Clear(Accept(u, alu[l], mine, l, NrLanes), alu[l])
    IN  IF l \in Taking THEN [d EXCEPT !.spill = Append(@, SU!ResultWord(sldu, l, NrLanes)[0])]
        ELSE d

\* The result a lane asks the register file to take.
Result(l) == alu[l].result_queue[alu[l].read_pnt]

MfpuResult(l) ==
    LET entry == mfpu[l].result_queue[mfpu[l].read_pnt]
    IN  [at |-> entry.at, word |-> {d \in entry.data : d[1] \in entry.be}]

\* What a lane sends the slide unit: the result at the read pointer of its ALU, or a
\* word of its operand queue.
SentWord(l, feeds) ==
    IF mux THEN (IF alu[l].state = "INTER_LANES_REDUCTION_TX" THEN 0 :> Result(l).word ELSE None)
    ELSE IF l \in feeds THEN Head(port[l].asked)
    ELSE None

\* The stream register has room.
Empties(l, lands) == port[l].result = None \/ l \in lands

SlduCycle(feeds, lands) ==
    SU!Cycle(sldu, NrLanes, [l \in Lanes |-> SentWord(l, feeds)],
             {l \in Lanes : IF mux THEN Len(alu[l].spill) < 2 ELSE Empties(l, lands)},
             {l \in Lanes : port[l].final}, pe_req, InFlight)

\* The slide that the slide unit reports.
Slid == IF sldu'.vinsn_done = {} \/ SU!ForLanes(SU!Committed(sldu)) THEN {}
        ELSE {<<SlideUnit, SU!Committed(sldu).i>>}

\* The words of a lane's part of a result, and where they belong.
SlduResult(l) ==
    LET word == SU!ResultWord(sldu, l, NrLanes)
    IN  [at |-> sldu.result_queue[sldu.read_pnt].at, word |-> {<<e, word[e]>> : e \in DOMAIN word}]

PortCycle(l, busy, feeds, lands) ==
    LET r == Request(lane[l], pe_req)
        left == IF l \in feeds \cap SU!Ready(sldu) THEN Tail(port[l].asked) ELSE port[l].asked
        requested == Goes(lane[l], pe_req, l \in busy, InFlight) /\ SU!IsSlide(r)
    IN  [asked |-> left \o port[l].coming[1],
         coming |-> <<port[l].coming[2], IF requested THEN Words(r, l) ELSE <<>>>>,
         result |-> IF ~Empties(l, lands) THEN port[l].result
                    ELSE IF l \in SU!Requests(sldu) THEN SlduResult(l)
                    ELSE None,
         final |-> l \in lands]

MaskuCycle(k) ==
    MU!Cycle(masku, NrLanes,
             [a |-> Results, b |-> OldChunk(k.olds), m |-> MaskChunk(k.masks),
              ready |-> {l \in Lanes : Len(link[l].off) < 2},
              gnt |-> {l \in Lanes : link[l].result = None \/ l \in k.lands},
              final |-> {l \in Lanes : link[l].final}],
             pe_req, InFlight)

\* What a lane sends the mask unit.
ALUOperand(l) == [src |-> Result(l).word, off |-> Result(l).off]
MfpuOperand(l) ==
    LET entry == mfpu[l].result_queue[mfpu[l].read_pnt] IN [src |-> entry.data, off |-> entry.off]

Dropped(taken, words) == IF taken THEN Tail(words) ELSE words

LinkCycle(l, busy, operands, m, k) ==
    LET old == link[l]
        requests == IF Goes(lane[l], pe_req, l \in busy, InFlight)
                    THEN Requested(Request(lane[l], pe_req), l)
                    ELSE [words |-> <<>>, masks |-> <<>>, olds |-> <<>>]
        usedUp == MU!TakesMasks(masku, MaskChunk(k.masks)) /\ MU!LastOfChunk(masku, NrLanes)
        masked == \/ l \in operands /\ Issues(alu[l], Operand(l), Mask(l)) /\ MU!masked(Issued(alu[l]))
                  \/ MF!TakesMask(mfpu[l], l \in m.operands, Mask(l))
        comes == Len(old.off) < 2 /\ MU!Offered(masku, l) # None
    IN  [words |-> Dropped(l \in operands, old.words) \o requests.words,
         masks |-> Dropped(usedUp, old.masks) \o requests.masks,
         olds |-> Dropped(Condenses(k) /\ MU!FillsUp(masku, NrLanes), old.olds) \o requests.olds,
         off |-> Dropped(masked, old.off) \o (IF comes THEN <<MU!Offered(masku, l)>> ELSE <<>>),
         alu |-> IF l \in ALUGiving(k) THEN ALUOperand(l)
                 ELSE IF Condenses(k) /\ ~MU!FromMFPU(masku) THEN None ELSE old.alu,
         mfpu |-> IF l \in MfpuGiving(k) THEN MfpuOperand(l)
                  ELSE IF Condenses(k) /\ MU!FromMFPU(masku) THEN None ELSE old.mfpu,
         result |-> IF old.result # None /\ l \notin k.lands THEN old.result
                    ELSE IF l \in MU!Requests(masku) THEN MU!ResultWord(masku, l, NrLanes)
                    ELSE None,
         final |-> l \in k.lands]

\* What slide unit and mask unit report.
Condensed == IF masku'.vinsn_done = {} THEN {} ELSE {<<MaskUnit, masku.vinsn.i>>}
DoneBy(u) ==
    IF u = SlideUnit THEN sldu.vinsn_done
    ELSE IF u = MaskUnit THEN masku.vinsn_done ELSE lane[u].vinsn_done

Cycle(offers, busy, operands, grants, m, feeds, lands, k) ==
    /\ written' = [l \in Lanes |->
            written[l] \o (IF l \in grants /\ Result(l).at # None
                          THEN <<[at |-> Result(l).at, word |-> <<Result(l).word, Result(l).be>>]>>
                          ELSE <<>>)
                       \o (IF l \in m.grants THEN <<MfpuResult(l)>> ELSE <<>>)
                       \o (IF l \in lands THEN <<port[l].result>> ELSE <<>>)
                       \o (IF l \in k.lands THEN <<link[l].result>> ELSE <<>>)]
    /\ offered' = IF offers THEN offered + 1 ELSE offered
    /\ pe_req' = IF offers THEN Offer(offered + 1)
                 ELSE IF AllReady THEN None ELSE pe_req
    /\ running' = [u \in Units |->
            (running[u] \ DoneBy(u)) \cup
            (IF offers /\ u \in Reporters(prog.insns[offered + 1])
             THEN {FreeId(InFlight)} ELSE {})]
    /\ sampled' = [l \in Lanes |-> IF Takes(lane[l], pe_req)
                                   THEN Append(sampled[l], pe_req.i) ELSE sampled[l]]
    /\ mux' = SU!Reducing(sldu)
    /\ sldu' = SlduCycle(feeds, lands)
    /\ port' = [l \in Lanes |-> PortCycle(l, busy, feeds, lands)]
    /\ masku' = MaskuCycle(k)
    /\ link' = [l \in Lanes |-> LinkCycle(l, busy, operands, m, k)]
    /\ \E worked \in {[l \in Lanes |-> Works(l, l \in operands, l \in grants \cup ALUGiving(k))]},
          computed \in {[l \in Lanes |-> MfpuWorks(l, l \in m.operands,
                                                   l \in m.grants \cup MfpuGiving(k),
                                                   l \in m.divided)]} :
         \E done \in {[l \in Lanes |-> Finishes(l, worked[l]) \cup MfpuFinishes(l, computed[l])]},
            next \in {[l \in Lanes |-> Commit(worked[l], alu[l], l, NrLanes)]},
            muted \in {{l \in Requesting \ busy : Mutes(Request(lane[l], pe_req), l)}} :
           /\ lane' = [l \in Lanes |-> LaneCycle(lane[l], l, pe_req, l \in busy,
                                                 {insn.id : insn \in done[l]}, InFlight)]
           /\ alu' = [l \in Lanes |-> Ends(l, next[l])]
           /\ mfpu' = [l \in Lanes |-> MF!Accept(MF!Commit(computed[l], mfpu[l]), mfpu[l],
                                                lane[l].vfu_operation)]
           /\ reported' = reported \cup Slid \cup Condensed
                   \cup UNION {{<<l, insn.i>> : insn \in {d \in done[l] : ~MU!Executes(d)}} : l \in Lanes}
                   \cup {<<l, Request(lane[l], pe_req).i>> : l \in muted}
    /\ UNCHANGED prog

\* Which results the register file takes.
Grants(lanes) == IF prog.prompt THEN {lanes} ELSE SUBSET lanes

\* Which lanes' words the slide unit finds.
Feeds == IF prog.prompt THEN {{}} \cup ({Feeding} \cap {Lanes}) ELSE SUBSET Feeding

\* Whether a word that was requested is there.
There(words) ==
    IF prog.prompt \/ \E l \in Lanes : words[l] = <<>> THEN {TRUE} ELSE BOOLEAN
Masks == There([l \in Lanes |-> link[l].masks])
Olds == There([l \in Lanes |-> link[l].olds])

Next ==
    \E offers \in {FALSE} \cup {MayOffer},
       busy \in SUBSET Requesting, operands \in SUBSET Waiting, grants \in Grants(Writing),
       m \in [operands : SUBSET MfpuWaiting, grants : Grants(MfpuWriting),
              divided : SUBSET Dividing],
       feeds \in Feeds, lands \in Grants(Landing),
       k \in [masks : Masks, olds : Olds, lands : Grants(MaskLanding)] :
        Cycle(offers, busy, operands, grants, m, feeds, lands, k)

Spec == Init /\ [][Next]_vars

\* While something can happen, it does: no bank, no requester and no program holds
\* out forever, and every cycle that changes anything brings the program further.
FairSpec == Spec /\ WF_vars(Next)

-----------------------------------------------------------------------------
\* All the elements of an instruction, each once.
Elements(i) == UNION {{<<i, l, w>> : w \in LaneWords(i, l)} : l \in Lanes}

\* The elements of its destination that a slide writes, and where each comes from.
Touched(insn) ==
    {e \in 0..(insn.vl - 1) :
        insn.op = "VSLIDEDOWN" \/ insn.use_scalar_op \/ e >= insn.stride}
SourceOf(insn, i, e) ==
    IF insn.use_scalar_op /\ e = (IF insn.op = "VSLIDEUP" THEN 0 ELSE insn.vl - 1)
    THEN <<i, -1>>
    ELSE <<i, IF insn.op = "VSLIDEUP" THEN e - insn.stride ELSE e + insn.stride>>
DestRow(insn, e) == e \div (NrLanes * insn.ew)

\* What a slide puts into a lane's word of a row.
SlideWord(i, l, row) ==
    LET insn == prog.insns[i] IN
    {<<(e % (NrLanes * insn.ew)) \div NrLanes, SourceOf(insn, i, e)>> :
        e \in {e \in Touched(insn) : DestRow(insn, e) = row /\ e % NrLanes = l}}

\* The words a lane writes for an instruction, and what is in them.
ResultWords(i, l) ==
    LET insn == prog.insns[i] IN
    CASE insn.op = "VREDSUM" -> IF l = 0 THEN {0} ELSE {}
      [] SU!IsSlide(insn) -> {DestRow(insn, e) : e \in Touched(insn)}
      [] MU!Executes(insn) -> 0..(MU!Ceil(insn.vl, MU!Chunk(NrLanes)) - 1)
      [] OTHER -> LaneWords(i, l)
\* The elements of a lane's word that the instruction writes.
Element(insn, l, w, e) == ((w - 1) * insn.ew + e - 1) * NrLanes + l
Held(insn, l, w) == {e \in 1..insn.ew : Element(insn, l, w, e) \in insn.off}

\* The bit for an element of a comparison.
BitOf(i, element) ==
    LET insn == prog.insns[i]
        l == element % NrLanes
        w == element \div (NrLanes * insn.ew) + 1
        e == ((element \div NrLanes) % insn.ew) + 1
    IN  <<IF insn.op = "VMFEQ" THEN {<<x, i, w>> : x \in 1..insn.ew} ELSE Term(i, l, w), e>>

\* The bits that a result of the mask unit determines: those of its elements, and, if
\* it has less than a chunk, those behind them, which stay.
Settles(insn, bit) == bit < insn.vl \/ insn.vl < MU!Chunk(NrLanes)

\* What a chunk of a result of the mask unit is in a lane.
MaskWord(i, l, row) ==
    LET insn == prog.insns[i]
        bits == MU!ElementBits(insn)
        Bit(p) == row * MU!Chunk(NrLanes) + p
        mine == {p \in 0..(MU!Chunk(NrLanes) - 1) :
                    MU!BitLane(insn, p, NrLanes) = l /\ Bit(p - (p % bits)) < insn.vl}
    IN  {<<p, CASE Bit(p) >= insn.vl -> <<<<i, row>>, p>>
                [] insn.op \in MU!MaskLogicals -> <<Term(i, l, row + 1), p>>
                [] OTHER -> BitOf(i, Bit(p))>> :
            p \in {p \in mine : Bit(p) \notin insn.off /\ Settles(insn, Bit(p))}}

ResultOf(i, l, w) ==
    LET part == Part(prog.insns[i], l) IN
    CASE SU!IsSlide(part) -> SlideWord(i, l, w)
      [] MU!Executes(part) -> MaskWord(i, l, w)
      [] ~OnALU(part) -> {<<e, i, w>> : e \in MF!Present(part, w) \ Held(part, l, w)}
      [] part.op = "VREDSUM" -> <<SetToBag(Elements(i) \cup {<<i, 0, 0>>}), {1}>>
      [] OTHER -> <<Term(i, l, w), MF!Present(part, w) \ Held(part, l, w)>>

\* What a result writes, in a slide's without the elements behind the last, in a
\* mask's without the bits it does not settle or that a mask holds back.
Body(result, l) ==
    LET insn == prog.insns[result.at[1]] IN
    CASE SU!IsSlide(insn) ->
             {d \in result.word : result.at[2] * SU!Row(insn, NrLanes) + d[1] * NrLanes + l < insn.vl}
      [] MU!Executes(insn) ->
             {d \in result.word : LET bit == result.at[2] * MU!Chunk(NrLanes) + d[1]
                                  IN  bit \notin insn.off /\ Settles(insn, bit)}
      [] OTHER -> result.word

WrittenWords(i, l) == {w \in 0..prog.insns[i].vl :
                          \E n \in DOMAIN written[l] : written[l][n].at = <<i, w>>}

TypeOK ==
    /\ offered \in 0..Len(prog.insns)
    /\ \A l \in Lanes :
           /\ alu[l].commit_cnt \in 0..VInsnQueueDepth /\ alu[l].issue_cnt \in 0..alu[l].commit_cnt
           /\ alu[l].result_cnt \in 0..ResultQueueDepth /\ Len(alu[l].spill) <= 2
           /\ alu[l].transactions \in 0..Transactions(NrLanes)
           /\ Len(sldu.operand[l]) <= 2 /\ running[l] \subseteq Ids
           /\ mfpu[l].commit_cnt \in 0..VInsnQueueDepth
           /\ mfpu[l].processing_cnt \in 0..mfpu[l].commit_cnt
           /\ mfpu[l].issue_cnt \in 0..mfpu[l].processing_cnt
           /\ mfpu[l].result_cnt \in 0..ResultQueueDepth
    /\ sldu.commit_cnt \in 0..SlduDepth /\ sldu.issue_cnt \in 0..sldu.commit_cnt
    /\ sldu.result_cnt \in 0..ResultQueueDepth
    /\ masku.mask_cnt \in 0..MU!MaskQueueDepth /\ masku.result_cnt \in 0..MU!ResultQueueDepth
    /\ masku.issue_cnt \in 0..masku.commit_cnt

\* A result that is written is made of every element of its instruction once,
\* whatever the lanes' delays, and of nothing else (p_valu, p_sldu).
ResultsRight ==
    \A l \in Lanes : \A n \in DOMAIN written[l] :
        LET at == written[l][n].at
        IN  Body(written[l][n], l) = ResultOf(at[1], l, at[2])

\* What lies behind the last element, and in a mask what is held back, stays as it is.
TailKept ==
    \A l \in Lanes : \A n \in DOMAIN written[l] :
        LET result == written[l][n]
        IN  \A d \in result.word \ Body(result, l) :
                MU!Executes(prog.insns[result.at[1]]) /\ d[2] = <<result.at, d[1]>>

\* No result is written twice, none by a lane that does not hold it.
WrittenOnce ==
    \A l \in Lanes : \A n \in DOMAIN written[l] :
        /\ written[l][n].at[2] \in ResultWords(written[l][n].at[1], l)
        /\ \A m \in DOMAIN written[l] : written[l][m].at = written[l][n].at => m = n

\* A lane takes every instruction that is offered, once, in order.
SampledOnce ==
    \A l \in Lanes : /\ \A n \in DOMAIN sampled[l] : sampled[l][n] = n
                     /\ Len(sampled[l]) \in (offered - 1)..offered

\* The lanes a report is about: that of the slide unit is about all, so is that of the
\* mask unit if it writes the result.
ReportedOf(r) ==
    CASE r[1] = SlideUnit -> Lanes
      [] r[1] = MaskUnit -> IF MU!Executes(prog.insns[r[2]]) THEN Lanes ELSE {}
      [] OTHER -> {r[1]}

\* What a lane reports as done is written, but for the result of a reduction.
WrittenWhenReported ==
    \A r \in reported : prog.insns[r[2]].op # "VREDSUM" =>
        \A l \in ReportedOf(r) : WrittenWords(r[2], l) = ResultWords(r[2], l)

\* What a lane reports as done is written, the result of a reduction too.
AllWrittenWhenReported ==
    \A r \in reported : \A l \in ReportedOf(r) : WrittenWords(r[2], l) = ResultWords(r[2], l)

\* The lanes and the slide unit agree how far a reduction is: a lane that has
\* received a word of round n waits until all lanes have sent theirs.
InStep ==
    \A l, m \in Lanes :
        /\ alu[l].state = "INTER_LANES_REDUCTION_RX" /\ alu[m].state = "INTRA_LANE_REDUCTION"
               => alu[l].transactions = Transactions(NrLanes)
        /\ {alu[l].state, alu[m].state} \subseteq
               {"INTER_LANES_REDUCTION_TX", "INTER_LANES_REDUCTION_RX"}
               => alu[l].transactions - alu[m].transactions \in -1..1

\* When all is done nothing is left in the units and between them that the next
\* instruction would find: no accumulator, no word or mask on the way, no stride.
NothingLeft ==
    (offered = Len(prog.insns) /\ pe_req = None /\ InFlight = {}) =>
        /\ \A l \in Lanes :
               /\ alu[l].state = "NO_REDUCTION" /\ alu[l].spill = <<>> /\ sldu.operand[l] = <<>>
               /\ alu[l].result_cnt = 0 => Accumulator(alu[l]) = EmptyBag
               /\ MF!Idle(mfpu[l])
               /\ link[l] = [IdleLink EXCEPT !.final = link[l].final]
        /\ sldu.state = "SLIDE_IDLE" /\ sldu.result_cnt = 0 /\ sldu.red_stride = 1 /\ ~sldu.loop
        /\ masku.issue_cnt = 0 /\ masku.mask_cnt = 0 /\ masku.result_cnt = 0

\* Every instruction is offered and reported by every lane, and its results are
\* written: no lane waits for another, or for slide or mask unit, in vain.
EveryInsnFinishes ==
    <>(\A n \in DOMAIN prog.insns :
           /\ \A u \in Reporters(prog.insns[n]) : <<u, n>> \in reported
           /\ \A l \in Lanes : WrittenWords(n, l) = ResultWords(n, l))

-----------------------------------------------------------------------------
(***************************************************************************)
(* What the runs check: the properties above, by subject.                  *)
(***************************************************************************)

\* The queues keep their limits and the rounds of a reduction are counted alike
\* by lanes and slide unit.
CountedAlike == TypeOK /\ InStep

\* Every element counts once, in one result.
EveryElementOnce == ResultsRight /\ WrittenOnce

\* What is reported as done is written, and leaves nothing behind.
CompleteWhenReported == WrittenWhenReported /\ NothingLeft
=============================================================================
