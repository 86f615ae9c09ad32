---------------------------- MODULE AraSequencer ----------------------------
(***************************************************************************)
(* Ara's main sequencer.  It takes instructions from the dispatcher one at *)
(* a time, finds the instructions in flight each one depends on, gives it  *)
(* an identifier and broadcasts it to the lanes and to the other units.    *)
(*                                                                         *)
(* One step is one clock cycle.  The branch of the state machine that is   *)
(* taken is the action; what the rest of the machine does in that cycle is *)
(* given by four inputs:                                                   *)
(*    done   the pairs <<unit, id>> of instructions reported as finished   *)
(*    rdy    every lane is ready for the instruction being broadcast       *)
(*    ack    the address generator acknowledges a memory operation         *)
(*    sv     the scalar response is valid                                  *)
(***************************************************************************)
EXTENDS AraPkg, Sequences

CONSTANTS
    Requests,     \* the instructions the dispatcher may ask for
    Chaining,     \* may an instruction finish before one it waits for?
    MaxDone,      \* bound on the number of instructions finishing per cycle
    MaxMaskB      \* bound on the operands waiting in the MaskB queue

ASSUME RequestsAssumption ==
    /\ Requests \subseteq Insns
    /\ \A r \in Requests : r.op = "scalar" => r.vd = NoReg
ASSUME ChainingAssumption == Chaining \in BOOLEAN

VARIABLES
    \* The dispatcher's output register.
    ara_req, ara_req_valid, ara_req_token,
    \* The sequencer.
    state, pe_req, pe_req_valid,
    ara_req_token_q, gold_ticket, insn_queue_cnt,
    pe_vinsn_running, read_list, write_list, global_hazard_table,
    running_mask_insn,
    \* The rest of the machine: the instructions in each unit's queue, the
    \* owners of the operands fetched for lane 0's MaskB queue, and the memory
    \* operations the address generator has not acknowledged.
    busy, maskb, addrgen,
    \* History: what each identifier stands for, what was issued before, and
    \* its registers that a later instruction wrote and is done with.
    insn, older, overtaken

reqVars == <<ara_req, ara_req_valid, ara_req_token>>
seqVars == <<state, pe_req, pe_req_valid, ara_req_token_q, gold_ticket,
             insn_queue_cnt, pe_vinsn_running, read_list, write_list,
             global_hazard_table, running_mask_insn>>
unitVars == <<busy, maskb, addrgen>>
histVars == <<insn, older, overtaken>>
vars == <<reqVars, seqVars, unitVars, histVars>>

\* A register that holds no instruction.
NoInsn == [op |-> "alu", vs1 |-> NoReg, vs2 |-> NoReg, vd |-> NoReg,
           vm |-> TRUE, use_vd_op |-> FALSE]
NoPeReq == [id |-> 0, insn |-> NoInsn]

\* The owner of a MaskB operand fetched for a scalar move.
ScalarMove == NoId

vinsn_running == UNION {pe_vinsn_running[pe] : pe \in PEs}

Init ==
    /\ ara_req = NoInsn
    /\ ara_req_valid = FALSE
    /\ ara_req_token = 0
    /\ state = "IDLE"
    /\ pe_req = NoPeReq
    /\ pe_req_valid = FALSE
    /\ ara_req_token_q = 1
    /\ gold_ticket = [v \in VFUs |-> FALSE]
    /\ insn_queue_cnt = [v \in VFUs |-> 0]
    /\ pe_vinsn_running = [pe \in PEs |-> {}]
    /\ read_list = [x \in Regs |-> NoId]
    /\ write_list = [x \in Regs |-> NoId]
    /\ global_hazard_table = [i \in Ids |-> {}]
    /\ running_mask_insn = FALSE
    /\ busy = [u \in Units |-> {}]
    /\ maskb = <<>>
    /\ addrgen = <<>>
    /\ insn = [i \in Ids |-> NoInsn]
    /\ older = [i \in Ids |-> {}]
    /\ overtaken = [i \in Ids |-> {}]

-----------------------------------------------------------------------------
(***************************************************************************)
(* What the units may do in a cycle.                                       *)
(***************************************************************************)

MaskU == <<OffsetMask, "MaskUnit">>
SlideU == <<OffsetSlide, "SlideUnit">>

\* The lanes hold no work of instruction id any more.
LanesAreDone(id) == \A u \in LaneUnits : id \notin busy[u]

\* Lanes other than lane 0 may have no element of an in-lane instruction to
\* process: they report it as done without queueing it.
MayBeMuted(u, id) ==
    u \in LaneUnits /\ u[1] # 0 /\ insn[id].op \in {"alu", "fpu"}

(***************************************************************************)
(* Unit u may report instruction id.  Units work in order.  An instruction *)
(* that is still being broadcast lacks the operands of some lane, except   *)
(* an unmasked load, which takes none.  Lane 0 ends a reduction once the   *)
(* slide unit has exchanged the partial results; the mask unit ends a mask *)
(* instruction once it has the lanes' results, and its answer is taken.    *)
(***************************************************************************)
MayFinish(u, id) ==
    LET r == insn[id] IN
    /\ id \in busy[u]
    /\ MayBeMuted(u, id) \/ older[id] \cap busy[u] = {}
    /\ u \in SharedUnits /\ pe_req_valid /\ pe_req.id = id
         => is_load(r.op) /\ r.vm
    /\ is_reduction(r.op) /\ u[1] = 0 => id \notin busy[SlideU]
    /\ u = MaskU /\ vfu(r.op) = "MaskUnit" => LanesAreDone(id)
    /\ u = MaskU /\ vd_scalar(r.op) => ~(state = "WAIT" /\ pe_req.id = id)
    /\ Chaining \/ global_hazard_table[id] = {}

\* The reports of a cycle: at most one per unit.
DoneSets ==
    LET may == {d \in Units \X Ids : MayFinish(d[1], d[2])}
    IN  {D \in SUBSET may :
           /\ Cardinality(D) <= MaxDone
           /\ \A d, e \in D : d[1] = e[1] => d = e}

\* The answer to a scalar request comes from the mask unit for VCPOP and
\* VFIRST, and from the MaskB operand queue of lane 0 for everything else.
ScalarRespPossible ==
    IF vd_scalar(pe_req.insn.op)
    THEN pe_req.id \in busy[MaskU] /\ LanesAreDone(pe_req.id)
    ELSE maskb # <<>>

\* Inputs that make no difference to the sequencer are left low.
Possible(rdy, ack, sv) ==
    /\ rdy => pe_req_valid /\ Len(maskb) < MaxMaskB
    /\ ack => addrgen # <<>>
    /\ sv => state = "WAIT" /\ ScalarRespPossible

\* The instruction being broadcast reads its operand through MaskB.
UsesMaskB(r) == vfu(r.op) = "None" \/ (vfu(r.op) = "MaskUnit" /\ r.use_vd_op)

MaskInsnDone(done) ==
    \E d \in done : d[1] = MaskU /\ UsesMaskB(insn[d[2]])

Drop(seq, take) == IF take /\ seq # <<>> THEN Tail(seq) ELSE seq

\* The MaskB queue: emptied by the mask unit and by scalar answers, filled
\* once the lanes have taken the request.
MaskB(done, rdy, popped) ==
    maskb' = Drop(Drop(maskb, popped), MaskInsnDone(done))
               \o (IF rdy /\ UsesMaskB(pe_req.insn)
                   THEN IF vfu(pe_req.insn.op) = "None"
                        THEN <<ScalarMove>> ELSE <<pe_req.id>>
                   ELSE <<>>)

-----------------------------------------------------------------------------
(***************************************************************************)
(* The registers that are updated in every cycle.                          *)
(***************************************************************************)

Finished(done, u) == {d[2] : d \in {e \in done : e[1] = u}}
FinishedAt(done, pe) == {d[2] : d \in {e \in done : e[1][1] = pe}}

\* Mutant: an entry outlives its instruction.
Valid_Stale(list) == list

\* Lists keep an entry as long as its instruction is running.
Valid(list) == [x \in Regs |-> IF list[x] \in vinsn_running
                               THEN list[x] ELSE NoId]

\* The queue counters, and the ticket of an instruction that was counted.
accepted_insn == ara_req_valid /\ ara_req_token_q # ara_req_token

\* Mutant: the instruction at the door is counted in every cycle.
cnt_up_EveryCycle(v) == ara_req_valid /\ v \in target_vfus(ara_req)

cnt_up(v) == accepted_insn /\ v \in target_vfus(ara_req)
cnt_down(v, done) ==
    IF v = "None" THEN cnt_up(v)
    ELSE \E d \in done : d[1] \in CountedUnits(v)

\* Mutant: no ticket for the instruction that takes the last place.
takes_ticket_Late(v) ==
    v \in target_vfus(ara_req) /\ insn_queue_cnt[v] >= InsnQueueDepth[v]

takes_ticket(v) ==
    v \in target_vfus(ara_req) /\ insn_queue_cnt[v] >= InsnQueueDepth[v] - 1

Counters(done, ready) ==
    /\ insn_queue_cnt' =
         [v \in VFUs |->
            IF cnt_up(v) = cnt_down(v, done) THEN insn_queue_cnt[v]
            ELSE IF cnt_up(v) THEN (insn_queue_cnt[v] + 1) % CounterRange
            ELSE (insn_queue_cnt[v] - 1) % CounterRange]
    /\ gold_ticket' =
         [v \in VFUs |->
            IF accepted_insn /\ ~ready THEN takes_ticket(v)
            ELSE gold_ticket[v]]
    /\ ara_req_token_q' = IF ara_req_valid THEN ara_req_token
                          ELSE ara_req_token_q

RunningMaskInsn(done, rdy) ==
    running_mask_insn' =
        \/ rdy /\ vfu(pe_req.insn.op) = "MaskUnit"
        \/ running_mask_insn /\ Finished(done, MaskU) = {}

\* Mutant: a token of more than one bit.
next_token_Wide == ara_req_token + 1

next_token == 1 - ara_req_token

\* The dispatcher loads its register when the sequencer is ready, with a new
\* instruction or with none, and flips the token after each instruction.
Dispatcher(ready) ==
    IF ready
    THEN /\ ara_req_token' = IF ara_req_valid THEN next_token
                             ELSE ara_req_token
         /\ \/ ara_req_valid' = FALSE /\ ara_req' = NoInsn
            \/ ara_req_valid' = TRUE /\ ara_req' \in Requests
    ELSE UNCHANGED reqVars

\* A cycle in which no instruction becomes running.
NoIssue(done, table) ==
    /\ pe_vinsn_running' = [pe \in PEs |->
                              pe_vinsn_running[pe] \ FinishedAt(done, pe)]
    /\ read_list' = Valid(read_list)
    /\ write_list' = Valid(write_list)
    /\ global_hazard_table' =
         [i \in Ids |-> table[i] \cap vinsn_running']
    /\ busy' = [u \in Units |-> busy[u] \ Finished(done, u)]
    /\ insn' = [i \in Ids |-> IF i \in vinsn_running' THEN insn[i] ELSE NoInsn]
    /\ older' = [i \in Ids |-> IF i \in vinsn_running'
                               THEN older[i] \cap vinsn_running' ELSE {}]

\* The registers of instruction i that a later writer which now finishes, or
\* finished before, has written.
Passed(i) ==
    overtaken[i] \cup
      {x \in Writes(insn[i]) :
         \E k \in vinsn_running \ vinsn_running' :
            i \in older[k] /\ x \in Writes(insn[k])}

Overtakes ==
    overtaken' = [i \in Ids |-> IF i \in vinsn_running \cap vinsn_running'
                                THEN Passed(i) ELSE {}]

\* What happens in every cycle, whatever the state machine does.
EveryCycle(done, rdy, ready) ==
    /\ Counters(done, ready)
    /\ RunningMaskInsn(done, rdy)
    /\ Dispatcher(ready)
    /\ Overtakes

AddrgenAcks(ack) == addrgen' = Drop(addrgen, ack)

-----------------------------------------------------------------------------
(***************************************************************************)
(* Issue conditions and hazards.                                           *)
(***************************************************************************)

\* The request on the PE interface is stuck: some lane is not ready for it.
\* Unmasked loads ask nothing of the lanes.
Stuck(rdy) ==
    pe_req_valid /\ ~rdy /\ ~(is_load(pe_req.insn.op) /\ pe_req.insn.vm)

\* Mutant: lane 0 is taken to be the last lane to finish.
stall_lanes_desynch_Never == FALSE

stall_lanes_desynch ==
    \E i \in Ids : /\ i \notin pe_vinsn_running[0]
                   /\ \E l \in Lanes \ {0} : i \in pe_vinsn_running[l]

\* Mutant: a ticket lets the instruction in whatever the count.
priority_pass_AnyCount(v) ==
    gold_ticket[v] /\ ara_req_token_q = ara_req_token

priority_pass(v) ==
    /\ gold_ticket[v]
    /\ insn_queue_cnt[v] = InsnQueueDepth[v]
    /\ ara_req_token_q = ara_req_token

vinsn_queue_issue ==
    \A v \in target_vfus(ara_req) :
        insn_queue_cnt[v] < InsnQueueDepth[v] \/ priority_pass(v)

vinsn_running_full == vinsn_running = Ids

CanIssue == vinsn_queue_issue /\ ~stall_lanes_desynch /\ ~vinsn_running_full

\* The lowest identifier that is not running.
IsNextId(id) == id \notin vinsn_running /\ 0..(id - 1) \subseteq vinsn_running

\* The running instruction a list names for a register; NoReg has none.
LastAccess(list, x) == IF x \in Regs THEN {Valid(list)[x]} \ {NoId} ELSE {}

\* Mutants: no write-after-read, no write-after-write hazards.
WarHazard_None == {}
hazard_vd_None == {}

WarHazard == LastAccess(read_list, ara_req.vd)
hazard_vs1 == LastAccess(write_list, ara_req.vs1) \cup WarHazard
hazard_vs2 == LastAccess(write_list, ara_req.vs2) \cup WarHazard
hazard_vm ==
    (IF ara_req.vm THEN {} ELSE LastAccess(write_list, VMASK)) \cup WarHazard
hazard_vd == LastAccess(write_list, ara_req.vd)
AllHazards == hazard_vs1 \cup hazard_vs2 \cup hazard_vm \cup hazard_vd

TakesNoOperand(r) == Reads(r) = {} /\ ~r.use_vd_op

\* Instructions that cannot be chained wait in the sequencer.
HazardStalls ==
    \/ TakesNoOperand(ara_req) /\ AllHazards # {}
    \/ ara_req.op = "slideup" /\ hazard_vd \cup hazard_vs1 \cup hazard_vs2 # {}
    \/ ara_req.op = "slidedown" /\ hazard_vs1 \cup hazard_vs2 # {}

TableWith(id) == [global_hazard_table EXCEPT ![id] = AllHazards]

\* These instructions keep the dispatcher waiting for an answer.
NeedsAnswer(r) == is_load(r.op) \/ is_store(r.op) \/ ~use_vd(r)

-----------------------------------------------------------------------------
(***************************************************************************)
(* The state machine, one action per branch.                               *)
(***************************************************************************)

\* IDLE, and the request on the PE interface is stuck: hold everything.
HoldRequest(done, rdy, ack) ==
    /\ state = "IDLE"
    /\ Stuck(rdy)
    /\ UNCHANGED <<state, pe_req, pe_req_valid>>
    /\ NoIssue(done, global_hazard_table)
    /\ EveryCycle(done, rdy, FALSE)
    /\ MaskB(done, rdy, FALSE)
    /\ AddrgenAcks(ack)

\* IDLE, and the dispatcher has nothing to issue.
NoRequest(done, rdy, ack) ==
    /\ state = "IDLE"
    /\ ~Stuck(rdy)
    /\ ~ara_req_valid
    /\ pe_req' = NoPeReq
    /\ pe_req_valid' = FALSE
    /\ UNCHANGED state
    /\ NoIssue(done, global_hazard_table)
    /\ EveryCycle(done, rdy, TRUE)
    /\ MaskB(done, rdy, FALSE)
    /\ AddrgenAcks(ack)

\* IDLE, but a target queue is full, the lanes drifted apart, or no identifier
\* is left.
QueueStall(done, rdy, ack) ==
    /\ state = "IDLE"
    /\ ~Stuck(rdy)
    /\ ara_req_valid
    /\ ~CanIssue
    /\ pe_req' = NoPeReq
    /\ pe_req_valid' = FALSE
    /\ UNCHANGED state
    /\ NoIssue(done, global_hazard_table)
    /\ EveryCycle(done, rdy, FALSE)
    /\ MaskB(done, rdy, FALSE)
    /\ AddrgenAcks(ack)

\* IDLE, but the instruction cannot be chained to those it depends on.  Its
\* row of the table is written all the same.
HazardStall(done, rdy, ack) ==
    /\ state = "IDLE"
    /\ ~Stuck(rdy)
    /\ ara_req_valid
    /\ CanIssue
    /\ HazardStalls
    /\ \E id \in Ids :
         /\ IsNextId(id)
         /\ pe_req' = [id |-> id, insn |-> ara_req]
         /\ NoIssue(done, TableWith(id))
    /\ pe_req_valid' = FALSE
    /\ UNCHANGED state
    /\ EveryCycle(done, rdy, FALSE)
    /\ MaskB(done, rdy, FALSE)
    /\ AddrgenAcks(ack)

\* Instruction ara_req starts running as id.
Enter(id, done) ==
    /\ pe_vinsn_running' =
         [pe \in PEs |-> (pe_vinsn_running[pe] \ FinishedAt(done, pe))
                           \cup (IF pe \in RunsOn(ara_req) THEN {id} ELSE {})]
    /\ write_list' = [x \in Regs |-> IF x \in Writes(ara_req) THEN id
                                     ELSE Valid(write_list)[x]]
    /\ read_list' = [x \in Regs |-> IF x \in Reads(ara_req) THEN id
                                    ELSE Valid(read_list)[x]]
    /\ global_hazard_table' =
         [i \in Ids |-> TableWith(id)[i] \cap vinsn_running']
    /\ busy' = [u \in Units |-> (busy[u] \ Finished(done, u))
                                  \cup (IF u \in UnitsOf(ara_req) THEN {id}
                                        ELSE {})]
    /\ insn' = [i \in Ids |-> IF i \notin vinsn_running' THEN NoInsn
                              ELSE IF i = id THEN ara_req ELSE insn[i]]
    /\ older' = [i \in Ids |-> IF i \notin vinsn_running' THEN {}
                               ELSE IF i = id THEN vinsn_running' \ {id}
                               ELSE older[i] \cap vinsn_running']

\* IDLE: the instruction is issued and broadcast.  It is acknowledged at once,
\* or keeps the dispatcher waiting for its answer.
IssueInsn(done, rdy, ack) ==
    /\ state = "IDLE"
    /\ ~Stuck(rdy)
    /\ ara_req_valid
    /\ CanIssue
    /\ ~HazardStalls
    /\ \E id \in Ids :
         /\ IsNextId(id)
         /\ pe_req' = [id |-> id, insn |-> ara_req]
         /\ Enter(id, done)
         /\ addrgen' = Drop(addrgen, ack)
                         \o (IF is_load(ara_req.op) \/ is_store(ara_req.op)
                             THEN <<id>> ELSE <<>>)
    /\ pe_req_valid' = TRUE
    /\ state' = IF NeedsAnswer(ara_req) THEN "WAIT" ELSE "IDLE"
    /\ EveryCycle(done, rdy, ~NeedsAnswer(ara_req))
    /\ MaskB(done, rdy, FALSE)

\* In WAIT the broadcast ends when every lane is ready.
WaitPeReq(rdy) == pe_req_valid' = (pe_req_valid /\ ~rdy) /\ UNCHANGED pe_req

MemAnswer(ack) == (is_load(pe_req.insn.op) \/ is_store(pe_req.insn.op)) /\ ack

\* Mutant: any instruction takes the scalar response.
ScalarAnswer_Any(sv) == sv

ScalarAnswer(sv) == ~use_vd(ara_req) /\ sv

\* WAIT, and no answer in this cycle.
KeepWaiting(done, rdy, ack, sv) ==
    /\ state = "WAIT"
    /\ ~MemAnswer(ack)
    /\ ~ScalarAnswer(sv)
    /\ WaitPeReq(rdy)
    /\ UNCHANGED state
    /\ NoIssue(done, global_hazard_table)
    /\ EveryCycle(done, rdy, FALSE)
    /\ MaskB(done, rdy, FALSE)
    /\ AddrgenAcks(ack)

\* WAIT, and the address generator or the scalar response answers.  The scalar
\* operand is taken out of the queue unless a mask instruction is running.
Answer(done, rdy, ack, sv) ==
    /\ state = "WAIT"
    /\ MemAnswer(ack) \/ ScalarAnswer(sv)
    /\ WaitPeReq(rdy)
    /\ state' = "IDLE"
    /\ NoIssue(done, global_hazard_table)
    /\ EveryCycle(done, rdy, TRUE)
    /\ MaskB(done, rdy, ScalarAnswer(sv) /\ ~running_mask_insn)
    /\ AddrgenAcks(ack)

Cycle(done, rdy, ack, sv) ==
    \/ HoldRequest(done, rdy, ack)
    \/ NoRequest(done, rdy, ack)
    \/ QueueStall(done, rdy, ack)
    \/ HazardStall(done, rdy, ack)
    \/ IssueInsn(done, rdy, ack)
    \/ KeepWaiting(done, rdy, ack, sv)
    \/ Answer(done, rdy, ack, sv)

Next ==
    \E done \in DoneSets, rdy, ack, sv \in BOOLEAN :
        Possible(rdy, ack, sv) /\ Cycle(done, rdy, ack, sv)

Spec == Init /\ [][Next]_vars

(***************************************************************************)
(* Fairness: the clock ticks; every unit eventually reports an instruction *)
(* that it may report; the lanes eventually take a broadcast instruction;  *)
(* the address generator and the scalar response eventually answer.        *)
(* Nothing is assumed of the dispatcher.                                   *)
(***************************************************************************)
CycleWhere(P(_, _, _, _)) ==
    \E done \in DoneSets, rdy, ack, sv \in BOOLEAN :
        /\ P(done, rdy, ack, sv)
        /\ Possible(rdy, ack, sv)
        /\ Cycle(done, rdy, ack, sv)

UnitReports(u) == CycleWhere(LAMBDA d, r, a, s : \E e \in d : e[1] = u)
LanesTakeRequest == CycleWhere(LAMBDA d, r, a, s : r)
AddrgenAnswers == CycleWhere(LAMBDA d, r, a, s : a)
ScalarAnswers == CycleWhere(LAMBDA d, r, a, s : s)

Fairness ==
    /\ WF_vars(Next)
    /\ \A u \in Units : WF_vars(UnitReports(u))
    /\ WF_vars(LanesTakeRequest)
    /\ WF_vars(AddrgenAnswers)
    /\ WF_vars(ScalarAnswers)

FairSpec == Spec /\ Fairness

-----------------------------------------------------------------------------

\* Every variable has its type.
TypeOK ==
    /\ ara_req \in Insns
    /\ ara_req_valid \in BOOLEAN
    /\ ara_req_token \in {0, 1}
    /\ state \in {"IDLE", "WAIT"}
    /\ pe_req \in [id : Ids, insn : Insns]
    /\ pe_req_valid \in BOOLEAN
    /\ ara_req_token_q \in {0, 1}
    /\ gold_ticket \in [VFUs -> BOOLEAN]
    /\ insn_queue_cnt \in [VFUs -> 0..(CounterRange - 1)]
    /\ pe_vinsn_running \in [PEs -> SUBSET Ids]
    /\ read_list \in [Regs -> Ids \cup {NoId}]
    /\ write_list \in [Regs -> Ids \cup {NoId}]
    /\ global_hazard_table \in [Ids -> SUBSET Ids]
    /\ running_mask_insn \in BOOLEAN
    /\ busy \in [Units -> SUBSET Ids]
    /\ maskb \in Seq(Ids \cup {NoId})
    /\ addrgen \in Seq(Ids)
    /\ insn \in [Ids -> Insns]
    /\ older \in [Ids -> SUBSET Ids]
    /\ overtaken \in [Ids -> SUBSET Regs]

(***************************************************************************)
(* The sequencer implements the scoreboard: forget the lists' entries that *)
(* name an instruction no longer running, and the rows of the hazard table *)
(* that belong to none.                                                    *)
(***************************************************************************)
SB == INSTANCE Scoreboard WITH
        running    <- vinsn_running,
        waits      <- [i \in Ids |-> IF i \in vinsn_running
                                     THEN global_hazard_table[i] ELSE {}],
        older      <- older,
        lastWriter <- Valid(write_list),
        lastReader <- Valid(read_list)

ImplementsScoreboard == SB!Spec

(***************************************************************************)
(* A row of the hazard table only names instructions issued earlier and    *)
(* still running: identifiers are reused without leaving a dependency      *)
(* behind, neither in the table nor in the access lists it is built from.  *)
(***************************************************************************)
WaitsOnOlder ==
    \A i \in vinsn_running :
        /\ global_hazard_table[i] \subseteq older[i]
        /\ older[i] \subseteq vinsn_running \ {i}

\* Instruction i waits for instruction j, directly or through others.
WaitsFor(i, j) ==
    \A S \in SUBSET Ids :
        /\ global_hazard_table[i] \subseteq S
        /\ \A k \in S : global_hazard_table[k] \subseteq S
        => j \in S

\* Running instructions and those among them issued earlier.
OlderPairs == {p \in vinsn_running \X vinsn_running : p[2] \in older[p[1]]}

\* The registers that i reads or writes and that j writes.
Conflicts(i, j) ==
    Writes(insn[j]) \cap (Reads(insn[i]) \cup Writes(insn[i]))

(***************************************************************************)
(* Read after write, write after write, chained or not: an instruction     *)
(* waits for every earlier instruction still running that writes one of    *)
(* its sources, or its destination, unless that one was overtaken: a later *)
(* writer of the register has finished before it.  One writer per register *)
(* is remembered (ara_sequencer.sv, write_list), and it is the last.       *)
(***************************************************************************)
WritesOrdered ==
    \A p \in OlderPairs :
        Conflicts(p[1], p[2]) \subseteq overtaken[p[2]] \/ WaitsFor(p[1], p[2])

(***************************************************************************)
(* The same of the overtaken too, which the code does not keep up when     *)
(* instructions are chained (SequencerChaining.cfg).                       *)
(***************************************************************************)
EveryWriteOrdered ==
    \A p \in OlderPairs :
        Conflicts(p[1], p[2]) # {} => WaitsFor(p[1], p[2])

(***************************************************************************)
(* Write after read: an instruction waits for every earlier instruction    *)
(* still running that reads its destination.                               *)
(***************************************************************************)
ReadsOrdered ==
    \A p \in OlderPairs :
        Reads(insn[p[2]]) \cap Writes(insn[p[1]]) # {} => WaitsFor(p[1], p[2])

(***************************************************************************)
(* A counter tells the occupancy of the queue it stands for, plus one for  *)
(* the instruction at the door once it has been counted.                   *)
(***************************************************************************)
AtTheDoor ==
    /\ ara_req_valid /\ state = "IDLE"
    /\ ara_req_token_q = ara_req_token

CountersExact ==
    \A v \in VFUs \ {"None"} : \A u \in CountedUnits(v) :
        insn_queue_cnt[v] =
            Cardinality(busy[u])
              + (IF AtTheDoor /\ v \in target_vfus(ara_req) THEN 1 ELSE 0)

(***************************************************************************)
(* No unit is sent an instruction its queue has no room for: the units     *)
(* drop what they cannot store.                                            *)
(***************************************************************************)
NoQueueOverflow ==
    \A u \in Units : Cardinality(busy[u]) <= InsnQueueDepth[u[2]]

\* The same, of the queues the counters follow.
NoCountedQueueOverflow ==
    \A v \in VFUs : \A u \in CountedUnits(v) :
        Cardinality(busy[u]) <= InsnQueueDepth[v]

(***************************************************************************)
(* An identifier is handed out only when no unit holds work of its last    *)
(* user: whatever sits in a queue belongs to a running instruction.        *)
(***************************************************************************)
QueuedIsRunning == \A u \in Units : busy[u] \subseteq vinsn_running

(***************************************************************************)
(* A memory operation is answered by its own acknowledgement and by        *)
(* nothing else.                                                           *)
(***************************************************************************)
AnsweredByOwnAck(op) ==
    state = "WAIT" /\ state' = "IDLE" /\ pe_req.insn.op = op
      => /\ addrgen # <<>>
         /\ Head(addrgen) = pe_req.id
         /\ addrgen' = Tail(addrgen)

LoadAnsweredByOwnAck == [][AnsweredByOwnAck("load")]_vars
StoreAnsweredByOwnAck == [][AnsweredByOwnAck("store")]_vars

(***************************************************************************)
(* A scalar move is answered with the operand fetched for it.              *)
(***************************************************************************)
ScalarAnsweredByOwnOperand ==
    [][state = "WAIT" /\ state' = "IDLE" /\ pe_req.insn.op = "scalar"
         => maskb # <<>> /\ Head(maskb) = ScalarMove]_vars

(***************************************************************************)
(* Nothing is sent to the queues of the lanes while lane 0 is through with *)
(* an instruction that another lane still holds: the counters would no     *)
(* longer tell whether that lane has room.                                 *)
(***************************************************************************)
Desynchronised ==
    \E v \in {"Alu", "MFpu"} : \E l \in Lanes \ {0} :
        busy[<<l, v>>] \ busy[<<0, v>>] # {}

NoIssueWhileDesynchronised ==
    [][Desynchronised /\ pe_req_valid' /\ LaneVfu(pe_req'.insn.op) # {}
         => pe_req' = pe_req]_vars

(***************************************************************************)
(* Every request of the dispatcher is answered: full queues, drifting      *)
(* lanes, hazards and the tickets of counted instructions never leave it   *)
(* waiting for ever.                                                       *)
(***************************************************************************)
EveryRequestAnswered ==
    \A t \in {0, 1} :
        ara_req_valid /\ ara_req_token = t ~> ara_req_token # t

(***************************************************************************)
(* Every instruction that starts running finishes: the instructions never  *)
(* wait for one another in a circle.                                       *)
(***************************************************************************)
EveryInsnFinishes ==
    \A i \in Ids : i \in vinsn_running ~> i \notin vinsn_running

(***************************************************************************)
(* The registers of the sequencer make sense, and the rows of its hazard   *)
(* table name older instructions in flight.                                *)
(***************************************************************************)
TableSound == TypeOK /\ WaitsOnOlder

(***************************************************************************)
(* The counted queues hold running instructions, as many as they can.      *)
(***************************************************************************)
QueuesSound == QueuedIsRunning /\ NoCountedQueueOverflow
=============================================================================
