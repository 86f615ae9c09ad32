------------------------- MODULE AraSequencerProofs -------------------------
(***************************************************************************)
(* What is proved of the sequencer for every number of lanes, identifiers  *)
(* and registers, every set of requests and any depth of the queues.       *)
(***************************************************************************)
EXTENDS AraSequencer, FiniteSetTheorems, TLAPS

-----------------------------------------------------------------------------
(***************************************************************************)
(* The types of the operators the sequencer is built from.                 *)
(***************************************************************************)

LEMMA NoIdIsNoId == NoId \notin Ids
BY VInsnAssumption DEF NoId, Ids

LEMMA NoRegIsNoReg == NoReg \notin Regs /\ VMASK \in Regs
BY RegsAssumption DEF NoReg, VMASK

LEMMA ZeroIsAnId == 0 \in Ids
BY VInsnAssumption DEF Ids

LEMMA NoInsnType == NoInsn \in Insns
BY DEF NoInsn, Insns, Ops

LEMMA NoPeReqType == NoPeReq \in [id : Ids, insn : Insns]
BY ZeroIsAnId, NoInsnType DEF NoPeReq

\* What an instruction accesses, whether or not it is a request.
LEMMA AccessType ==
    ASSUME NEW r \in Insns
    PROVE  /\ Reads(r) \in SUBSET Regs
           /\ Writes(r) \in SUBSET Regs
BY NoRegIsNoReg DEF Reads, Writes, Insns

\* The reports of a cycle come from queues that hold the instruction.
LEMMA DoneType ==
    ASSUME NEW done \in DoneSets
    PROVE  /\ done \subseteq Units \X Ids
           /\ \A d \in done : d[2] \in busy[d[1]]
BY DEF DoneSets, MayFinish

\* A filtered list names running instructions only.
LEMMA ValidType ==
    ASSUME TypeOK, NEW list \in [Regs -> Ids \cup {NoId}]
    PROVE  Valid(list) \in [Regs -> vinsn_running \cup {NoId}]
BY DEF Valid

LEMMA RunningType ==
    ASSUME TypeOK
    PROVE  vinsn_running \subseteq Ids
BY DEF TypeOK, vinsn_running

\* Hazards are running instructions.
LEMMA HazardsType ==
    ASSUME TypeOK
    PROVE  AllHazards \subseteq vinsn_running
<1>1. ASSUME NEW list \in {read_list, write_list}, NEW x
      PROVE  LastAccess(list, x) \subseteq vinsn_running
  BY ValidType DEF TypeOK, LastAccess
<1> QED
  BY <1>1 DEF AllHazards, hazard_vs1, hazard_vs2, hazard_vm, hazard_vd,
              WarHazard

LEMMA DropType ==
    ASSUME NEW S, NEW seq \in Seq(S), NEW take \in BOOLEAN
    PROVE  Drop(seq, take) \in Seq(S)
BY DEF Drop

-----------------------------------------------------------------------------
(***************************************************************************)
(* Type correctness: one lemma per part of a cycle.                        *)
(***************************************************************************)

\* The types of the part of the state each group of registers holds.
ReqType == /\ ara_req \in Insns
           /\ ara_req_valid \in BOOLEAN
           /\ ara_req_token \in {0, 1}
CountType == /\ ara_req_token_q \in {0, 1}
             /\ gold_ticket \in [VFUs -> BOOLEAN]
             /\ insn_queue_cnt \in [VFUs -> 0..(CounterRange - 1)]
             /\ running_mask_insn \in BOOLEAN
BoardType == /\ pe_vinsn_running \in [PEs -> SUBSET Ids]
             /\ read_list \in [Regs -> Ids \cup {NoId}]
             /\ write_list \in [Regs -> Ids \cup {NoId}]
             /\ global_hazard_table \in [Ids -> SUBSET Ids]
             /\ busy \in [Units -> SUBSET Ids]
             /\ insn \in [Ids -> Insns]
             /\ older \in [Ids -> SUBSET Ids]

LEMMA EveryCycleType ==
    ASSUME TypeOK, NEW done, NEW rdy \in BOOLEAN, NEW ready \in BOOLEAN,
           EveryCycle(done, rdy, ready)
    PROVE  ReqType' /\ CountType'
<1>1. ReqType'
  <2>1. ara_req' \in Insns /\ ara_req_valid' \in BOOLEAN
    BY RequestsAssumption, NoInsnType
       DEF TypeOK, EveryCycle, Dispatcher, reqVars
  <2>2. ara_req_token' \in {0, 1}
    BY DEF TypeOK, EveryCycle, Dispatcher, reqVars, next_token
  <2> QED BY <2>1, <2>2 DEF ReqType
<1>2. CountType'
  <2>1. ara_req_token_q' \in {0, 1}
    BY DEF TypeOK, EveryCycle, Counters
  <2>2. gold_ticket' \in [VFUs -> BOOLEAN]
    <3>1. \A v \in VFUs : takes_ticket(v) \in BOOLEAN
      BY DEF takes_ticket
    <3> QED BY <3>1 DEF TypeOK, EveryCycle, Counters
  <2>3. insn_queue_cnt' \in [VFUs -> 0..(CounterRange - 1)]
    <3>1. \A n \in 0..(CounterRange - 1) :
            /\ (n + 1) % CounterRange \in 0..(CounterRange - 1)
            /\ (n - 1) % CounterRange \in 0..(CounterRange - 1)
      BY DEF CounterRange
    <3> QED BY <3>1 DEF TypeOK, EveryCycle, Counters
  <2>4. running_mask_insn' \in BOOLEAN
    BY DEF TypeOK, EveryCycle, RunningMaskInsn
  <2> QED BY <2>1, <2>2, <2>3, <2>4 DEF CountType
<1> QED BY <1>1, <1>2

LEMMA NoIssueType ==
    ASSUME TypeOK, NEW done, NEW table \in [Ids -> SUBSET Ids],
           NoIssue(done, table)
    PROVE  BoardType'
<1>1. pe_vinsn_running' \in [PEs -> SUBSET Ids]
  BY DEF TypeOK, NoIssue
<1>2. /\ read_list' \in [Regs -> Ids \cup {NoId}]
      /\ write_list' \in [Regs -> Ids \cup {NoId}]
  BY RunningType, ValidType DEF TypeOK, NoIssue
<1>3. /\ global_hazard_table' \in [Ids -> SUBSET Ids]
      /\ older' \in [Ids -> SUBSET Ids]
  BY DEF TypeOK, NoIssue
<1>4. busy' \in [Units -> SUBSET Ids]
  BY DEF TypeOK, NoIssue
<1>5. insn' \in [Ids -> Insns]
  BY NoInsnType DEF TypeOK, NoIssue
<1> QED BY <1>1, <1>2, <1>3, <1>4, <1>5 DEF BoardType

LEMMA EnterType ==
    ASSUME TypeOK, NEW id \in Ids, NEW done, Enter(id, done)
    PROVE  BoardType'
<1>1. pe_vinsn_running' \in [PEs -> SUBSET Ids]
  BY DEF TypeOK, Enter
<1>2. \A list \in {read_list, write_list}, x \in Regs :
        Valid(list)[x] \in Ids \cup {NoId}
  BY RunningType, ValidType DEF TypeOK
<1>3. /\ read_list' \in [Regs -> Ids \cup {NoId}]
      /\ write_list' \in [Regs -> Ids \cup {NoId}]
  BY <1>2 DEF TypeOK, Enter
<1>4. global_hazard_table' \in [Ids -> SUBSET Ids]
  BY HazardsType, RunningType DEF TypeOK, Enter, TableWith
<1>5. vinsn_running' \subseteq Ids
  BY <1>1 DEF vinsn_running
<1>6. older' \in [Ids -> SUBSET Ids]
  BY <1>5 DEF TypeOK, Enter
<1>7. busy' \in [Units -> SUBSET Ids]
  BY DEF TypeOK, Enter
<1>8. insn' \in [Ids -> Insns]
  BY NoInsnType DEF TypeOK, Enter
<1> QED BY <1>1, <1>3, <1>4, <1>6, <1>7, <1>8 DEF BoardType

LEMMA QueueTypes ==
    ASSUME TypeOK, NEW done, NEW rdy \in BOOLEAN, NEW popped \in BOOLEAN,
           MaskB(done, rdy, popped)
    PROVE  maskb' \in Seq(Ids \cup {NoId})
<1> DEFINE S == Ids \cup {NoId}
           rest == Drop(Drop(maskb, popped), MaskInsnDone(done))
           new == IF rdy /\ UsesMaskB(pe_req.insn)
                  THEN IF vfu(pe_req.insn.op) = "None"
                       THEN <<ScalarMove>> ELSE <<pe_req.id>>
                  ELSE <<>>
<1>1. rest \in Seq(S)
  <2>1. MaskInsnDone(done) \in BOOLEAN
    BY DEF MaskInsnDone
  <2> QED BY <2>1, DropType DEF TypeOK
<1>2. new \in Seq(S)
  <2>1. ScalarMove \in S /\ pe_req.id \in S
    BY DEF TypeOK, ScalarMove
  <2>2. <<ScalarMove>> \in Seq(S) /\ <<pe_req.id>> \in Seq(S) /\ <<>> \in Seq(S)
    BY <2>1
  <2> QED BY <2>2, Zenon
<1>3. maskb' = rest \o new
  BY DEF MaskB
<1> QED BY <1>1, <1>2, <1>3

LEMMA OvertakenType ==
    ASSUME TypeOK, Overtakes
    PROVE  overtaken' \in [Ids -> SUBSET Regs]
<1>1. ASSUME NEW i \in Ids PROVE Passed(i) \subseteq Regs
  <2>1. overtaken[i] \subseteq Regs /\ Writes(insn[i]) \subseteq Regs
    BY AccessType DEF TypeOK
  <2> QED BY <2>1 DEF Passed
<1> QED BY <1>1 DEF Overtakes

LEMMA PeReqType ==
    ASSUME TypeOK, NEW done, NEW rdy \in BOOLEAN, NEW ack, NEW sv,
           Cycle(done, rdy, ack, sv)
    PROVE  /\ state' \in {"IDLE", "WAIT"}
           /\ pe_req' \in [id : Ids, insn : Insns]
           /\ pe_req_valid' \in BOOLEAN
<1>1. CASE HoldRequest(done, rdy, ack)
  <2>1. state' = state /\ pe_req' = pe_req /\ pe_req_valid' = pe_req_valid
    BY <1>1, Zenon DEF HoldRequest
  <2> QED BY <2>1 DEF TypeOK
<1>2. CASE NoRequest(done, rdy, ack)
  BY <1>2, NoPeReqType DEF TypeOK, NoRequest
<1>3. CASE QueueStall(done, rdy, ack)
  BY <1>3, NoPeReqType DEF TypeOK, QueueStall
<1>4. CASE HazardStall(done, rdy, ack)
  <2>1. PICK id \in Ids : pe_req' = [id |-> id, insn |-> ara_req]
    BY <1>4, Zenon DEF HazardStall
  <2>2. pe_req_valid' = FALSE /\ state' = state
    BY <1>4, Zenon DEF HazardStall
  <2> QED BY <2>1, <2>2 DEF TypeOK
<1>5. CASE IssueInsn(done, rdy, ack)
  <2>1. PICK id \in Ids : pe_req' = [id |-> id, insn |-> ara_req]
    BY <1>5, Zenon DEF IssueInsn
  <2>2. pe_req_valid' = TRUE /\ state' \in {"IDLE", "WAIT"}
    BY <1>5 DEF IssueInsn
  <2> QED BY <2>1, <2>2 DEF TypeOK
<1>6. CASE KeepWaiting(done, rdy, ack, sv)
  BY <1>6 DEF TypeOK, KeepWaiting, WaitPeReq
<1>7. CASE Answer(done, rdy, ack, sv)
  BY <1>7 DEF TypeOK, Answer, WaitPeReq
<1> QED BY <1>1, <1>2, <1>3, <1>4, <1>5, <1>6, <1>7 DEF Cycle

\* Whatever the state machine does, the dispatcher's register, the counters
\* and the tickets do their part.
LEMMA EveryCycleHappens ==
    ASSUME NEW done, NEW rdy, NEW ack, NEW sv, Cycle(done, rdy, ack, sv)
    PROVE  \E ready \in BOOLEAN : EveryCycle(done, rdy, ready)
<1>1. NeedsAnswer(ara_req) \in BOOLEAN
  BY DEF NeedsAnswer, is_load, is_store
<1> QED
  BY <1>1 DEF Cycle, HoldRequest, NoRequest, QueueStall, HazardStall,
              IssueInsn, KeepWaiting, Answer

LEMMA CycleType ==
    ASSUME TypeOK, NEW done \in DoneSets, NEW rdy \in BOOLEAN,
           NEW ack \in BOOLEAN, NEW sv \in BOOLEAN,
           Cycle(done, rdy, ack, sv)
    PROVE  TypeOK'
<1>1. ReqType' /\ CountType'
  BY EveryCycleHappens, EveryCycleType
<1>2. BoardType'
  <2>1. CASE \E id \in Ids : Enter(id, done)
    BY <2>1, EnterType
  <2>2. CASE \E table \in [Ids -> SUBSET Ids] : NoIssue(done, table)
    BY <2>2, NoIssueType
  <2>3. /\ global_hazard_table \in [Ids -> SUBSET Ids]
        /\ \A id \in Ids : TableWith(id) \in [Ids -> SUBSET Ids]
    BY HazardsType, RunningType DEF TypeOK, TableWith
  <2> QED
    BY <2>1, <2>2, <2>3
       DEF Cycle, HoldRequest, NoRequest, QueueStall, HazardStall, IssueInsn,
           KeepWaiting, Answer
<1>3. maskb' \in Seq(Ids \cup {NoId})
  <2>1. \A s \in BOOLEAN : (ScalarAnswer(s) /\ ~running_mask_insn) \in BOOLEAN
    BY DEF ScalarAnswer
  <2>2. \E popped \in BOOLEAN : MaskB(done, rdy, popped)
    BY <2>1 DEF Cycle, HoldRequest, NoRequest, QueueStall, HazardStall,
                IssueInsn, KeepWaiting, Answer
  <2> QED BY <2>2, QueueTypes
<1>4. addrgen' \in Seq(Ids)
  <2>1. Drop(addrgen, ack) \in Seq(Ids)
    BY DropType DEF TypeOK
  <2>2. ASSUME NEW id \in Ids
        PROVE  Drop(addrgen, ack)
                 \o (IF is_load(ara_req.op) \/ is_store(ara_req.op)
                     THEN <<id>> ELSE <<>>) \in Seq(Ids)
    BY <2>1
  <2> QED
    BY <2>1, <2>2
       DEF Cycle, HoldRequest, NoRequest, QueueStall, HazardStall, IssueInsn,
           KeepWaiting, Answer, AddrgenAcks
<1>5. /\ state' \in {"IDLE", "WAIT"}
      /\ pe_req' \in [id : Ids, insn : Insns]
      /\ pe_req_valid' \in BOOLEAN
  BY PeReqType
<1>6. overtaken' \in [Ids -> SUBSET Regs]
  BY EveryCycleHappens, OvertakenType DEF EveryCycle
<1> QED
  BY <1>1, <1>2, <1>3, <1>4, <1>5, <1>6
     DEF TypeOK, ReqType, CountType, BoardType

LEMMA InitType == Init => TypeOK
<1> SUFFICES ASSUME Init PROVE TypeOK
  OBVIOUS
<1>1. ReqType
  BY NoInsnType DEF Init, ReqType
<1>2. CountType
  <2>1. ara_req_token_q \in {0, 1} /\ running_mask_insn \in BOOLEAN
    BY DEF Init
  <2>2. gold_ticket \in [VFUs -> BOOLEAN]
    BY Zenon DEF Init
  <2>3. insn_queue_cnt \in [VFUs -> 0..(CounterRange - 1)]
    BY DEF Init, CounterRange
  <2> QED BY <2>1, <2>2, <2>3 DEF CountType
<1>3. BoardType
  BY NoInsnType DEF Init, BoardType
<1>4. maskb \in Seq(Ids \cup {NoId}) /\ addrgen \in Seq(Ids)
  BY DEF Init
<1>5. /\ state \in {"IDLE", "WAIT"}
      /\ pe_req \in [id : Ids, insn : Insns]
      /\ pe_req_valid \in BOOLEAN
  BY NoPeReqType DEF Init
<1>6. overtaken \in [Ids -> SUBSET Regs]
  BY DEF Init
<1> QED
  BY <1>1, <1>2, <1>3, <1>4, <1>5, <1>6
     DEF TypeOK, ReqType, CountType, BoardType

LEMMA NextType == TypeOK /\ [Next]_vars => TypeOK'
<1>1. TypeOK /\ Next => TypeOK'
  BY CycleType DEF Next
<1>2. TypeOK /\ UNCHANGED vars => TypeOK'
  BY DEF TypeOK, vars, reqVars, seqVars, unitVars, histVars
<1> QED BY <1>1, <1>2

(***************************************************************************)
(* Type correctness of the sequencer.                                      *)
(***************************************************************************)
THEOREM SequencerTypeCorrect == Spec => []TypeOK
BY InitType, NextType, PTL DEF Spec

-----------------------------------------------------------------------------
(***************************************************************************)
(* The sequencer implements the scoreboard.  Only running instructions     *)
(* are named by the hazard table and by the history of ages.               *)
(***************************************************************************)
NamesRunning ==
    \A i \in Ids : /\ global_hazard_table[i] \subseteq vinsn_running
                   /\ older[i] \subseteq vinsn_running
                   /\ i \notin vinsn_running => older[i] = {}

RInv == TypeOK /\ NamesRunning

\* The refinement mapping.
Waits == [i \in Ids |-> IF i \in vinsn_running THEN global_hazard_table[i]
                        ELSE {}]

LEMMA InitNamesRunning == Init => NamesRunning
BY DEF Init, NamesRunning

LEMMA TableIsCut ==
    ASSUME TypeOK, NEW done, NEW table \in [Ids -> SUBSET Ids],
           NoIssue(done, table)
    PROVE  NamesRunning'
BY DEF NoIssue, NamesRunning, TypeOK

LEMMA EnterIsCut ==
    ASSUME TypeOK, NEW id \in Ids, NEW done, Enter(id, done)
    PROVE  NamesRunning'
BY DEF Enter, NamesRunning, TypeOK

\* A step either lets instructions finish only, whatever is written in the row
\* of an identifier that is not running, or lets one instruction enter.
IsRetirement(done) ==
    \/ NoIssue(done, global_hazard_table)
    \/ \E id \in Ids : IsNextId(id) /\ NoIssue(done, TableWith(id))

LEMMA RetireOrEnter ==
    ASSUME NEW done \in DoneSets, NEW rdy \in BOOLEAN, NEW ack \in BOOLEAN,
           NEW sv \in BOOLEAN, Cycle(done, rdy, ack, sv)
    PROVE  \/ IsRetirement(done)
           \/ /\ ara_req_valid
              /\ \E id \in Ids : IsNextId(id) /\ Enter(id, done)
BY DEF Cycle, HoldRequest, NoRequest, QueueStall, HazardStall, IssueInsn,
       KeepWaiting, Answer, IsRetirement

LEMMA NextRInv == RInv /\ [Next]_vars => RInv'
<1> SUFFICES ASSUME RInv, [Next]_vars PROVE RInv'
  OBVIOUS
<1>1. TypeOK'
  BY NextType DEF RInv
<1>2. CASE UNCHANGED vars
  BY <1>1, <1>2 DEF RInv, NamesRunning, vars, seqVars, histVars, vinsn_running
<1>3. CASE Next
  <2>1. PICK done \in DoneSets :
          \/ IsRetirement(done)
          \/ \E id \in Ids : Enter(id, done)
    BY <1>3, RetireOrEnter DEF Next
  <2>2. CASE IsRetirement(done)
    <3>1. /\ global_hazard_table \in [Ids -> SUBSET Ids]
          /\ \A id \in Ids : TableWith(id) \in [Ids -> SUBSET Ids]
      BY HazardsType, RunningType DEF RInv, TypeOK, TableWith
    <3> QED BY <1>1, <2>2, <3>1, TableIsCut DEF IsRetirement, RInv
  <2>3. CASE \E id \in Ids : Enter(id, done)
    BY <1>1, <2>3, EnterIsCut DEF RInv
  <2> QED BY <2>1, <2>2, <2>3
<1> QED BY <1>2, <1>3

\* The scoreboard's identifiers are the sequencer's.
LEMMA SameVocabulary == SB!NoId = NoId /\ SB!Ids = Ids
BY DEF SB!NoId, NoId, SB!Ids, Ids

\* Instructions that are no longer running have left the lists.
LEMMA ListForgets ==
    ASSUME TypeOK, NEW run, NEW list \in [Regs -> Ids \cup {NoId}],
           NEW new, new = [x \in Regs |-> IF Valid(list)[x] \in run
                                          THEN Valid(list)[x] ELSE NoId]
    PROVE  new = SB!Forget(Valid(list), vinsn_running \ run)
<1>1. \A x \in Regs : Valid(list)[x] \in vinsn_running \cup {NoId}
  BY ValidType
<1>2. NoId \notin vinsn_running
  BY NoIdIsNoId, RunningType
<1>3. \A x \in Regs :
        (IF Valid(list)[x] \in run THEN Valid(list)[x] ELSE NoId)
          = (IF Valid(list)[x] \in vinsn_running \ run THEN NoId
             ELSE Valid(list)[x])
  BY <1>1, <1>2
<1> QED BY <1>3, SameVocabulary DEF SB!Forget

LEMMA RetirementStep ==
    ASSUME RInv, RInv', NEW done \in DoneSets, IsRetirement(done)
    PROVE  SB!Next
<1>0. PICK fin \in SUBSET vinsn_running :
        fin = vinsn_running \ vinsn_running'
  OBVIOUS
<1>1. PICK table \in [Ids -> SUBSET Ids] :
        /\ NoIssue(done, table)
        /\ \A i \in vinsn_running : table[i] = global_hazard_table[i]
  <2>1. /\ global_hazard_table \in [Ids -> SUBSET Ids]
        /\ \A id \in Ids : TableWith(id) \in [Ids -> SUBSET Ids]
    BY HazardsType, RunningType DEF RInv, TypeOK, TableWith
  <2>2. \A id \in Ids : IsNextId(id) =>
          \A i \in vinsn_running : TableWith(id)[i] = global_hazard_table[i]
    BY RunningType DEF RInv, TypeOK, TableWith, IsNextId
  <2> QED BY <2>1, <2>2 DEF IsRetirement
<1>2. vinsn_running' \subseteq vinsn_running
  BY <1>1 DEF NoIssue, vinsn_running, RInv, TypeOK
<1>3. vinsn_running' = vinsn_running \ fin /\ vinsn_running \subseteq Ids
  BY <1>0, <1>2, RunningType DEF RInv
<1>4. Waits' = SB!Without(Waits, fin)
  <2>1. ASSUME NEW i \in Ids
        PROVE  Waits'[i] = IF i \in fin THEN {} ELSE Waits[i] \ fin
    <3>1. global_hazard_table'[i] = table[i] \cap vinsn_running'
      BY <1>1 DEF NoIssue
    <3>2. global_hazard_table[i] \subseteq vinsn_running
      BY DEF RInv, NamesRunning
    <3> QED BY <1>1, <1>3, <3>1, <3>2 DEF Waits
  <2>2. Waits' = [i \in Ids |-> Waits'[i]]
    BY DEF Waits
  <2> QED BY <2>1, <2>2, SameVocabulary, Zenon DEF SB!Without
<1>5. older' = SB!Without(older, fin)
  <2>1. ASSUME NEW i \in Ids
        PROVE  older'[i] = IF i \in fin THEN {} ELSE older[i] \ fin
    <3>1. older'[i] = IF i \in vinsn_running' THEN older[i] \cap vinsn_running'
                      ELSE {}
      BY <1>1 DEF NoIssue
    <3>2. /\ older[i] \subseteq vinsn_running
          /\ i \notin vinsn_running => older[i] = {}
      BY DEF RInv, NamesRunning
    <3> QED BY <1>3, <3>1, <3>2
  <2>2. older' = [i \in Ids |-> older'[i]]
    BY DEF RInv, TypeOK
  <2> QED BY <2>1, <2>2, SameVocabulary, Zenon DEF SB!Without
<1>6. Valid(write_list)' = SB!Forget(Valid(write_list), fin)
  <2>1. Valid(write_list)' = [x \in Regs |->
            IF Valid(write_list)[x] \in vinsn_running'
            THEN Valid(write_list)[x] ELSE NoId]
    BY <1>1 DEF NoIssue, Valid
  <2> QED BY <1>0, <2>1, ListForgets DEF RInv, TypeOK
<1>7. Valid(read_list)' = SB!Forget(Valid(read_list), fin)
  <2>1. Valid(read_list)' = [x \in Regs |->
            IF Valid(read_list)[x] \in vinsn_running'
            THEN Valid(read_list)[x] ELSE NoId]
    BY <1>1 DEF NoIssue, Valid
  <2> QED BY <1>0, <2>1, ListForgets DEF RInv, TypeOK
<1>8. SB!Retire(fin)
  BY <1>3, <1>4, <1>5, <1>6, <1>7, Zenon DEF SB!Retire, Waits
<1> QED BY <1>8, Zenon DEF SB!Next

\* A row names the dependencies of the registers the instruction accesses.
LEMMA RowIsDependencies ==
    ASSUME TypeOK
    PROVE  AllHazards = ({Valid(write_list)[x] :
                             x \in Reads(ara_req) \cup Writes(ara_req)}
                           \cup {Valid(read_list)[x] : x \in Writes(ara_req)})
                        \ {NoId}
<1>1. /\ ara_req.vs1 \in Regs \cup {NoReg}
      /\ ara_req.vs2 \in Regs \cup {NoReg}
      /\ ara_req.vd \in Regs \cup {NoReg}
  BY DEF TypeOK, Insns
<1> QED
  BY <1>1, NoRegIsNoReg
     DEF AllHazards, hazard_vs1, hazard_vs2, hazard_vm, hazard_vd, WarHazard,
         LastAccess, Reads, Writes

LEMMA EnterStep ==
    ASSUME RInv, RInv', ara_req_valid, NEW done \in DoneSets,
           NEW id \in Ids, IsNextId(id), Enter(id, done),
           ara_req \in Requests
    PROVE  SB!Next
<1> DEFINE rs == Reads(ara_req)
           ws == Writes(ara_req)
<1>1. PICK fin \in SUBSET vinsn_running :
        fin = vinsn_running \ vinsn_running'
  OBVIOUS
<1>2. vinsn_running \subseteq Ids /\ id \notin vinsn_running
  BY RunningType DEF RInv, IsNextId
<1>3. rs \in SUBSET Regs /\ ws \in SUBSET Regs /\ ws \in SB!Targets
  <2>1. ara_req \in Insns
    BY DEF RInv, TypeOK
  <2>2. rs \in SUBSET Regs /\ ws \in SUBSET Regs
    BY <2>1, AccessType
  <2>3. ws = {} \/ \E x \in Regs : ws = {x}
    BY <2>1 DEF Writes, Insns
  <2> QED BY <2>2, <2>3 DEF SB!Targets
<1>4. RunsOn(ara_req) \subseteq PEs
  BY LanesAssumption DEF RunsOn, PEs, Lanes, OffsetLoad, OffsetStore,
                         OffsetMask, OffsetSlide
<1>5. vinsn_running' = (vinsn_running \ fin)
                         \cup (IF RunsOn(ara_req) = {} THEN {} ELSE {id})
  <2>1. \A pe \in PEs :
          pe_vinsn_running'[pe] = (pe_vinsn_running[pe] \ FinishedAt(done, pe))
                         \cup (IF pe \in RunsOn(ara_req) THEN {id} ELSE {})
    BY DEF Enter
  <2> QED BY <1>1, <1>2, <1>4, <2>1 DEF vinsn_running
<1>6. AllHazards \subseteq vinsn_running
  BY HazardsType DEF RInv
<1>7. AllHazards = ({Valid(write_list)[x] : x \in rs \cup ws}
                      \cup {Valid(read_list)[x] : x \in ws}) \ {NoId}
  BY RowIsDependencies DEF RInv
<1>8. \A i \in Ids \ {id} :
        /\ Waits'[i] = SB!Without(Waits, fin)[i]
        /\ older'[i] = SB!Without(older, fin)[i]
  <2> SUFFICES ASSUME NEW i \in Ids \ {id}
               PROVE  /\ Waits'[i] = SB!Without(Waits, fin)[i]
                      /\ older'[i] = SB!Without(older, fin)[i]
    OBVIOUS
  <2>1. /\ global_hazard_table'[i] = global_hazard_table[i] \cap vinsn_running'
        /\ older'[i] = IF i \notin vinsn_running' THEN {}
                       ELSE older[i] \cap vinsn_running'
    BY DEF Enter, TableWith, RInv, TypeOK
  <2>2. /\ global_hazard_table[i] \subseteq vinsn_running
        /\ older[i] \subseteq vinsn_running
        /\ i \notin vinsn_running => older[i] = {}
    BY DEF RInv, NamesRunning
  <2>3. /\ i \in vinsn_running' <=> i \in vinsn_running \ fin
        /\ id \notin global_hazard_table[i] /\ id \notin older[i]
    BY <1>2, <1>5, <2>2
  <2>4. Waits'[i] = IF i \in fin THEN {} ELSE Waits[i] \ fin
    BY <1>1, <1>5, <2>1, <2>2, <2>3 DEF Waits
  <2>5. older'[i] = IF i \in fin THEN {} ELSE older[i] \ fin
    BY <1>1, <1>5, <2>1, <2>2, <2>3
  <2>6. /\ SB!Without(Waits, fin)[i] = IF i \in fin THEN {} ELSE Waits[i] \ fin
        /\ SB!Without(older, fin)[i] = IF i \in fin THEN {} ELSE older[i] \ fin
    BY SameVocabulary DEF SB!Without
  <2> QED BY <2>4, <2>5, <2>6
<1>9. \A x \in Regs :
        /\ Valid(write_list)'[x] =
             IF x \in ws THEN (IF id \in vinsn_running' THEN id ELSE NoId)
             ELSE SB!Forget(Valid(write_list), fin)[x]
        /\ Valid(read_list)'[x] =
             IF x \in rs THEN (IF id \in vinsn_running' THEN id ELSE NoId)
             ELSE SB!Forget(Valid(read_list), fin)[x]
  <2> SUFFICES ASSUME NEW x \in Regs
               PROVE  /\ Valid(write_list)'[x] =
                           IF x \in ws
                           THEN (IF id \in vinsn_running' THEN id ELSE NoId)
                           ELSE SB!Forget(Valid(write_list), fin)[x]
                      /\ Valid(read_list)'[x] =
                           IF x \in rs
                           THEN (IF id \in vinsn_running' THEN id ELSE NoId)
                           ELSE SB!Forget(Valid(read_list), fin)[x]
    OBVIOUS
  <2>1. /\ write_list'[x] = IF x \in ws THEN id ELSE Valid(write_list)[x]
        /\ read_list'[x] = IF x \in rs THEN id ELSE Valid(read_list)[x]
    BY DEF Enter
  <2>2. /\ Valid(write_list)'[x] = IF write_list'[x] \in vinsn_running'
                                   THEN write_list'[x] ELSE NoId
        /\ Valid(read_list)'[x] = IF read_list'[x] \in vinsn_running'
                                  THEN read_list'[x] ELSE NoId
    BY DEF Valid
  <2>3. /\ Valid(write_list)[x] \in vinsn_running \cup {NoId}
        /\ Valid(read_list)[x] \in vinsn_running \cup {NoId}
    BY ValidType DEF RInv, TypeOK
  <2>4. /\ SB!Forget(Valid(write_list), fin)[x] =
             IF Valid(write_list)[x] \in fin THEN NoId
             ELSE Valid(write_list)[x]
        /\ SB!Forget(Valid(read_list), fin)[x] =
             IF Valid(read_list)[x] \in fin THEN NoId
             ELSE Valid(read_list)[x]
    BY SameVocabulary DEF SB!Forget
  <2>5. NoId \notin vinsn_running
    BY <1>2, NoIdIsNoId
  <2> QED BY <1>2, <1>5, <2>1, <2>2, <2>3, <2>4, <2>5
<1>10. /\ Waits' = [i \in Ids |-> Waits'[i]]
       /\ older' = [i \in Ids |-> older'[i]]
       /\ Valid(write_list)' = [x \in Regs |-> Valid(write_list)'[x]]
       /\ Valid(read_list)' = [x \in Regs |-> Valid(read_list)'[x]]
  BY DEF Waits, RInv, TypeOK, Valid
<1>11. CASE RunsOn(ara_req) = {}
  <2>1. ws = {}
    <3>1. ara_req.op = "scalar"
      <4>1. 0 \in Lanes
        BY LanesAssumption DEF Lanes
      <4>2. vfu(ara_req.op) \notin {"Alu", "MFpu", "LoadUnit", "StoreUnit",
                                    "MaskUnit", "SlideUnit"}
        BY <1>11, <4>1 DEF RunsOn
      <4>3. ara_req.op \in Ops
        BY DEF RInv, TypeOK, Insns
      <4> QED BY <4>2, <4>3 DEF vfu, Ops
    <3> QED BY <3>1, RequestsAssumption DEF Writes
  <2>2. vinsn_running' = vinsn_running \ fin
    BY <1>5, <1>11
  <2>3. Waits'[id] = SB!Without(Waits, fin)[id]
        /\ older'[id] = SB!Without(older, fin)[id]
    BY <1>2, <2>2, SameVocabulary
       DEF Waits, SB!Without, Enter, RInv, NamesRunning
  <2>4. Waits' = SB!Without(Waits, fin) /\ older' = SB!Without(older, fin)
    <3>1. /\ SB!Without(Waits, fin)
               = [i \in Ids |-> SB!Without(Waits, fin)[i]]
          /\ SB!Without(older, fin)
               = [i \in Ids |-> SB!Without(older, fin)[i]]
      BY SameVocabulary DEF SB!Without
    <3>2. \A i \in Ids : /\ Waits'[i] = SB!Without(Waits, fin)[i]
                         /\ older'[i] = SB!Without(older, fin)[i]
      BY <1>8, <2>3
    <3> QED BY <1>10, <3>1, <3>2, Zenon
  <2>5. Valid(write_list)' = SB!Forget(Valid(write_list), fin)
    <3>1. SB!Forget(Valid(write_list), fin)
            = [x \in Regs |-> SB!Forget(Valid(write_list), fin)[x]]
      BY DEF SB!Forget
    <3>2. \A x \in Regs : Valid(write_list)'[x]
                            = SB!Forget(Valid(write_list), fin)[x]
      BY <1>9, <2>1
    <3> QED BY <1>10, <3>1, <3>2, Zenon
  <2>6. Valid(read_list)' =
          [x \in Regs |-> IF x \in rs THEN SB!NoId
                          ELSE SB!Forget(Valid(read_list), fin)[x]]
    <3>1. \A x \in Regs : Valid(read_list)'[x]
                            = IF x \in rs THEN SB!NoId
                              ELSE SB!Forget(Valid(read_list), fin)[x]
      BY <1>2, <1>9, <2>2, SameVocabulary
    <3> QED BY <1>10, <3>1, Zenon
  <2>7. SB!IssueUntracked(rs, fin)
    BY <2>2, <2>4, <2>5, <2>6, Zenon DEF SB!IssueUntracked, Waits
  <2> QED BY <1>3, <2>7, Zenon DEF SB!Next
<1>12. CASE RunsOn(ara_req) # {}
  <2>1. vinsn_running' = (vinsn_running \ fin) \cup {id}
    BY <1>5, <1>12
  <2>2. /\ Waits'[id] = SB!Dependencies(rs, ws) \ fin
        /\ older'[id] = vinsn_running \ fin
    <3>1. global_hazard_table'[id] = AllHazards \cap vinsn_running'
      BY DEF Enter, TableWith, RInv, TypeOK
    <3>2. AllHazards \cap vinsn_running' = AllHazards \ fin
      BY <1>2, <1>6, <2>1
    <3>3. AllHazards = SB!Dependencies(rs, ws)
      BY <1>7, SameVocabulary DEF SB!Dependencies
    <3>4. older'[id] = vinsn_running' \ {id}
      BY <2>1 DEF Enter
    <3> QED BY <1>2, <2>1, <3>1, <3>2, <3>3, <3>4 DEF Waits
  <2>3. Waits' = [SB!Without(Waits, fin) EXCEPT
                    ![id] = SB!Dependencies(rs, ws) \ fin]
    BY <1>8, <1>10, <2>2, SameVocabulary DEF SB!Without
  <2>4. older' = [SB!Without(older, fin) EXCEPT ![id] = vinsn_running \ fin]
    BY <1>8, <1>10, <2>2, SameVocabulary DEF SB!Without
  <2>5. Valid(write_list)' =
          [x \in Regs |-> IF x \in ws THEN id
                          ELSE SB!Forget(Valid(write_list), fin)[x]]
    <3>1. \A x \in Regs : Valid(write_list)'[x]
                            = IF x \in ws THEN id
                              ELSE SB!Forget(Valid(write_list), fin)[x]
      BY <1>9, <2>1
    <3> QED BY <1>10, <3>1, Zenon
  <2>6. Valid(read_list)' =
          [x \in Regs |-> IF x \in rs THEN id
                          ELSE SB!Forget(Valid(read_list), fin)[x]]
    <3>1. \A x \in Regs : Valid(read_list)'[x]
                            = IF x \in rs THEN id
                              ELSE SB!Forget(Valid(read_list), fin)[x]
      BY <1>9, <2>1
    <3> QED BY <1>10, <3>1, Zenon
  <2>7. SB!Issue(id, rs, ws, fin)
    BY <1>2, <2>1, <2>3, <2>4, <2>5, <2>6, Zenon DEF SB!Issue, Waits
  <2> QED BY <1>3, <2>7, SameVocabulary, Zenon DEF SB!Next
<1> QED BY <1>11, <1>12

(***************************************************************************)
(* A request in the dispatcher's register is one of the requests.          *)
(***************************************************************************)
Requested == ara_req_valid => ara_req \in Requests

LEMMA NextRequested == Requested /\ [Next]_vars => Requested'
<1>1. ASSUME Requested, NEW done, NEW rdy, NEW ready,
             EveryCycle(done, rdy, ready)
      PROVE  Requested'
  BY <1>1 DEF Requested, EveryCycle, Dispatcher, reqVars
<1>2. Requested /\ Next => Requested'
  BY <1>1, EveryCycleHappens DEF Next
<1>3. Requested /\ UNCHANGED vars => Requested'
  BY DEF Requested, vars, reqVars
<1> QED BY <1>2, <1>3

LEMMA InitRefines == Init => SB!Init
BY NoIdIsNoId DEF Init, SB!Init, SB!Ids, Ids, SB!NoId, NoId, vinsn_running,
                  Valid

LEMMA StepRefines ==
    ASSUME RInv, RInv', Requested, [Next]_vars
    PROVE  [SB!Next]_SB!sbVars
<1>1. CASE UNCHANGED vars
  BY <1>1 DEF vars, seqVars, histVars, SB!sbVars, vinsn_running, Valid
<1>2. CASE Next
  <2>1. PICK done \in DoneSets :
          \/ IsRetirement(done)
          \/ /\ ara_req_valid
             /\ \E id \in Ids : IsNextId(id) /\ Enter(id, done)
    BY <1>2, RetireOrEnter DEF Next
  <2> QED BY <2>1, RetirementStep, EnterStep DEF Requested
<1> QED BY <1>1, <1>2

\* The invariant the refinement needs.
LEMMA RInvHolds == Spec => [](RInv /\ Requested)
<1>1. Init => RInv /\ Requested
  BY InitType, InitNamesRunning DEF Init, RInv, Requested
<1>2. RInv /\ Requested /\ [Next]_vars => (RInv /\ Requested)'
  BY NextRInv, NextRequested
<1> QED BY <1>1, <1>2, PTL DEF Spec

(***************************************************************************)
(* The sequencer, with its handshakes, its queue counters and its          *)
(* identifiers reused as soon as they are free, implements the scoreboard. *)
(***************************************************************************)
THEOREM SequencerImplementsScoreboard == Spec => ImplementsScoreboard
BY InitRefines, StepRefines, RInvHolds, PTL
   DEF Spec, ImplementsScoreboard, SB!Spec

-----------------------------------------------------------------------------
(***************************************************************************)
(* What is proved of the scoreboard therefore holds of the sequencer.      *)
(***************************************************************************)
SBP == INSTANCE ScoreboardProofs WITH
         running    <- vinsn_running,
         waits      <- [i \in Ids |-> IF i \in vinsn_running
                                      THEN global_hazard_table[i] ELSE {}],
         older      <- older,
         lastWriter <- Valid(write_list),
         lastReader <- Valid(read_list)

\* The proofs' instance of the scoreboard is the sequencer's.
LEMMA SameScoreboard == SB!Spec => SBP!Spec
<1>1. SB!Init => SBP!Init
  BY DEF SB!Init, SBP!Init, SB!Ids, SBP!Ids, SB!NoId, SBP!NoId
<1>2. SB!Next => SBP!Next
  BY DEF SB!Next, SB!Retire, SB!Issue, SB!IssueUntracked, SB!Without,
         SB!Forget, SB!Dependencies, SB!Targets, SB!Ids, SB!NoId,
         SBP!Next, SBP!Retire, SBP!Issue, SBP!IssueUntracked, SBP!Without,
         SBP!Forget, SBP!Dependencies, SBP!Targets, SBP!Ids, SBP!NoId
<1>3. UNCHANGED SB!sbVars => UNCHANGED SBP!sbVars
  BY DEF SB!sbVars, SBP!sbVars
<1> QED BY <1>1, <1>2, <1>3, PTL DEF SB!Spec, SBP!Spec

\* Age is inherited: what is older than an older instruction is older.
OlderIsTransitive ==
    \A i \in vinsn_running : \A j \in older[i] : older[j] \subseteq older[i]

LEMMA AgeHolds == Spec => [](WaitsOnOlder /\ OlderIsTransitive)
<1>1. Spec => [](SBP!IInv)
  <2>1. /\ InsnQueueDepth \in [SBP!VFUs -> 1..(SBP!CounterRange - 2)]
        /\ InsnQueueDepth["MaskUnit"] = 1
    BY DepthAssumption DEF SBP!VFUs, VFUs, SBP!CounterRange, CounterRange
  <2>2. Regs \subseteq 0..31 /\ SBP!VMASK \in Regs
    BY RegsAssumption DEF SBP!VMASK, VMASK
  <2>3. SBP!Spec => [](SBP!IInv)
    BY <2>1, <2>2, LanesAssumption, VInsnAssumption, SBP!IInvHolds, Zenon
  <2> QED
    BY <2>3, SequencerImplementsScoreboard, SameScoreboard, PTL
       DEF ImplementsScoreboard
<1>2. RInv /\ SBP!IInv => WaitsOnOlder /\ OlderIsTransitive
  <2> SUFFICES ASSUME RInv, SBP!IInv, NEW i \in vinsn_running
               PROVE  /\ global_hazard_table[i] \subseteq older[i]
                      /\ older[i] \subseteq vinsn_running \ {i}
                      /\ \A j \in older[i] : older[j] \subseteq older[i]
    BY DEF WaitsOnOlder, OlderIsTransitive
  <2>1. i \in Ids
    BY RunningType DEF RInv
  <2>2. Waits[i] \subseteq older[i] /\ older[i] \subseteq vinsn_running
    BY DEF SBP!IInv, SBP!WaitsOnOlder, Waits
  <2>3. /\ i \notin older[i]
        /\ \A j \in older[i] : older[j] \subseteq older[i]
    BY <2>2 DEF SBP!IInv, SBP!AgeIsAnOrder
  <2> QED BY <2>1, <2>2, <2>3 DEF Waits
<1> QED BY <1>1, <1>2, RInvHolds, PTL

(***************************************************************************)
(* A row of the hazard table only names instructions that were issued      *)
(* earlier and still run, whenever identifiers are reused.                 *)
(***************************************************************************)
THEOREM SequencerWaitsOnOlder == Spec => []WaitsOnOlder
BY AgeHolds, PTL

(***************************************************************************)
(* The registers make sense, and a row only names older instructions.      *)
(***************************************************************************)
THEOREM SequencerTableSound == Spec => []TableSound
BY SequencerTypeCorrect, SequencerWaitsOnOlder, PTL DEF TableSound
-----------------------------------------------------------------------------
(***************************************************************************)
(* The order of writes.  One writer of a register is remembered, the last. *)
(* It waits for the writers before it that still run, itself or through    *)
(* others that write the same register.  A writer that finishes takes its  *)
(* row with it, and the last one its place in the list: those it waited    *)
(* for are lost, and exactly those are overtaken.                          *)
(***************************************************************************)
Writers(x) == {k \in vinsn_running : x \in Writes(insn[k])}

\* Instruction i waits for j, directly or through writers of register x.
Follows(i, j, x) ==
    \A S \in SUBSET Ids :
        /\ global_hazard_table[i] \cap Writers(x) \subseteq S
        /\ \A k \in S : global_hazard_table[k] \cap Writers(x) \subseteq S
        => j \in S

FollowsWriters ==
    \A p \in OlderPairs : \A x \in Conflicts(p[1], p[2]) :
        x \in overtaken[p[2]] \/ Follows(p[1], p[2], x)

LastWriterFollows ==
    \A j \in vinsn_running : \A x \in Writes(insn[j]) :
        \/ x \in overtaken[j]
        \/ Valid(write_list)[x] = j
        \/ /\ Valid(write_list)[x] \in Writers(x)
           /\ j \in older[Valid(write_list)[x]]
           /\ Follows(Valid(write_list)[x], j, x)

\* Whoever overtakes a writer has overtaken the earlier ones.
OvertakesAllEarlier ==
    \A p \in OlderPairs :
        Writes(insn[p[2]]) \cap overtaken[p[1]] \subseteq overtaken[p[2]]

OInv == FollowsWriters /\ LastWriterFollows /\ OvertakesAllEarlier

Age == WaitsOnOlder /\ OlderIsTransitive

LEMMA FollowersWait ==
    ASSUME NEW i, NEW j, NEW x, Follows(i, j, x)
    PROVE  WaitsFor(i, j)
BY DEF Follows, WaitsFor

(***************************************************************************)
(* What a cycle does to the instructions that were running before.         *)
(***************************************************************************)
Kept == vinsn_running \cap vinsn_running'

RowsCut ==
    /\ \A i \in vinsn_running :
           global_hazard_table'[i] = global_hazard_table[i] \cap vinsn_running'
    /\ \A i \in Kept : /\ insn'[i] = insn[i]
                       /\ older'[i] = older[i] \cap vinsn_running'

\* A writer that stays while a later one of the register finishes is overtaken.
LEMMA FinishedOvertakes ==
    ASSUME Overtakes, TypeOK, NEW i \in Kept, NEW k \in vinsn_running \ Kept,
           i \in older[k], NEW x, x \in Writes(insn[i]), x \in Writes(insn[k])
    PROVE  x \in overtaken'[i]
<1>1. i \in Ids
  BY RunningType DEF Kept
<1> QED BY <1>1 DEF Overtakes, Passed, Kept

\* And what was overtaken stays so.
LEMMA StaysOvertaken ==
    ASSUME Overtakes, TypeOK, NEW i \in Kept
    PROVE  overtaken[i] \subseteq overtaken'[i]
<1>1. i \in Ids
  BY RunningType DEF Kept
<1> QED BY <1>1 DEF Overtakes, Passed, Kept

LEMMA NewlyOvertaken ==
    ASSUME Overtakes, TypeOK, NEW i \in Kept, NEW x \in overtaken'[i],
           x \notin overtaken[i]
    PROVE  /\ x \in Writes(insn[i])
           /\ \E k \in vinsn_running \ Kept :
                 i \in older[k] /\ x \in Writes(insn[k])
<1>1. i \in Ids
  BY RunningType DEF Kept
<1> QED BY <1>1 DEF Overtakes, Passed, Kept

\* What is older than an overtaken writer, and writes the register, is
\* overtaken with it or gone.
LEMMA EarlierOvertaken ==
    ASSUME Overtakes, TypeOK, Age, OvertakesAllEarlier, NEW k \in Kept,
           NEW m \in Kept, m \in older[k], NEW x, x \in overtaken'[k],
           x \in Writes(insn[m])
    PROVE  x \in overtaken'[m]
<1>1. CASE x \in overtaken[k]
  <2>1. <<k, m>> \in OlderPairs
    BY DEF Kept, OlderPairs
  <2>2. x \in overtaken[m]
    BY <1>1, <2>1 DEF OvertakesAllEarlier
  <2> QED BY <2>2, StaysOvertaken
<1>2. CASE x \notin overtaken[k]
  <2>1. PICK f \in vinsn_running \ Kept : k \in older[f] /\ x \in Writes(insn[f])
    BY <1>2, NewlyOvertaken
  <2>2. m \in older[f]
    BY <2>1 DEF Age, OlderIsTransitive
  <2> QED BY <2>1, <2>2, FinishedOvertakes
<1> QED BY <1>1, <1>2

(***************************************************************************)
(* Who followed a writer that is not overtaken follows it still: the set T *)
(* adds to S the writers of x that are gone or overtaken, and no row of    *)
(* theirs leads back to the others.                                        *)
(***************************************************************************)
LEMMA StillFollows ==
    ASSUME TypeOK, Age, OvertakesAllEarlier, Overtakes, RowsCut,
           NEW i \in Kept, NEW j \in Kept, NEW x, x \in Writes(insn[j]),
           x \notin overtaken'[j], Follows(i, j, x)
    PROVE  Follows(i, j, x)'
<1> SUFFICES ASSUME NEW S \in SUBSET Ids,
                    global_hazard_table'[i] \cap Writers(x)' \subseteq S,
                    \A k \in S :
                        global_hazard_table'[k] \cap Writers(x)' \subseteq S
             PROVE  j \in S
  BY DEF Follows
<1> DEFINE T == {k \in Writers(x) : \/ k \in S
                                    \/ k \notin Kept
                                    \/ x \in overtaken'[k]}
<1>1. Writers(x) \subseteq vinsn_running /\ vinsn_running \subseteq Ids
  BY RunningType DEF Writers
<1>2. \A k \in Writers(x) \cap Kept : k \in Writers(x)'
  BY DEF Writers, Kept, RowsCut
<1>3. ASSUME NEW k \in vinsn_running, NEW m \in global_hazard_table[k],
             m \in Writers(x), m \in Kept
      PROVE  m \in global_hazard_table'[k] \cap Writers(x)'
  BY <1>2, <1>3 DEF RowsCut, Kept
<1>4. ASSUME NEW m \in global_hazard_table[i] \cap Writers(x) PROVE m \in T
  <2>1. m \in Kept => m \in S
    BY <1>3, <1>4 DEF Kept
  <2> QED BY <2>1
<1>5. ASSUME NEW k \in T, NEW m \in global_hazard_table[k] \cap Writers(x)
      PROVE  m \in T
  <2>1. k \in vinsn_running /\ x \in Writes(insn[k]) /\ x \in Writes(insn[m])
    BY DEF Writers
  <2>2. m \in older[k]
    BY <2>1 DEF Age, WaitsOnOlder
  <2>3. SUFFICES ASSUME m \in Kept PROVE m \in S \/ x \in overtaken'[m]
    OBVIOUS
  <2>4. CASE k \in S
    BY <1>3, <2>1, <2>3, <2>4
  <2>5. CASE k \notin Kept
    BY <2>1, <2>2, <2>3, <2>5, FinishedOvertakes
  <2>6. CASE k \in Kept /\ x \in overtaken'[k]
    BY <2>1, <2>2, <2>3, <2>6, EarlierOvertaken
  <2> QED BY <2>4, <2>5, <2>6
<1>6. j \in T
  <2>1. T \in SUBSET Ids
    BY <1>1
  <2> HIDE DEF T
  <2> QED BY <1>4, <1>5, <2>1 DEF Follows
<1> QED BY <1>6

\* The last writer of a register is followed, or its place in the list is free
\* and those before it are overtaken.
LEMMA LastWriterStays ==
    ASSUME TypeOK, Age, OInv, Overtakes, RowsCut, NEW j \in Kept,
           NEW x \in Writes(insn[j]), x \notin overtaken'[j]
    PROVE  \E k \in Kept :
              /\ k = Valid(write_list)[x]
              /\ x \in Writes(insn[k])
              /\ k = j \/ (j \in older'[k] /\ Follows(k, j, x)')
<1>1. PICK k : k = Valid(write_list)[x]
  OBVIOUS
<1>2. x \notin overtaken[j]
  BY StaysOvertaken
<1>3. k = j \/ (k \in Writers(x) /\ j \in older[k] /\ Follows(k, j, x))
  BY <1>1, <1>2 DEF OInv, LastWriterFollows, Kept
<1>4. CASE k = j
  BY <1>1, <1>4
<1>5. CASE k # j
  <2>1. k \in vinsn_running /\ x \in Writes(insn[k])
    BY <1>3, <1>5 DEF Writers
  <2>2. k \in Kept
    BY <1>3, <1>5, <2>1, FinishedOvertakes
  <2>3. Follows(k, j, x)'
    BY <1>3, <1>5, <2>2, StillFollows DEF OInv
  <2>4. j \in older'[k]
    BY <1>3, <1>5, <2>2 DEF RowsCut, Kept
  <2> QED BY <1>1, <2>1, <2>2, <2>3, <2>4
<1> QED BY <1>4, <1>5

\* Pairs of instructions that stay keep what they had.
LEMMA KeptPairs ==
    ASSUME TypeOK, Age, OInv, Overtakes, RowsCut, NEW i \in Kept,
           NEW j \in Kept, j \in older'[i]
    PROVE  /\ \A x \in Conflicts(i, j)' :
                  x \in overtaken'[j] \/ Follows(i, j, x)'
           /\ Writes(insn'[j]) \cap overtaken'[i] \subseteq overtaken'[j]
<1>1. /\ j \in older[i] /\ <<i, j>> \in OlderPairs
      /\ insn'[i] = insn[i] /\ insn'[j] = insn[j]
  BY DEF RowsCut, OlderPairs, Kept
<1>2. ASSUME NEW x \in Conflicts(i, j)', x \notin overtaken'[j]
      PROVE  Follows(i, j, x)'
  <2>1. x \in Conflicts(i, j) /\ x \in Writes(insn[j])
    BY <1>1 DEF Conflicts
  <2>2. Follows(i, j, x)
    BY <1>1, <1>2, <2>1, StaysOvertaken DEF OInv, FollowsWriters
  <2> QED BY <1>2, <2>1, <2>2, StillFollows DEF OInv
<1>3. Writes(insn'[j]) \cap overtaken'[i] \subseteq overtaken'[j]
  BY <1>1, EarlierOvertaken DEF OInv
<1> QED BY <1>2, <1>3

LEMMA RetirementKeepsOrder ==
    ASSUME RInv, RInv', Age, OInv, Overtakes, NEW done \in DoneSets,
           IsRetirement(done)
    PROVE  OInv'
<1>1. PICK table \in [Ids -> SUBSET Ids] :
        /\ NoIssue(done, table)
        /\ \A i \in vinsn_running : table[i] = global_hazard_table[i]
  <2>1. /\ global_hazard_table \in [Ids -> SUBSET Ids]
        /\ \A id \in Ids : TableWith(id) \in [Ids -> SUBSET Ids]
    BY HazardsType, RunningType DEF RInv, TypeOK, TableWith
  <2>2. \A id \in Ids : IsNextId(id) =>
          \A i \in vinsn_running : TableWith(id)[i] = global_hazard_table[i]
    BY RunningType DEF RInv, TypeOK, TableWith, IsNextId
  <2> QED BY <2>1, <2>2 DEF IsRetirement
<1>2. Kept = vinsn_running' /\ vinsn_running \subseteq Ids
  BY <1>1, RunningType DEF NoIssue, vinsn_running, RInv, TypeOK, Kept
<1>3. RowsCut /\ write_list' = Valid(write_list)
  BY <1>1, <1>2 DEF NoIssue, RowsCut, Kept
<1>4. ASSUME NEW p \in OlderPairs'
      PROVE  p[1] \in Kept /\ p[2] \in Kept /\ p[2] \in older'[p[1]]
  BY <1>2 DEF OlderPairs
<1>5. FollowsWriters' /\ OvertakesAllEarlier'
  <2>1. ASSUME NEW p \in OlderPairs'
        PROVE  /\ \A x \in Conflicts(p[1], p[2])' :
                      x \in overtaken'[p[2]] \/ Follows(p[1], p[2], x)'
               /\ Writes(insn'[p[2]]) \cap overtaken'[p[1]]
                    \subseteq overtaken'[p[2]]
    BY <1>3, <1>4, KeptPairs DEF RInv
  <2> QED BY <2>1 DEF FollowsWriters, OvertakesAllEarlier, OlderPairs, Conflicts
<1>6. LastWriterFollows'
  <2> SUFFICES ASSUME NEW j \in vinsn_running', NEW x \in Writes(insn'[j]),
                      x \notin overtaken'[j]
               PROVE  \/ Valid(write_list)'[x] = j
                      \/ /\ Valid(write_list)'[x] \in Writers(x)'
                         /\ j \in older'[Valid(write_list)'[x]]
                         /\ Follows(Valid(write_list)[x], j, x)'
    BY DEF LastWriterFollows
  <2>1. insn'[j] = insn[j]
    BY <1>2, <1>3 DEF RowsCut
  <2>2. PICK k \in Kept : /\ k = Valid(write_list)[x]
                          /\ x \in Writes(insn[k])
                          /\ k = j \/ (j \in older'[k] /\ Follows(k, j, x)')
    BY <1>2, <1>3, <2>1, LastWriterStays DEF RInv
  <2>3. x \in Regs
    <3>1. insn'[j] \in Insns
      BY <1>2 DEF RInv, TypeOK, Kept
    <3> QED BY <3>1, AccessType
  <2>4. Valid(write_list)'[x] = k
    BY <1>2, <1>3, <2>2, <2>3 DEF Valid
  <2>5. k \in Writers(x)'
    BY <1>2, <1>3, <2>2 DEF Writers, RowsCut
  <2> QED BY <2>2, <2>4, <2>5 DEF Follows, Writers
<1> QED BY <1>5, <1>6 DEF OInv

\* An instruction that enters follows the earlier writers of its operands.
LEMMA EntryKeepsOrder ==
    ASSUME RInv, RInv', Age, OInv, Overtakes, NEW done \in DoneSets,
           NEW id \in Ids, IsNextId(id), Enter(id, done), ara_req \in Requests
    PROVE  OInv'
<1> DEFINE r == ara_req
<1>1. /\ vinsn_running \subseteq Ids /\ vinsn_running' \subseteq Ids
      /\ id \notin vinsn_running /\ r \in Insns
      /\ Reads(r) \subseteq Regs /\ Writes(r) \subseteq Regs
  BY RunningType, AccessType DEF RInv, TypeOK, IsNextId, vinsn_running
<1>2. \A pe \in PEs :
        pe_vinsn_running'[pe] = (pe_vinsn_running[pe] \ FinishedAt(done, pe))
                                  \cup (IF pe \in RunsOn(r) THEN {id} ELSE {})
  BY DEF Enter
<1>3. vinsn_running' \ {id} = Kept
  <2>1. vinsn_running' \subseteq vinsn_running \cup {id}
    BY <1>2 DEF vinsn_running
  <2> QED BY <1>1, <2>1 DEF Kept
<1>4. RowsCut
  <2>1. \A i \in vinsn_running :
          global_hazard_table'[i] = global_hazard_table[i] \cap vinsn_running'
    BY <1>1 DEF Enter, TableWith, RInv, TypeOK
  <2>2. \A i \in Kept : /\ insn'[i] = insn[i]
                        /\ older'[i] = older[i] \cap vinsn_running'
    BY <1>1 DEF Enter, Kept
  <2> QED BY <2>1, <2>2 DEF RowsCut
<1>5. /\ id \in vinsn_running' =>
           /\ insn'[id] = r
           /\ older'[id] = vinsn_running' \ {id}
           /\ overtaken'[id] = {}
      /\ \A x \in Regs : write_list'[x] = IF x \in Writes(r) THEN id
                                         ELSE Valid(write_list)[x]
      /\ global_hazard_table'[id] = AllHazards \cap vinsn_running'
  BY <1>1 DEF Enter, TableWith, RInv, TypeOK, Overtakes
\* The instruction that enters follows the last writer and those before it.
<1>6. ASSUME NEW j \in Kept, NEW x \in Writes(insn[j]), x \notin overtaken'[j],
             x \in Reads(r) \cup Writes(r)
      PROVE  Follows(id, j, x)'
  <2>1. PICK k \in Kept : /\ k = Valid(write_list)[x]
                          /\ x \in Writes(insn[k])
                          /\ k = j \/ (j \in older'[k] /\ Follows(k, j, x)')
    BY <1>4, <1>6, LastWriterStays DEF RInv
  <2>2. k \in AllHazards
    BY <1>1, <1>6, <2>1, NoIdIsNoId, RowIsDependencies DEF RInv, Kept
  <2>3. k \in global_hazard_table'[id] \cap Writers(x)'
    BY <1>4, <1>5, <2>1, <2>2 DEF Kept, Writers, RowsCut
  <2> SUFFICES ASSUME NEW S \in SUBSET Ids,
                      global_hazard_table'[id] \cap Writers(x)' \subseteq S,
                      \A i \in S :
                          global_hazard_table'[i] \cap Writers(x)' \subseteq S
               PROVE  j \in S
    BY DEF Follows
  <2>4. k \in S /\ global_hazard_table'[k] \cap Writers(x)' \subseteq S
    BY <2>3
  <2> QED BY <2>1, <2>4 DEF Follows
<1>7. FollowsWriters' /\ OvertakesAllEarlier'
  <2>1. ASSUME NEW p \in OlderPairs'
        PROVE  /\ \A x \in Conflicts(p[1], p[2])' :
                      x \in overtaken'[p[2]] \/ Follows(p[1], p[2], x)'
               /\ Writes(insn'[p[2]]) \cap overtaken'[p[1]]
                    \subseteq overtaken'[p[2]]
    <3>1. /\ p[1] \in vinsn_running' /\ p[2] \in vinsn_running'
          /\ p[2] \in older'[p[1]]
      BY DEF OlderPairs
    <3>2. p[2] # id
      <4>1. CASE p[1] = id
        BY <1>5, <3>1, <4>1
      <4>2. CASE p[1] # id
        <5>1. p[1] \in Kept /\ p[2] \in older[p[1]]
          BY <1>3, <1>4, <3>1, <4>2 DEF RowsCut
        <5> QED BY <1>1, <5>1 DEF RInv, NamesRunning, Kept
      <4> QED BY <4>1, <4>2
    <3>3. p[2] \in Kept
      BY <1>3, <3>1, <3>2
    <3>4. CASE p[1] = id
      <4>1. insn'[p[1]] = r /\ overtaken'[p[1]] = {} /\ insn'[p[2]] = insn[p[2]]
        BY <1>4, <1>5, <3>1, <3>3, <3>4 DEF RowsCut
      <4>2. ASSUME NEW x \in Conflicts(p[1], p[2])', x \notin overtaken'[p[2]]
            PROVE  Follows(p[1], p[2], x)'
        <5>1. x \in Writes(insn[p[2]]) /\ x \in Reads(r) \cup Writes(r)
          BY <4>1 DEF Conflicts
        <5>2. Follows(id, p[2], x)'
          BY <1>6, <3>3, <4>2, <5>1
        <5> QED BY <3>4, <5>2
      <4> QED BY <4>1, <4>2
    <3>5. CASE p[1] # id
      <4>1. p[1] \in Kept
        BY <1>3, <3>1, <3>5
      <4> QED BY <1>4, <3>1, <3>3, <4>1, KeptPairs DEF RInv
    <3> QED BY <3>4, <3>5
  <2> QED BY <2>1 DEF FollowsWriters, OvertakesAllEarlier, OlderPairs, Conflicts
\* An instruction that writes runs somewhere.
<1>8. ASSUME Writes(r) # {} PROVE id \in vinsn_running'
  <2>1. r.op # "scalar" /\ r.op \in Ops
    BY <1>1, <1>8, RequestsAssumption DEF Writes, Insns
  <2>2. vfu(r.op) \in {"Alu", "MFpu", "LoadUnit", "StoreUnit",
                       "MaskUnit", "SlideUnit"}
    BY <2>1 DEF vfu, Ops
  <2>3. Lanes # {}
    BY LanesAssumption DEF Lanes
  <2>4. RunsOn(r) # {}
    BY <2>2, <2>3 DEF RunsOn
  <2>5. RunsOn(r) \subseteq PEs
    BY LanesAssumption DEF RunsOn, PEs, Lanes, OffsetLoad, OffsetStore,
                           OffsetMask, OffsetSlide
  <2> QED BY <1>2, <2>4, <2>5 DEF vinsn_running
<1>9. LastWriterFollows'
  <2> SUFFICES ASSUME NEW j \in vinsn_running', NEW x \in Writes(insn'[j]),
                      x \notin overtaken'[j]
               PROVE  \/ Valid(write_list)'[x] = j
                      \/ /\ Valid(write_list)'[x] \in Writers(x)'
                         /\ j \in older'[Valid(write_list)'[x]]
                         /\ Follows(Valid(write_list)[x], j, x)'
    BY DEF LastWriterFollows
  <2>1. x \in Regs /\ Valid(write_list)'[x] = IF write_list'[x] \in vinsn_running'
                                              THEN write_list'[x] ELSE NoId
    BY <1>1, AccessType DEF RInv, TypeOK, Valid
  <2>2. j # id => j \in Kept /\ x \in Writes(insn[j])
    BY <1>3, <1>4 DEF RowsCut
  <2>3. CASE x \in Writes(r)
    <3>1. id \in vinsn_running' /\ Valid(write_list)'[x] = id
      BY <1>5, <1>8, <2>1, <2>3
    <3>2. CASE j = id
      BY <3>1, <3>2
    <3>3. CASE j # id
      <4>1. Follows(id, j, x)'
        BY <1>6, <2>2, <2>3, <3>3
      <4>2. id \in Writers(x)' /\ j \in older'[id]
        BY <1>5, <2>3, <3>1, <3>3 DEF Writers
      <4> QED BY <3>1, <4>1, <4>2 DEF Follows, Writers
    <3> QED BY <3>2, <3>3
  <2>4. CASE x \notin Writes(r)
    <3>1. j \in Kept /\ x \in Writes(insn[j])
      BY <1>5, <2>2, <2>4
    <3>2. PICK k \in Kept : /\ k = Valid(write_list)[x]
                            /\ x \in Writes(insn[k])
                            /\ k = j \/ (j \in older'[k] /\ Follows(k, j, x)')
      BY <1>4, <3>1, LastWriterStays DEF RInv
    <3>3. Valid(write_list)'[x] = k /\ k \in Writers(x)'
      BY <1>4, <1>5, <2>1, <2>4, <3>2 DEF Kept, Writers, RowsCut
    <3> QED BY <3>2, <3>3 DEF Follows, Writers
  <2> QED BY <2>3, <2>4
<1> QED BY <1>7, <1>9 DEF OInv

(***************************************************************************)
(* An instruction waits for every earlier one that still runs and writes   *)
(* one of its operands, unless a later writer of that register finished    *)
(* before it, whatever the registers, the order of reports, the chaining   *)
(* and the reuse of identifiers.                                           *)
(***************************************************************************)
THEOREM WritesAlwaysOrdered == Spec => []WritesOrdered
<1>1. Init => OInv
  BY DEF Init, OInv, FollowsWriters, LastWriterFollows, OvertakesAllEarlier,
         OlderPairs, vinsn_running
<1>2. ASSUME RInv, RInv', Requested, Age, OInv, [Next]_vars PROVE OInv'
  <2>1. CASE UNCHANGED vars
    <3>1. UNCHANGED <<pe_vinsn_running, global_hazard_table, write_list, insn,
                      older, overtaken>>
      BY <2>1 DEF vars, seqVars, histVars
    <3>2. vinsn_running' = vinsn_running
      BY <3>1 DEF vinsn_running
    <3>3. FollowsWriters'
      BY <1>2, <3>1, <3>2
         DEF OInv, FollowsWriters, OlderPairs, Conflicts, Follows, Writers
    <3>4. LastWriterFollows'
      BY <1>2, <3>1, <3>2
         DEF OInv, LastWriterFollows, Follows, Writers, Valid
    <3>5. OvertakesAllEarlier'
      BY <1>2, <3>1, <3>2 DEF OInv, OvertakesAllEarlier, OlderPairs
    <3> QED BY <3>3, <3>4, <3>5 DEF OInv
  <2>2. CASE Next
    <3>1. PICK done \in DoneSets, rdy \in BOOLEAN, ack \in BOOLEAN,
               sv \in BOOLEAN : Cycle(done, rdy, ack, sv)
      BY <2>2 DEF Next
    <3>2. Overtakes
      BY <3>1, EveryCycleHappens DEF EveryCycle
    <3>3. \/ IsRetirement(done)
          \/ /\ ara_req_valid
             /\ \E id \in Ids : IsNextId(id) /\ Enter(id, done)
      BY <3>1, RetireOrEnter
    <3> QED BY <1>2, <3>2, <3>3, RetirementKeepsOrder, EntryKeepsOrder
            DEF Requested
  <2> QED BY <1>2, <2>1, <2>2
<1>3. OInv => WritesOrdered
  <2> SUFFICES ASSUME OInv, NEW p \in OlderPairs,
                      NEW x \in Conflicts(p[1], p[2]), x \notin overtaken[p[2]]
               PROVE  WaitsFor(p[1], p[2])
    BY DEF WritesOrdered
  <2> QED BY FollowersWait DEF OInv, FollowsWriters
<1> QED BY <1>1, <1>2, <1>3, AgeHolds, RInvHolds, PTL DEF Spec, Age
-----------------------------------------------------------------------------
(***************************************************************************)
(* Who is answered.  The sequencer takes any acknowledgement of the        *)
(* address generator for the one it waits for.  That is sound if it never  *)
(* leaves a memory operation before its own acknowledgement has come; a    *)
(* store it does leave when the scalar response is valid, which it is      *)
(* while an operand of another instruction waits in the MaskB queue.       *)
(***************************************************************************)
LoadsWrite == \A r \in Requests : is_load(r.op) => use_vd(r)
NoStores == \A r \in Requests : ~is_store(r.op)
NoMaskB == \A r \in Requests : ~UsesMaskB(r)

IsMem(r) == is_load(r.op) \/ is_store(r.op)

\* The address generator owes the operation that is waited for, and no other.
MInv ==
    /\ pe_req_valid \/ state = "WAIT" => pe_req.insn \in Requests
    /\ state = "WAIT" => ara_req_valid /\ pe_req.insn = ara_req
    /\ addrgen = IF state = "WAIT" /\ IsMem(pe_req.insn) THEN <<pe_req.id>>
                 ELSE <<>>
    /\ NoMaskB => maskb = <<>>

\* What a cycle does with the broadcast request, and with what the address
\* generator owes, if it does not issue.
LEMMA OwedKept ==
    ASSUME LoadsWrite, NoStores \/ NoMaskB, TypeOK, Requested, MInv,
           NEW done \in DoneSets, NEW rdy \in BOOLEAN, NEW ack \in BOOLEAN,
           NEW sv \in BOOLEAN, Possible(rdy, ack, sv),
           Cycle(done, rdy, ack, sv), ~IssueInsn(done, rdy, ack)
    PROVE  /\ addrgen' = IF state' = "WAIT" /\ IsMem(pe_req'.insn)
                         THEN <<pe_req'.id>> ELSE <<>>
           /\ state = "WAIT" /\ state' = "IDLE" /\ IsMem(pe_req.insn)
                => ack /\ addrgen = <<pe_req.id>> /\ addrgen' = <<>>
           /\ state' = "WAIT" => /\ state = "WAIT" /\ pe_req' = pe_req
                                 /\ UNCHANGED <<ara_req, ara_req_valid>>
           /\ pe_req_valid' => pe_req_valid /\ pe_req' = pe_req
<1>1. Drop(<<>>, ack) = <<>>
  BY DEF Drop
<1>2. addrgen = <<>> => ~ack
  BY DEF Possible
<1>3. CASE \/ HoldRequest(done, rdy, ack) \/ NoRequest(done, rdy, ack)
           \/ QueueStall(done, rdy, ack) \/ HazardStall(done, rdy, ack)
  <2>1. /\ state = "IDLE" /\ state' = "IDLE" /\ addrgen' = Drop(addrgen, ack)
        /\ pe_req_valid' => pe_req_valid /\ pe_req' = pe_req
    <3>1. CASE HoldRequest(done, rdy, ack)
      BY <3>1, Zenon DEF HoldRequest, AddrgenAcks
    <3>2. CASE NoRequest(done, rdy, ack)
      BY <3>2, Zenon DEF NoRequest, AddrgenAcks
    <3>3. CASE QueueStall(done, rdy, ack)
      BY <3>3, Zenon DEF QueueStall, AddrgenAcks
    <3>4. CASE HazardStall(done, rdy, ack)
      BY <3>4, Zenon DEF HazardStall, AddrgenAcks
    <3> QED BY <1>3, <3>1, <3>2, <3>3, <3>4
  <2>2. addrgen = <<>>
    BY <2>1 DEF MInv
  <2> QED BY <1>1, <2>1, <2>2
<1>4. CASE KeepWaiting(done, rdy, ack, sv)
  <2>1. /\ state = "WAIT" /\ state' = "WAIT" /\ addrgen' = Drop(addrgen, ack)
        /\ pe_req' = pe_req /\ (pe_req_valid' => pe_req_valid)
        /\ ~MemAnswer(ack) /\ EveryCycle(done, rdy, FALSE)
    BY <1>4 DEF KeepWaiting, AddrgenAcks, WaitPeReq
  <2>2. UNCHANGED <<ara_req, ara_req_valid>>
    BY <2>1 DEF EveryCycle, Dispatcher, reqVars
  <2>3. ~ack
    BY <1>2, <2>1 DEF MInv, MemAnswer, IsMem
  <2>4. addrgen' = addrgen
    BY <2>1, <2>3 DEF Drop
  <2> QED BY <2>1, <2>2, <2>4 DEF MInv
<1>5. CASE Answer(done, rdy, ack, sv)
  <2>1. /\ state = "WAIT" /\ state' = "IDLE" /\ addrgen' = Drop(addrgen, ack)
        /\ pe_req' = pe_req /\ (pe_req_valid' => pe_req_valid)
        /\ MemAnswer(ack) \/ ScalarAnswer(sv)
    BY <1>5 DEF Answer, AddrgenAcks, WaitPeReq
  <2>2. pe_req.insn = ara_req /\ ara_req \in Requests
    BY <2>1 DEF MInv, Requested
  <2>3. CASE IsMem(pe_req.insn)
    \* Neither a load nor a store takes the scalar response.
    <3>1. ~ScalarAnswer(sv)
      <4>1. CASE is_load(ara_req.op)
        BY <2>2, <4>1 DEF LoadsWrite, ScalarAnswer
      <4>2. CASE is_store(ara_req.op)
        <5>1. NoMaskB /\ maskb = <<>>
          BY <2>2, <4>2 DEF NoStores, MInv
        <5>2. ~vd_scalar(pe_req.insn.op)
          BY <2>2, <4>2 DEF vd_scalar, is_store
        <5>3. ~sv
          BY <5>1, <5>2 DEF Possible, ScalarRespPossible
        <5> QED BY <5>3 DEF ScalarAnswer
      <4> QED BY <2>2, <2>3, <4>1, <4>2 DEF IsMem
    <3>2. ack /\ addrgen = <<pe_req.id>>
      BY <2>1, <2>3, <3>1 DEF MemAnswer, MInv
    <3>3. addrgen' = <<>>
      BY <2>1, <3>2 DEF Drop
    <3> QED BY <2>1, <2>3, <3>2, <3>3
  <2>4. CASE ~IsMem(pe_req.insn)
    <3>1. addrgen = <<>>
      BY <2>4 DEF MInv
    <3> QED BY <1>1, <2>1, <2>4, <3>1
  <2> QED BY <2>3, <2>4
<1> QED BY <1>3, <1>4, <1>5 DEF Cycle

LEMMA NextMInv ==
    ASSUME LoadsWrite, NoStores \/ NoMaskB, TypeOK, Requested, MInv, [Next]_vars
    PROVE  MInv' /\ AnsweredByOwnAck("load") /\ AnsweredByOwnAck("store")
<1>1. CASE UNCHANGED vars
  BY <1>1 DEF vars, reqVars, seqVars, unitVars, MInv, AnsweredByOwnAck
<1>2. CASE Next
  <2>1. PICK done \in DoneSets, rdy \in BOOLEAN, ack \in BOOLEAN, sv \in BOOLEAN :
          Possible(rdy, ack, sv) /\ Cycle(done, rdy, ack, sv)
    BY <1>2 DEF Next
  \* Nothing enters the MaskB queue.
  <2>2. NoMaskB => maskb' = <<>>
    <3> SUFFICES ASSUME NoMaskB PROVE maskb' = <<>>
      OBVIOUS
    <3>1. rdy => ~UsesMaskB(pe_req.insn)
      BY <2>1 DEF Possible, MInv, NoMaskB
    <3>2. \E popped : MaskB(done, rdy, popped)
      BY <2>1, Zenon DEF Cycle, HoldRequest, NoRequest, QueueStall, HazardStall,
                         IssueInsn, KeepWaiting, Answer
    <3>3. maskb = <<>> /\ \A t : Drop(<<>>, t) = <<>>
      BY DEF MInv, Drop
    <3>4. maskb' = <<>> \o <<>>
      BY <3>1, <3>2, <3>3 DEF MaskB
    <3> QED BY <3>4
  <2>3. CASE IssueInsn(done, rdy, ack)
    <3>1. PICK id \in Ids :
            /\ pe_req' = [id |-> id, insn |-> ara_req]
            /\ addrgen' = Drop(addrgen, ack)
                            \o (IF is_load(ara_req.op) \/ is_store(ara_req.op)
                                THEN <<id>> ELSE <<>>)
      BY <2>3 DEF IssueInsn
    <3>2. /\ state = "IDLE" /\ ara_req_valid /\ ara_req \in Requests
          /\ state' = IF NeedsAnswer(ara_req) THEN "WAIT" ELSE "IDLE"
          /\ EveryCycle(done, rdy, ~NeedsAnswer(ara_req))
      BY <2>3 DEF IssueInsn, Requested
    <3>3. NeedsAnswer(ara_req) \in BOOLEAN /\ IsMem(ara_req) \in BOOLEAN
      BY DEF NeedsAnswer, is_load, is_store, IsMem
    <3>4. NeedsAnswer(ara_req) => UNCHANGED <<ara_req, ara_req_valid>>
      BY <3>2, <3>3 DEF EveryCycle, Dispatcher, reqVars
    <3>5. Drop(addrgen, ack) = <<>>
      BY <3>2 DEF MInv, Drop
    <3>6. addrgen' = IF IsMem(ara_req) THEN <<id>> ELSE <<>>
      BY <3>1, <3>5 DEF IsMem
    <3>7. IsMem(ara_req) => NeedsAnswer(ara_req)
      BY DEF IsMem, NeedsAnswer
    <3> QED
      BY <2>2, <3>1, <3>2, <3>3, <3>4, <3>6, <3>7 DEF MInv, AnsweredByOwnAck
  <2>4. CASE ~IssueInsn(done, rdy, ack)
    <3>1. /\ addrgen' = IF state' = "WAIT" /\ IsMem(pe_req'.insn)
                        THEN <<pe_req'.id>> ELSE <<>>
          /\ state = "WAIT" /\ state' = "IDLE" /\ IsMem(pe_req.insn)
               => ack /\ addrgen = <<pe_req.id>> /\ addrgen' = <<>>
          /\ state' = "WAIT" => /\ state = "WAIT" /\ pe_req' = pe_req
                                /\ UNCHANGED <<ara_req, ara_req_valid>>
          /\ pe_req_valid' => pe_req_valid /\ pe_req' = pe_req
      BY <2>1, <2>4, OwedKept
    <3>2. MInv'
      BY <2>2, <3>1 DEF MInv
    <3>3. AnsweredByOwnAck("load") /\ AnsweredByOwnAck("store")
      <4> SUFFICES ASSUME state = "WAIT", state' = "IDLE", IsMem(pe_req.insn)
                   PROVE  /\ addrgen # <<>> /\ Head(addrgen) = pe_req.id
                          /\ addrgen' = Tail(addrgen)
        BY DEF AnsweredByOwnAck, IsMem, is_load, is_store
      <4>1. addrgen = <<pe_req.id>> /\ addrgen' = <<>>
        BY <3>1
      <4> QED BY <4>1
    <3> QED BY <3>2, <3>3
  <2> QED BY <2>3, <2>4
<1> QED BY <1>1, <1>2

(***************************************************************************)
(* Loads and stores are answered by their own acknowledgements, in         *)
(* whatever order units, lanes, operands and acknowledgements come,        *)
(* provided that no store can be answered by a scalar response: that no    *)
(* store is requested, or that nothing is that leaves an operand in the    *)
(* MaskB queue (ara_sequencer.sv, state WAIT).                             *)
(***************************************************************************)
THEOREM MemoryAnsweredByOwnAck ==
    ASSUME LoadsWrite, NoStores \/ NoMaskB
    PROVE  Spec => LoadAnsweredByOwnAck /\ StoreAnsweredByOwnAck
<1>1. Init => MInv
  BY DEF Init, MInv
<1>2. ASSUME RInv, Requested, MInv, [Next]_vars
      PROVE  /\ MInv'
             /\ [AnsweredByOwnAck("load")]_vars
             /\ [AnsweredByOwnAck("store")]_vars
  BY <1>2, NextMInv DEF RInv
<1> QED BY <1>1, <1>2, RInvHolds, PTL
   DEF Spec, LoadAnsweredByOwnAck, StoreAnsweredByOwnAck

-----------------------------------------------------------------------------
(***************************************************************************)
(* The queues of the units, and the counters by which the sequencer        *)
(* follows them.                                                           *)
(***************************************************************************)

(***************************************************************************)
(* Whatever sits in a queue belongs there, and its instruction runs: on    *)
(* the unit's own processing element; or, for the lanes' part in a mask    *)
(* instruction, on the mask unit, which still has it; or, for the slide    *)
(* unit's part in a reduction, on lane 0, which still has it.              *)
(***************************************************************************)
Placed == \A u \in Units : \A i \in busy[u] : u[2] \in target_vfus(insn[i])

HeldBy(u, i) ==
    \/ i \in pe_vinsn_running[u[1]]
    \/ /\ u \in LaneUnits /\ vfu(insn[i].op) = "MaskUnit"
       /\ i \in busy[MaskU]
    \/ /\ u = SlideU /\ is_reduction(insn[i].op)
       /\ i \in busy[<<0, vfu(insn[i].op)>>]

Held == \A u \in Units : \A i \in busy[u] : HeldBy(u, i)

-----------------------------------------------------------------------------
(* The units *)

LEMMA UnitFacts ==
    /\ 0 \in Lanes /\ Lanes \subseteq PEs
    /\ \A u \in Units : u[1] \in PEs
    /\ MaskU \in Units /\ SlideU \in Units
    /\ MaskU \notin LaneUnits /\ SlideU \notin LaneUnits /\ MaskU # SlideU
    /\ \A u \in LaneUnits : u \in Units /\ u[1] \in Lanes /\ u[2] \in {"Alu", "MFpu"}
BY LanesAssumption
   DEF Lanes, PEs, Units, LaneUnits, SharedUnits, MaskU, SlideU, OffsetLoad,
       OffsetStore, OffsetMask, OffsetSlide

\* An instruction is never in two queues of the same processing element.
LEMMA OneQueue ==
    ASSUME NEW r \in Insns, NEW u \in Units, NEW w \in Units, u[1] = w[1],
           u[2] \in target_vfus(r), w[2] \in target_vfus(r)
    PROVE  u = w
<1>1. CASE u \in LaneUnits /\ w \in LaneUnits
  <2>1. ~({"Alu", "MFpu"} \subseteq target_vfus(r))
    BY DEF target_vfus, LaneVfu, vfu, is_reduction, Insns, Ops
  <2> QED BY <1>1, <2>1 DEF LaneUnits
<1>2. CASE ~(u \in LaneUnits /\ w \in LaneUnits)
  BY <1>2, LanesAssumption
     DEF Units, LaneUnits, SharedUnits, Lanes, OffsetLoad, OffsetStore,
         OffsetMask, OffsetSlide
<1> QED BY <1>1, <1>2

\* Where an instruction runs that enters a queue.
LEMMA Placement ==
    ASSUME NEW r \in Insns, NEW u \in UnitsOf(r)
    PROVE  \/ u[1] \in RunsOn(r)
           \/ u \in LaneUnits /\ vfu(r.op) = "MaskUnit" /\ MaskU \in UnitsOf(r)
           \/ /\ u = SlideU /\ is_reduction(r.op)
              /\ <<0, vfu(r.op)>> \in UnitsOf(r)
<1>1. u \in Units /\ u[2] \in target_vfus(r) /\ r.op \in Ops
  BY DEF UnitsOf, Insns
<1>2. CASE u \in LaneUnits /\ vfu(r.op) = "MaskUnit"
  BY <1>2, UnitFacts DEF UnitsOf, target_vfus, is_reduction, vfu, MaskU
<1>3. CASE u \in LaneUnits /\ vfu(r.op) # "MaskUnit"
  <2>1. vfu(r.op) \in {"Alu", "MFpu"}
    BY <1>1, <1>3, UnitFacts DEF target_vfus, LaneVfu, is_reduction, vfu, Ops
  <2> QED BY <1>3, <2>1, UnitFacts DEF RunsOn
<1>4. CASE u = SlideU /\ is_reduction(r.op)
  <2>1. vfu(r.op) \in {"Alu", "MFpu"} /\ vfu(r.op) \in LaneVfu(r.op)
    BY <1>4 DEF vfu, LaneVfu, is_reduction
  <2>2. <<0, vfu(r.op)>> \in Units
    BY <2>1, UnitFacts DEF LaneUnits, Units
  <2> QED BY <1>4, <2>1, <2>2 DEF UnitsOf, target_vfus
<1>5. CASE u \in SharedUnits /\ ~(u = SlideU /\ is_reduction(r.op))
  <2>1. CASE u = MaskU
    BY <1>1, <2>1 DEF MaskU, target_vfus, LaneVfu, is_reduction, vfu, RunsOn, Ops
  <2>2. CASE u # MaskU
    <3>1. u \in {<<OffsetLoad, "LoadUnit">>, <<OffsetStore, "StoreUnit">>, SlideU}
      BY <1>5, <2>2 DEF SharedUnits, MaskU, SlideU
    <3>2. u[2] \in {"LoadUnit", "StoreUnit", "SlideUnit"}
      BY <3>1 DEF SlideU
    <3>3. u[2] \notin LaneVfu(r.op)
      BY <3>2 DEF LaneVfu
    <3>4. u[2] = "SlideUnit" => ~is_reduction(r.op)
      BY <1>5, <3>1 DEF SlideU
    <3>5. vfu(r.op) = u[2]
      BY <1>1, <3>2, <3>3, <3>4 DEF target_vfus
    <3> QED BY <3>1, <3>5 DEF SlideU, RunsOn
  <2> QED BY <2>1, <2>2
<1> QED BY <1>1, <1>2, <1>3, <1>4, <1>5 DEF Units

-----------------------------------------------------------------------------
(* What sits in a queue is running *)

LEMMA HeldIsRunning ==
    ASSUME TypeOK, Held, NEW u \in Units, NEW i \in busy[u]
    PROVE  i \in vinsn_running
<1>1. HeldBy(u, i)
  BY DEF Held
<1>2. \A w \in Units : i \in pe_vinsn_running[w[1]] => i \in vinsn_running
  BY UnitFacts DEF vinsn_running
<1>3. CASE i \in pe_vinsn_running[u[1]]
  BY <1>2, <1>3
<1>4. CASE i \in busy[MaskU]
  BY <1>2, <1>4, UnitFacts DEF Held, HeldBy
<1>5. CASE is_reduction(insn[i].op) /\ i \in busy[<<0, vfu(insn[i].op)>>]
  <2> DEFINE w == <<0, vfu(insn[i].op)>>
  <2>1. vfu(insn[i].op) \in {"Alu", "MFpu"}
    BY <1>5 DEF vfu, is_reduction
  <2>2. w \in LaneUnits
    BY <2>1, UnitFacts DEF LaneUnits
  <2>3. HeldBy(w, i)
    BY <1>5, <2>2, UnitFacts DEF Held
  <2> HIDE DEF w
  <2> QED BY <1>2, <2>1, <2>2, <2>3, UnitFacts DEF HeldBy
<1> QED BY <1>1, <1>3, <1>4, <1>5 DEF HeldBy

(***************************************************************************)
(* While units report, whoever keeps an instruction running keeps it       *)
(* longer than the others: the mask unit waits for the lanes, lane 0 of a  *)
(* reduction for the slide unit.                                           *)
(***************************************************************************)
Left(done, u) == busy[u] \ Finished(done, u)
StillRuns(done, pe) == pe_vinsn_running[pe] \ FinishedAt(done, pe)

LEMMA HeldOn ==
    ASSUME TypeOK, Held, Placed, NEW done \in DoneSets,
           NEW u \in Units, NEW i \in Left(done, u)
    PROVE  \/ i \in StillRuns(done, u[1])
           \/ /\ u \in LaneUnits /\ vfu(insn[i].op) = "MaskUnit"
              /\ i \in Left(done, MaskU)
           \/ /\ u = SlideU /\ is_reduction(insn[i].op)
              /\ i \in Left(done, <<0, vfu(insn[i].op)>>)
<1>1. i \in busy[u] /\ <<u, i>> \notin done /\ i \in Ids /\ insn[i] \in Insns
  <2>1. i \in busy[u] /\ i \notin Finished(done, u)
    BY DEF Left
  <2>2. <<u, i>> \in done => i \in Finished(done, u)
    BY DEF Finished
  <2> QED BY <2>1, <2>2 DEF TypeOK
<1>2. \A d \in done : d \in Units \X Ids /\ MayFinish(d[1], d[2])
  BY DEF DoneSets
<1>3. HeldBy(u, i)
  BY <1>1 DEF Held
<1>4. CASE i \in pe_vinsn_running[u[1]]
  <2>1. ASSUME NEW d \in done, d[1][1] = u[1], d[2] = i PROVE FALSE
    <3>1. d[1] \in Units /\ i \in busy[d[1]] /\ d = <<d[1], i>>
      BY <1>2, <2>1 DEF MayFinish
    <3>2. d[1] = u
      BY <1>1, <2>1, <3>1, OneQueue DEF Placed
    <3> QED BY <1>1, <3>1, <3>2
  <2> QED BY <1>4, <2>1 DEF StillRuns, FinishedAt
<1>5. CASE u \in LaneUnits /\ vfu(insn[i].op) = "MaskUnit" /\ i \in busy[MaskU]
  <2>1. ASSUME NEW d \in done, d[1] = MaskU, d[2] = i PROVE FALSE
    <3>1. LanesAreDone(i)
      BY <1>2, <1>5, <2>1 DEF MayFinish
    <3> QED BY <1>1, <1>5, <3>1 DEF LanesAreDone
  <2> QED BY <1>5, <2>1 DEF Left, Finished
<1>6. CASE u = SlideU /\ is_reduction(insn[i].op)
             /\ i \in busy[<<0, vfu(insn[i].op)>>]
  <2>1. ASSUME NEW d \in done, d[1] = <<0, vfu(insn[i].op)>>, d[2] = i PROVE FALSE
    <3>1. i \notin busy[SlideU]
      BY <1>2, <1>6, <2>1 DEF MayFinish
    <3> QED BY <1>1, <1>6, <3>1
  <2> QED BY <1>6, <2>1 DEF Left, Finished
<1> QED BY <1>3, <1>4, <1>5, <1>6 DEF HeldBy

LEMMA NoIssueHeld ==
    ASSUME TypeOK, TypeOK', Held, Placed, NEW done \in DoneSets, NEW table,
           NoIssue(done, table)
    PROVE  Held' /\ Placed'
<1>1. /\ \A u \in Units : busy'[u] = Left(done, u)
      /\ \A pe \in PEs : pe_vinsn_running'[pe] = StillRuns(done, pe)
  BY DEF NoIssue, Left, StillRuns
<1>2. \A i \in vinsn_running' : i \in Ids => insn'[i] = insn[i]
  BY DEF NoIssue
<1>3. ASSUME NEW u \in Units, NEW i \in busy'[u]
      PROVE  i \in vinsn_running' /\ i \in Ids
  <2>1. i \in Left(done, u) /\ i \in Ids
    BY <1>1 DEF TypeOK
  <2>2. \A w \in Units : i \in StillRuns(done, w[1]) => i \in vinsn_running'
    BY <1>1, UnitFacts DEF vinsn_running
  <2>3. \A w \in Units : i \in Left(done, w) =>
          \/ i \in StillRuns(done, w[1])
          \/ w \in LaneUnits /\ vfu(insn[i].op) = "MaskUnit" /\ i \in Left(done, MaskU)
          \/ w = SlideU /\ is_reduction(insn[i].op)
               /\ i \in Left(done, <<0, vfu(insn[i].op)>>)
    BY HeldOn
  <2>4. i \in Left(done, MaskU) => i \in vinsn_running'
    BY <2>2, <2>3, UnitFacts
  <2>5. CASE is_reduction(insn[i].op) /\ i \in Left(done, <<0, vfu(insn[i].op)>>)
    <3> DEFINE w == <<0, vfu(insn[i].op)>>
    <3>1. vfu(insn[i].op) \in {"Alu", "MFpu"} 
      BY <2>5 DEF vfu, is_reduction
    <3>2. w \in LaneUnits /\ w \in Units
      BY <3>1, UnitFacts DEF LaneUnits
    <3>3. i \in Left(done, w)
      BY <2>5
    <3>4. w # SlideU
      BY <3>2, UnitFacts
    <3>5. i \in StillRuns(done, w[1]) \/ i \in Left(done, MaskU)
      <4> HIDE DEF w
      <4> QED BY <2>3, <3>2, <3>3, <3>4
    <3>6. i \in StillRuns(done, w[1]) => i \in vinsn_running'
      BY <2>2, <3>2
    <3> QED BY <2>1, <2>4, <3>5, <3>6
  <2> QED BY <2>1, <2>2, <2>3, <2>4, <2>5
<1>4. Placed'
  BY <1>1, <1>2, <1>3 DEF Placed, Left
<1>5. ASSUME NEW u \in Units, NEW i \in busy'[u] PROVE HeldBy(u, i)'
  <2>1. i \in Left(done, u) /\ insn'[i] = insn[i] /\ i \in Ids
    BY <1>1, <1>2, <1>3
  <2>2. CASE i \in StillRuns(done, u[1])
    BY <1>1, <2>2, UnitFacts DEF HeldBy
  <2>3. CASE u \in LaneUnits /\ vfu(insn[i].op) = "MaskUnit" /\ i \in Left(done, MaskU)
    BY <1>1, <2>1, <2>3, UnitFacts DEF HeldBy
  <2>4. CASE u = SlideU /\ is_reduction(insn[i].op)
               /\ i \in Left(done, <<0, vfu(insn[i].op)>>)
    <3>1. vfu(insn[i].op) \in {"Alu", "MFpu"} 
      BY <2>4 DEF vfu, is_reduction
    <3>2. <<0, vfu(insn[i].op)>> \in Units
      BY <3>1, UnitFacts DEF LaneUnits
    <3> QED BY <1>1, <2>1, <2>4, <3>2 DEF HeldBy
  <2> QED BY <2>1, <2>2, <2>3, <2>4, HeldOn
<1> QED BY <1>4, <1>5 DEF Held

LEMMA EnterHeld ==
    ASSUME TypeOK, TypeOK', Held, Placed, NEW done \in DoneSets,
           NEW id \in Ids, IsNextId(id), Enter(id, done)
    PROVE  /\ Held' /\ Placed'
           /\ \A u \in Units : id \notin busy[u]
<1> DEFINE r == ara_req
<1>1. /\ \A u \in Units : busy'[u] = Left(done, u)
                             \cup (IF u \in UnitsOf(r) THEN {id} ELSE {})
      /\ \A pe \in PEs : pe_vinsn_running'[pe] = StillRuns(done, pe)
                             \cup (IF pe \in RunsOn(r) THEN {id} ELSE {})
      /\ \A i \in Ids : insn'[i] = IF i \notin vinsn_running' THEN NoInsn
                                  ELSE IF i = id THEN r ELSE insn[i]
  BY DEF Enter, Left, StillRuns
<1>2. \A u \in Units : id \notin busy[u]
  BY HeldIsRunning DEF IsNextId
<1>3. r \in Insns
  BY DEF TypeOK
<1> HIDE DEF r
\* A unit that holds an instruction holds it with one that keeps it running.
<1>4. ASSUME NEW u \in Units, NEW i \in busy'[u]
      PROVE  /\ i \in Ids
             /\ \/ i # id /\ i \in Left(done, u)
                \/ i = id /\ u \in UnitsOf(r)
  BY <1>1, <1>2 DEF TypeOK, Left
<1>5. ASSUME NEW u \in Units, NEW i \in busy'[u], NEW op,
             op = IF i = id THEN r.op ELSE insn[i].op
      PROVE  \/ i \in pe_vinsn_running'[u[1]]
             \/ u \in LaneUnits /\ vfu(op) = "MaskUnit" /\ i \in busy'[MaskU]
             \/ /\ u = SlideU /\ is_reduction(op)
                /\ <<0, vfu(op)>> \in LaneUnits /\ i \in busy'[<<0, vfu(op)>>]
  <2>1. is_reduction(op) => <<0, vfu(op)>> \in LaneUnits /\ <<0, vfu(op)>> \in Units
    <3>1. is_reduction(op) => vfu(op) \in {"Alu", "MFpu"}
      BY DEF vfu, is_reduction
    <3> QED BY <3>1, UnitFacts DEF LaneUnits
  <2>2. CASE i # id /\ i \in Left(done, u)
    <3>1. \/ i \in StillRuns(done, u[1])
          \/ u \in LaneUnits /\ vfu(op) = "MaskUnit" /\ i \in Left(done, MaskU)
          \/ u = SlideU /\ is_reduction(op) /\ i \in Left(done, <<0, vfu(op)>>)
      BY <1>5, <2>2, HeldOn
    <3> QED BY <1>1, <2>1, <3>1, UnitFacts
  <2>3. CASE i = id /\ u \in UnitsOf(r)
    <3>1. \/ u[1] \in RunsOn(r)
          \/ u \in LaneUnits /\ vfu(op) = "MaskUnit" /\ MaskU \in UnitsOf(r)
          \/ u = SlideU /\ is_reduction(op) /\ <<0, vfu(op)>> \in UnitsOf(r)
      BY <1>3, <1>5, <2>3, Placement
    <3> QED BY <1>1, <2>1, <2>3, <3>1, UnitFacts
  <2> QED BY <1>4, <2>2, <2>3
<1>6. ASSUME NEW u \in Units, NEW i \in busy'[u]
      PROVE  i \in vinsn_running'
  <2>1. PICK op : op = IF i = id THEN r.op ELSE insn[i].op
    OBVIOUS
  <2>2. \A w \in Units : i \in pe_vinsn_running'[w[1]] => i \in vinsn_running'
    BY UnitFacts DEF vinsn_running
  <2>3. i \in busy'[MaskU] => i \in pe_vinsn_running'[MaskU[1]]
    BY <1>5, <2>1, UnitFacts
  <2>4. i \in busy'[MaskU] => i \in vinsn_running'
    BY <2>2, <2>3, UnitFacts
  <2>5. ASSUME NEW w \in LaneUnits, i \in busy'[w] PROVE i \in vinsn_running'
    <3>1. w \in Units /\ w # SlideU
      BY UnitFacts
    <3>2. i \in pe_vinsn_running'[w[1]] \/ i \in busy'[MaskU]
      BY <1>5, <2>1, <2>5, <3>1
    <3> QED BY <2>2, <2>4, <3>1, <3>2
  <2> QED BY <1>5, <2>1, <2>2, <2>4, <2>5
<1>7. Placed'
  <2> SUFFICES ASSUME NEW u \in Units, NEW i \in busy'[u]
               PROVE  u[2] \in target_vfus(insn'[i])
    BY DEF Placed
  <2>1. insn'[i] = IF i = id THEN r ELSE insn[i]
    BY <1>1, <1>4, <1>6
  <2>2. CASE i # id
    BY <1>4, <2>1, <2>2 DEF Placed, Left
  <2>3. CASE i = id
    BY <1>4, <2>1, <2>3 DEF UnitsOf
  <2> QED BY <2>2, <2>3
<1>8. ASSUME NEW u \in Units, NEW i \in busy'[u] PROVE HeldBy(u, i)'
  <2>1. insn'[i].op = IF i = id THEN r.op ELSE insn[i].op
    BY <1>1, <1>4, <1>6
  <2> QED BY <1>5, <2>1 DEF HeldBy
<1> QED BY <1>2, <1>7, <1>8 DEF Held

-----------------------------------------------------------------------------
(***************************************************************************)
(* The counters.  The tokens tell whether the instruction at the door has  *)
(* been counted: never while there is none, always while it is answered.   *)
(***************************************************************************)
Tokens ==
    /\ state = "WAIT" => ara_req_valid /\ ara_req_token_q = ara_req_token
    /\ ~ara_req_valid => ara_req_token_q # ara_req_token

QInv ==
    /\ TypeOK /\ Held /\ Placed
    /\ Tokens /\ CountersExact /\ NoCountedQueueOverflow

One(b) == IF b THEN 1 ELSE 0
AtDoor(v) == AtTheDoor /\ v \in target_vfus(ara_req)

\* One queue is counted for each unit there is.
LEMMA CountedOnce ==
    ASSUME NEW v \in VFUs, NEW u \in CountedUnits(v)
    PROVE  /\ u \in Units /\ u[2] = v /\ v # "None"
           /\ CountedUnits(v) = {u}
           /\ InsnQueueDepth[v] \in 1..6
<1>1. u \in Units /\ u[2] = v /\ u[1] \notin Lanes \ {0}
  BY DEF CountedUnits
<1>2. v # "None"
  BY <1>1 DEF Units, LaneUnits, SharedUnits
<1>3. ASSUME NEW w \in CountedUnits(v) PROVE w = u
  <2>1. w \in Units /\ w[2] = v /\ w[1] \notin Lanes \ {0}
    BY DEF CountedUnits
  <2> QED BY <1>1, <2>1 DEF Units, LaneUnits, SharedUnits
<1> QED BY <1>1, <1>2, <1>3, DepthAssumption DEF CounterRange

LEMMA BusyFinite ==
    ASSUME TypeOK, NEW u \in Units
    PROVE  IsFiniteSet(busy[u]) /\ Cardinality(busy[u]) \in Nat
<1>1. IsFiniteSet(Ids)
  BY VInsnAssumption, FS_Interval DEF Ids
<1>2. busy[u] \subseteq Ids
  BY DEF TypeOK
<1> QED BY <1>1, <1>2, FS_Subset, FS_CardinalityType

\* A unit reports one instruction in a cycle.
LEMMA OneLeaves ==
    ASSUME TypeOK, NEW done \in DoneSets, NEW u \in Units
    PROVE  /\ IsFiniteSet(Left(done, u)) /\ Cardinality(Left(done, u)) \in Nat
           /\ Cardinality(busy[u]) =
                Cardinality(Left(done, u)) + One(\E d \in done : d[1] = u)
<1>1. IsFiniteSet(busy[u]) /\ Cardinality(busy[u]) \in Nat
  BY BusyFinite
<1>2. \A d, e \in done : d[1] = e[1] => d = e
  BY DEF DoneSets
<1>3. CASE \E d \in done : d[1] = u
  <2>1. PICK d \in done : d[1] = u
    BY <1>3
  <2>2. Finished(done, u) = {d[2]}
    BY <1>2, <2>1 DEF Finished
  <2>3. d[2] \in busy[u]
    BY <2>1, DoneType
  <2>4. Left(done, u) = busy[u] \ {d[2]}
    BY <2>2 DEF Left
  <2>5. /\ IsFiniteSet(Left(done, u))
        /\ Cardinality(Left(done, u)) = Cardinality(busy[u]) - 1
    BY <1>1, <2>3, <2>4, FS_RemoveElement
  <2>6. Cardinality(Left(done, u)) \in Nat
    BY <2>5, FS_CardinalityType
  <2> QED BY <1>1, <1>3, <2>5, <2>6 DEF One
<1>4. CASE ~\E d \in done : d[1] = u
  <2>1. Left(done, u) = busy[u]
    BY <1>4 DEF Left, Finished
  <2> QED BY <1>1, <1>4, <2>1 DEF One
<1> QED BY <1>3, <1>4

\* The counter follows: it does not wrap, neither at zero nor at its width.
LEMMA CounterFollows ==
    ASSUME QInv, NEW done \in DoneSets, NEW ready, Counters(done, ready),
           NEW v \in VFUs, NEW u \in CountedUnits(v)
    PROVE  /\ insn_queue_cnt[v] = Cardinality(busy[u]) + One(AtDoor(v))
           /\ insn_queue_cnt'[v] =
                Cardinality(Left(done, u)) + One(AtDoor(v)) + One(cnt_up(v))
<1>1. /\ u \in Units /\ v # "None" /\ CountedUnits(v) = {u}
      /\ InsnQueueDepth[v] \in 1..6
  BY CountedOnce
<1> DEFINE n == Cardinality(busy[u])
           l == Cardinality(Left(done, u))
           c == insn_queue_cnt[v]
           down == \E d \in done : d[1] = u
<1>2. n \in Nat /\ l \in Nat /\ n = l + One(down)
  BY <1>1, OneLeaves, BusyFinite DEF QInv
<1>3. c = n + One(AtDoor(v))
  BY <1>1 DEF QInv, CountersExact, AtDoor, One
<1>4. n <= InsnQueueDepth[v]
  BY DEF QInv, NoCountedQueueOverflow
<1>5. cnt_down(v, done) <=> down
  BY <1>1 DEF cnt_down
<1>6. ~(AtDoor(v) /\ cnt_up(v))
  BY DEF AtDoor, AtTheDoor, cnt_up, accepted_insn
<1>7. insn_queue_cnt'[v] =
        IF cnt_up(v) = cnt_down(v, done) THEN c
        ELSE IF cnt_up(v) THEN (c + 1) % CounterRange ELSE (c - 1) % CounterRange
  BY DEF Counters
<1>8. cnt_up(v) \in BOOLEAN /\ cnt_down(v, done) \in BOOLEAN
  BY DEF cnt_up, cnt_down, accepted_insn
<1>9. CASE cnt_up(v) = cnt_down(v, done)
  BY <1>2, <1>3, <1>5, <1>7, <1>8, <1>9 DEF One
<1>10. CASE cnt_up(v) /\ ~cnt_down(v, done)
  <2>1. c = n /\ n = l /\ c + 1 \in 0..7
    BY <1>1, <1>2, <1>3, <1>4, <1>5, <1>6, <1>10 DEF One
  <2>2. insn_queue_cnt'[v] = c + 1
    <3>1. (c + 1) % CounterRange = c + 1
      <4>1. \A k \in 0..7 : k % 8 = k
        OBVIOUS
      <4> QED BY <2>1, <4>1 DEF CounterRange
    <3> QED BY <1>7, <1>8, <1>10, <3>1
  <2> QED BY <1>3, <1>6, <1>10, <2>1, <2>2 DEF One
<1>11. CASE ~cnt_up(v) /\ cnt_down(v, done)
  <2>1. n = l + 1 /\ c - 1 = l + One(AtDoor(v)) /\ c - 1 \in 0..7
    BY <1>1, <1>2, <1>3, <1>4, <1>5, <1>11 DEF One
  <2>2. insn_queue_cnt'[v] = c - 1
    <3>1. (c - 1) % CounterRange = c - 1
      <4>1. \A k \in 0..7 : k % 8 = k
        OBVIOUS
      <4> QED BY <2>1, <4>1 DEF CounterRange
    <3> QED BY <1>7, <1>8, <1>11, <3>1
  <2> QED BY <1>3, <1>11, <2>1, <2>2 DEF One
<1> QED BY <1>3, <1>8, <1>9, <1>10, <1>11

-----------------------------------------------------------------------------
(***************************************************************************)
(* The invariant is kept: one lemma for the tokens, one for the counters   *)
(* of cycles that issue nothing, one for those that issue.                 *)
(***************************************************************************)
LEMMA TokensKept ==
    ASSUME TypeOK, Tokens, NEW done \in DoneSets, NEW rdy \in BOOLEAN,
           NEW ack \in BOOLEAN, NEW sv \in BOOLEAN, Cycle(done, rdy, ack, sv)
    PROVE  Tokens'
<1>1. ASSUME NEW ready \in BOOLEAN, EveryCycle(done, rdy, ready)
      PROVE  /\ ara_req_token_q' = IF ara_req_valid THEN ara_req_token
                                   ELSE ara_req_token_q
             /\ ready => ara_req_token' = IF ara_req_valid THEN 1 - ara_req_token
                                          ELSE ara_req_token
             /\ ~ready => UNCHANGED <<ara_req_token, ara_req_valid>>
  BY <1>1 DEF EveryCycle, Counters, Dispatcher, next_token, reqVars
<1>2. ara_req_token \in {0, 1} /\ ara_req_valid \in BOOLEAN
  BY DEF TypeOK
<1>3. \A t \in {0, 1} : 1 - t # t
  OBVIOUS
<1>4. CASE HoldRequest(done, rdy, ack) \/ QueueStall(done, rdy, ack)
             \/ HazardStall(done, rdy, ack)
  <2>1. state = "IDLE" /\ state' = "IDLE" /\ EveryCycle(done, rdy, FALSE)
    BY <1>4 DEF HoldRequest, QueueStall, HazardStall
  <2> QED BY <1>1, <1>2, <2>1 DEF Tokens
<1>5. CASE NoRequest(done, rdy, ack)
  <2>1. /\ state = "IDLE" /\ state' = "IDLE" /\ EveryCycle(done, rdy, TRUE)
        /\ ~ara_req_valid
    BY <1>5 DEF NoRequest
  <2> QED BY <1>1, <1>2, <2>1 DEF Tokens
<1>6. CASE IssueInsn(done, rdy, ack)
  <2>1. NeedsAnswer(ara_req) \in BOOLEAN
    BY DEF NeedsAnswer, is_load, is_store
  <2>2. /\ state' = IF NeedsAnswer(ara_req) THEN "WAIT" ELSE "IDLE"
        /\ EveryCycle(done, rdy, ~NeedsAnswer(ara_req)) /\ ara_req_valid
    BY <1>6 DEF IssueInsn
  <2> QED BY <1>1, <1>2, <1>3, <2>1, <2>2 DEF Tokens
<1>7. CASE KeepWaiting(done, rdy, ack, sv)
  <2>1. state = "WAIT" /\ state' = "WAIT" /\ EveryCycle(done, rdy, FALSE)
    BY <1>7 DEF KeepWaiting
  <2> QED BY <1>1, <1>2, <2>1 DEF Tokens
<1>8. CASE Answer(done, rdy, ack, sv)
  <2>1. state = "WAIT" /\ state' = "IDLE" /\ EveryCycle(done, rdy, TRUE)
    BY <1>8 DEF Answer
  <2> QED BY <1>1, <1>2, <1>3, <2>1 DEF Tokens
<1> QED BY <1>4, <1>5, <1>6, <1>7, <1>8 DEF Cycle

\* An instruction counted in this cycle stays at the door, if it does not go in.
LEMMA DoorKept ==
    ASSUME QInv, Tokens', NEW done \in DoneSets, NEW rdy \in BOOLEAN,
           NEW ack \in BOOLEAN, NEW sv \in BOOLEAN, NEW v \in VFUs,
           Cycle(done, rdy, ack, sv), ~IssueInsn(done, rdy, ack)
    PROVE  One(AtDoor(v))' = One(AtDoor(v)) + One(cnt_up(v))
<1>1. ara_req_valid \in BOOLEAN /\ Tokens
  BY DEF QInv, TypeOK
<1>2. CASE HoldRequest(done, rdy, ack) \/ QueueStall(done, rdy, ack)
             \/ HazardStall(done, rdy, ack)
  <2>1. state = "IDLE" /\ state' = "IDLE" /\ EveryCycle(done, rdy, FALSE)
    BY <1>2 DEF HoldRequest, QueueStall, HazardStall
  <2>2. /\ ara_req_token_q' = IF ara_req_valid THEN ara_req_token
                              ELSE ara_req_token_q
        /\ ara_req_valid' = ara_req_valid /\ ara_req' = ara_req
        /\ ara_req_token' = ara_req_token
    BY <2>1 DEF EveryCycle, Counters, Dispatcher, reqVars
  <2> QED BY <1>1, <2>1, <2>2 DEF One, AtDoor, AtTheDoor, cnt_up, accepted_insn
<1>3. CASE NoRequest(done, rdy, ack)
  <2>1. state = "IDLE" /\ EveryCycle(done, rdy, TRUE) /\ ~ara_req_valid
    BY <1>3 DEF NoRequest
  <2>2. ara_req_token_q' = ara_req_token_q /\ ara_req_token' = ara_req_token
    BY <2>1 DEF EveryCycle, Counters, Dispatcher
  <2> QED BY <1>1, <2>1, <2>2
          DEF One, AtDoor, AtTheDoor, cnt_up, accepted_insn, Tokens
<1>4. CASE KeepWaiting(done, rdy, ack, sv)
  <2>1. state = "WAIT" /\ state' = "WAIT"
    BY <1>4 DEF KeepWaiting
  <2> QED BY <1>1, <2>1 DEF One, AtDoor, AtTheDoor, cnt_up, accepted_insn, Tokens
<1>5. CASE Answer(done, rdy, ack, sv)
  <2>1. state = "WAIT" /\ EveryCycle(done, rdy, TRUE) /\ ara_req_valid
    BY <1>1, <1>5 DEF Answer, Tokens
  <2>2. /\ ara_req_token_q' = ara_req_token
        /\ ara_req_token' = 1 - ara_req_token /\ ara_req_token \in {0, 1}
    BY <2>1 DEF EveryCycle, Counters, Dispatcher, next_token, QInv, TypeOK
  <2> QED BY <1>1, <2>1, <2>2
          DEF One, AtDoor, AtTheDoor, cnt_up, accepted_insn, Tokens
<1> QED BY <1>2, <1>3, <1>4, <1>5 DEF Cycle

LEMMA StallKeeps ==
    ASSUME QInv, TypeOK', Tokens', NEW done \in DoneSets, NEW rdy \in BOOLEAN,
           NEW ack \in BOOLEAN, NEW sv \in BOOLEAN, Cycle(done, rdy, ack, sv),
           ~IssueInsn(done, rdy, ack), NEW table, NoIssue(done, table)
    PROVE  QInv'
<1>1. Held' /\ Placed'
  BY NoIssueHeld DEF QInv
<1>2. PICK ready \in BOOLEAN : Counters(done, ready)
  BY EveryCycleHappens DEF EveryCycle
<1>3. \A u \in Units : busy'[u] = Left(done, u)
  BY DEF NoIssue, Left
<1>4. ASSUME NEW v \in VFUs \ {"None"}, NEW u \in CountedUnits(v)
      PROVE  insn_queue_cnt'[v] = Cardinality(busy'[u]) + One(AtDoor(v))'
  <2>1. insn_queue_cnt'[v] =
          Cardinality(Left(done, u)) + One(AtDoor(v)) + One(cnt_up(v))
    BY <1>2, CounterFollows
  <2>2. One(AtDoor(v))' = One(AtDoor(v)) + One(cnt_up(v))
    BY DoorKept
  <2>3. busy'[u] = Left(done, u) /\ Cardinality(Left(done, u)) \in Nat
    BY <1>3, CountedOnce, OneLeaves DEF QInv
  <2>4. One(AtDoor(v)) \in Nat /\ One(cnt_up(v)) \in Nat
    BY DEF One
  <2> QED BY <2>1, <2>2, <2>3, <2>4
<1>5. CountersExact'
  BY <1>4 DEF CountersExact, AtDoor, One
<1>6. ASSUME NEW v \in VFUs, NEW u \in CountedUnits(v)
      PROVE  Cardinality(busy'[u]) <= InsnQueueDepth[v]
  <2>1. u \in Units /\ InsnQueueDepth[v] \in 1..6
    BY CountedOnce
  <2>2. /\ Cardinality(Left(done, u)) \in Nat
        /\ Cardinality(busy[u]) = Cardinality(Left(done, u))
                                   + One(\E d \in done : d[1] = u)
    BY <2>1, OneLeaves DEF QInv
  <2>3. Cardinality(Left(done, u)) <= Cardinality(busy[u])
    BY <2>2 DEF One
  <2>4. Cardinality(busy[u]) <= InsnQueueDepth[v]
    BY DEF QInv, NoCountedQueueOverflow
  <2>5. Cardinality(busy[u]) \in Nat
    BY <2>1, BusyFinite DEF QInv
  <2>6. Cardinality(busy'[u]) = Cardinality(Left(done, u))
    BY <1>3, <2>1
  <2> DEFINE was == Cardinality(busy[u])
             is == Cardinality(busy'[u])
             left == Cardinality(Left(done, u))
             depth == InsnQueueDepth[v]
  <2>7. left \in Nat /\ was \in Nat /\ depth \in Nat
    <3>1. \A k \in 1..6 : k \in Nat
      OBVIOUS
    <3> QED BY <2>1, <2>2, <2>5, <3>1
  <2> HIDE DEF was, is, left, depth
  <2>8. is = left /\ left <= was /\ was <= depth
    BY <2>3, <2>4, <2>6 DEF is, left, was, depth
  <2>9. is <= depth
    BY <2>7, <2>8
  <2> QED BY <2>9 DEF is, depth
<1>7. NoCountedQueueOverflow'
  BY <1>6 DEF NoCountedQueueOverflow
<1> QED BY <1>1, <1>5, <1>7 DEF QInv

\* An instruction that may be issued finds room in the counted queues: the
\* counter is below the depth, or reaches it with the instruction itself.
LEMMA RoomAtIssue ==
    ASSUME QInv, vinsn_queue_issue, ara_req_valid, state = "IDLE",
           NEW v \in VFUs, NEW u \in CountedUnits(v), v \in target_vfus(ara_req)
    PROVE  Cardinality(busy[u]) + 1 <= InsnQueueDepth[v]
<1>1. /\ u \in Units /\ v # "None" /\ InsnQueueDepth[v] \in 1..6
      /\ Cardinality(busy[u]) \in Nat
  BY CountedOnce, BusyFinite DEF QInv
<1>2. insn_queue_cnt[v] = Cardinality(busy[u]) + One(AtDoor(v))
  BY <1>1 DEF QInv, CountersExact, AtDoor, One
<1>3. \/ insn_queue_cnt[v] < InsnQueueDepth[v]
      \/ insn_queue_cnt[v] = InsnQueueDepth[v] /\ ara_req_token_q = ara_req_token
  BY DEF vinsn_queue_issue, priority_pass
<1>4. ara_req_token_q = ara_req_token => One(AtDoor(v)) = 1
  BY DEF One, AtDoor, AtTheDoor
<1>5. One(AtDoor(v)) \in {0, 1}
  BY DEF One
<1> QED BY <1>1, <1>2, <1>3, <1>4, <1>5

\* An instruction that enters a counted queue is counted there.
LEMMA IssueKeeps ==
    ASSUME QInv, TypeOK', Tokens', NEW done \in DoneSets, NEW rdy \in BOOLEAN,
           NEW ack \in BOOLEAN, IssueInsn(done, rdy, ack)
    PROVE  QInv'
<1>1. PICK id \in Ids : IsNextId(id) /\ Enter(id, done)
  BY DEF IssueInsn
<1>2. Held' /\ Placed' /\ \A u \in Units : id \notin busy[u]
  BY <1>1, EnterHeld DEF QInv
<1>3. NeedsAnswer(ara_req) \in BOOLEAN
  BY DEF NeedsAnswer, is_load, is_store
<1>4. /\ state = "IDLE" /\ ara_req_valid /\ vinsn_queue_issue
      /\ EveryCycle(done, rdy, ~NeedsAnswer(ara_req))
      /\ state' = IF NeedsAnswer(ara_req) THEN "WAIT" ELSE "IDLE"
  BY DEF IssueInsn, CanIssue
<1>5. Counters(done, ~NeedsAnswer(ara_req))
  BY <1>4 DEF EveryCycle
\* Nobody is at the door any more.
<1>6. ~AtTheDoor'
  <2>1. CASE NeedsAnswer(ara_req)
    BY <1>4, <2>1 DEF AtTheDoor
  <2>2. CASE ~NeedsAnswer(ara_req)
    <3>1. /\ ara_req_token_q' = ara_req_token
          /\ ara_req_token' = 1 - ara_req_token /\ ara_req_token \in {0, 1}
      BY <1>3, <1>4, <2>2 DEF EveryCycle, Counters, Dispatcher, next_token, QInv, TypeOK
    <3> QED BY <3>1 DEF AtTheDoor
  <2> QED BY <1>3, <2>1, <2>2
<1>7. ASSUME NEW v \in VFUs, NEW u \in CountedUnits(v)
      PROVE  /\ insn_queue_cnt'[v] = Cardinality(busy'[u])
             /\ Cardinality(busy'[u]) <= InsnQueueDepth[v]
  <2> DEFINE left == Cardinality(Left(done, u))
             n == Cardinality(busy[u])
             enters == v \in target_vfus(ara_req)
  <2>1. u \in Units /\ u[2] = v /\ InsnQueueDepth[v] \in 1..6
    BY CountedOnce
  <2>2. /\ IsFiniteSet(Left(done, u)) /\ left \in Nat
        /\ n = left + One(\E d \in done : d[1] = u)
    BY <2>1, OneLeaves DEF QInv
  <2>3. left <= n /\ n \in Nat
    BY <2>1, <2>2, BusyFinite DEF One, QInv
  <2>4. u \in UnitsOf(ara_req) <=> enters
    BY <2>1 DEF UnitsOf
  <2>5. busy'[u] = Left(done, u) \cup (IF u \in UnitsOf(ara_req) THEN {id} ELSE {})
    BY <1>1, <2>1 DEF Enter, Left
  <2>6. Cardinality(busy'[u]) = left + One(enters)
    <3>1. CASE enters
      <4>1. id \notin Left(done, u) /\ busy'[u] = Left(done, u) \cup {id}
        BY <1>2, <2>1, <2>4, <2>5, <3>1 DEF Left
      <4> QED BY <2>2, <3>1, <4>1, FS_AddElement DEF One
    <3>2. CASE ~enters
      <4>1. busy'[u] = Left(done, u)
        BY <2>4, <2>5, <3>2
      <4>2. One(enters) = 0
        BY <3>2 DEF One
      <4> HIDE DEF left, enters
      <4>3. left + One(enters) = left
        BY <2>2, <4>2
      <4> QED BY <4>1, <4>3 DEF left
    <3> QED BY <3>1, <3>2
  <2>7. /\ insn_queue_cnt[v] = n + One(AtDoor(v))
        /\ insn_queue_cnt'[v] = left + One(AtDoor(v)) + One(cnt_up(v))
    BY <1>5, CounterFollows
  <2>8. One(AtDoor(v)) + One(cnt_up(v)) = One(enters)
    BY <1>4 DEF One, AtDoor, AtTheDoor, cnt_up, accepted_insn
  <2>9. One(AtDoor(v)) \in {0, 1} /\ One(cnt_up(v)) \in {0, 1}
    BY DEF One
  <2>10. CASE enters
    <3>1. n + 1 <= InsnQueueDepth[v]
      BY <1>4, <2>10, RoomAtIssue
    <3> QED BY <2>1, <2>2, <2>3, <2>6, <2>7, <2>8, <2>9, <2>10, <3>1 DEF One
  <2>11. CASE ~enters
    <3>1. n <= InsnQueueDepth[v]
      BY DEF QInv, NoCountedQueueOverflow
    <3> QED BY <2>1, <2>2, <2>3, <2>6, <2>7, <2>8, <2>9, <2>11, <3>1 DEF One
  <2> QED BY <2>10, <2>11
<1>8. CountersExact'
  <2> SUFFICES ASSUME NEW v \in VFUs \ {"None"}, NEW u \in CountedUnits(v)
               PROVE  insn_queue_cnt'[v] = Cardinality(busy'[u]) + 0
    BY <1>6 DEF CountersExact
  <2>1. insn_queue_cnt'[v] = Cardinality(busy'[u])
    BY <1>7
  <2>2. Cardinality(busy'[u]) \in Nat
    <3>1. u \in Units
      BY CountedOnce
    <3>2. busy'[u] \in SUBSET Ids
      BY <3>1 DEF TypeOK
    <3>3. IsFiniteSet(Ids)
      BY VInsnAssumption, FS_Interval DEF Ids
    <3> QED BY <3>2, <3>3, FS_Subset, FS_CardinalityType
  <2> QED BY <2>1, <2>2
<1>9. NoCountedQueueOverflow'
  BY <1>7 DEF NoCountedQueueOverflow
<1> QED BY <1>2, <1>8, <1>9 DEF QInv

LEMMA InitQInv == Init => QInv
<1> SUFFICES ASSUME Init PROVE QInv
  OBVIOUS
<1>1. TypeOK
  BY InitType
<1>2. Held /\ Placed
  BY DEF Init, Held, Placed
<1>3. Tokens
  BY DEF Init, Tokens
<1>4. \A u \in Units : Cardinality(busy[u]) = 0
  BY FS_EmptySet DEF Init
<1>5. ~AtTheDoor
  BY DEF Init, AtTheDoor
<1>6. CountersExact
  BY <1>4, <1>5, CountedOnce DEF Init, CountersExact
<1>7. NoCountedQueueOverflow
  <2> SUFFICES ASSUME NEW v \in VFUs, NEW u \in CountedUnits(v)
               PROVE  Cardinality(busy[u]) <= InsnQueueDepth[v]
    BY DEF NoCountedQueueOverflow
  <2> QED BY <1>4, CountedOnce
<1> QED BY <1>1, <1>2, <1>3, <1>6, <1>7 DEF QInv

LEMMA NextQInv == QInv /\ [Next]_vars => QInv'
<1> SUFFICES ASSUME QInv, [Next]_vars PROVE QInv'
  OBVIOUS
<1>1. TypeOK'
  BY NextType DEF QInv
<1>2. CASE UNCHANGED vars
  BY <1>2 DEF QInv, TypeOK, Held, HeldBy, Placed, Tokens, CountersExact, AtTheDoor,
              NoCountedQueueOverflow, vars, reqVars, seqVars, unitVars, histVars
<1>3. CASE Next
  <2>1. PICK done \in DoneSets, rdy \in BOOLEAN, ack \in BOOLEAN, sv \in BOOLEAN :
          Cycle(done, rdy, ack, sv)
    BY <1>3 DEF Next
  <2>2. Tokens'
    BY <2>1, TokensKept DEF QInv
  <2>3. CASE IssueInsn(done, rdy, ack)
    BY <1>1, <2>2, <2>3, IssueKeeps
  <2>4. CASE ~IssueInsn(done, rdy, ack)
    <3>1. \E table : NoIssue(done, table)
      BY <2>1, <2>4 DEF Cycle, HoldRequest, NoRequest, QueueStall, HazardStall,
                        KeepWaiting, Answer
    <3> QED BY <1>1, <2>1, <2>2, <2>4, <3>1, StallKeeps
  <2> QED BY <2>3, <2>4
<1> QED BY <1>2, <1>3

LEMMA QInvHolds == Spec => []QInv
BY InitQInv, NextQInv, PTL DEF Spec

-----------------------------------------------------------------------------
(***************************************************************************)
(* The counters of the sequencer, which it only works out from what it     *)
(* issues and from the reports of lane 0 and the other units, tell the     *)
(* occupancy of their queues in every cycle (ara_sequencer.sv,             *)
(* insn_queue_cnt).                                                        *)
(***************************************************************************)
THEOREM CountersAlwaysExact == Spec => []CountersExact
<1>1. QInv => CountersExact
  BY DEF QInv
<1> QED BY <1>1, QInvHolds, PTL

(***************************************************************************)
(* The queues the counters follow never overflow, whatever the tickets,    *)
(* and hold running instructions only: an identifier is free when no unit  *)
(* holds work under it.                                                    *)
(***************************************************************************)
THEOREM QueuesAlwaysSound == Spec => []QueuesSound
<1>1. QInv => QueuesSound
  BY HeldIsRunning DEF QInv, QueuesSound, QueuedIsRunning
<1> QED BY <1>1, QInvHolds, PTL
-----------------------------------------------------------------------------
(***************************************************************************)
(* The queues of the other lanes are not counted.  They have room because  *)
(* the sequencer waits for the lanes to agree: what a lane holds when an   *)
(* instruction is issued, lane 0 holds too.  That needs every instruction  *)
(* in a lane to be marked as running on the lanes, which those of the mask *)
(* unit are not.                                                           *)
(***************************************************************************)
NoMaskInsns == \A r \in Requests : vfu(r.op) # "MaskUnit"

\* Lane 0 runs what its queues hold.
LaneZeroHolds ==
    \A i \in pe_vinsn_running[0] : <<0, vfu(insn[i].op)>> \in Units
                                   /\ i \in busy[<<0, vfu(insn[i].op)>>]

RunningRequested == \A i \in vinsn_running : insn[i] \in Requests

LInv == LaneZeroHolds /\ RunningRequested /\ NoQueueOverflow

\* When the lanes agree, none holds an instruction that lane 0 does not hold.
LEMMA LanesAgree ==
    ASSUME NoMaskInsns, QInv, LInv, ~stall_lanes_desynch,
           NEW l \in Lanes, NEW v \in {"Alu", "MFpu"}
    PROVE  busy[<<l, v>>] \subseteq busy[<<0, v>>]
<1> SUFFICES ASSUME NEW i \in busy[<<l, v>>] PROVE i \in busy[<<0, v>>]
  OBVIOUS
<1>1. <<l, v>> \in LaneUnits /\ <<l, v>> \in Units /\ <<l, v>> # SlideU
  BY UnitFacts DEF LaneUnits
<1>2. /\ i \in Ids /\ i \in vinsn_running /\ insn[i] \in Requests
      /\ HeldBy(<<l, v>>, i) /\ v \in target_vfus(insn[i])
  BY <1>1, HeldIsRunning DEF QInv, TypeOK, Held, Placed, LInv, RunningRequested
<1>3. i \in pe_vinsn_running[l]
  BY <1>1, <1>2 DEF HeldBy, NoMaskInsns
<1>4. i \in pe_vinsn_running[0]
  BY <1>2, <1>3 DEF stall_lanes_desynch
<1>5. v = vfu(insn[i].op)
  BY <1>2 DEF NoMaskInsns, target_vfus, LaneVfu, is_reduction, vfu
<1> QED BY <1>4, <1>5 DEF LInv, LaneZeroHolds

\* The queues of lane 0 and of the shared units are the counted ones.
LEMMA Counted ==
    ASSUME NEW u \in Units
    PROVE  /\ u[2] \in VFUs /\ InsnQueueDepth[u[2]] \in 1..6
           /\ u[1] \notin Lanes \ {0} => u \in CountedUnits(u[2])
           /\ u[1] \in Lanes \ {0} =>
                /\ u \in LaneUnits /\ u[2] \in {"Alu", "MFpu"}
                /\ u = <<u[1], u[2]>>
                /\ <<0, u[2]>> \in CountedUnits(u[2])
<1>1. u[2] \in VFUs /\ InsnQueueDepth[u[2]] \in 1..6
  <2>1. u[2] \in VFUs
    BY DEF Units, LaneUnits, SharedUnits, VFUs
  <2>2. \A v \in VFUs : InsnQueueDepth[v] \in 1..(8 - 2)
    BY DepthAssumption DEF CounterRange
  <2> QED BY <2>1, <2>2
<1>2. ASSUME u[1] \in Lanes \ {0} PROVE u \in LaneUnits
  BY <1>2, LanesAssumption DEF Units, SharedUnits, Lanes, OffsetLoad,
           OffsetStore, OffsetMask, OffsetSlide
<1>3. ASSUME u \in LaneUnits
      PROVE  /\ u[2] \in {"Alu", "MFpu"} /\ u = <<u[1], u[2]>>
             /\ <<0, u[2]>> \in CountedUnits(u[2])
  BY <1>3, UnitFacts DEF LaneUnits, Units, CountedUnits
<1> QED BY <1>1, <1>2, <1>3 DEF CountedUnits

\* A smaller queue fits as well.
LEMMA SmallerFits ==
    ASSUME TypeOK, NEW u \in Units, NEW S \in SUBSET busy[u]
    PROVE  /\ IsFiniteSet(S) /\ Cardinality(S) \in Nat
           /\ Cardinality(S) <= Cardinality(busy[u])
BY BusyFinite, FS_Subset, FS_CardinalityType

LEMMA StallKeepsRoom ==
    ASSUME QInv, TypeOK', LInv, NEW done \in DoneSets, NEW table,
           NoIssue(done, table)
    PROVE  LInv'
<1>1. /\ \A u \in Units : busy'[u] = Left(done, u)
      /\ \A pe \in PEs : pe_vinsn_running'[pe] = StillRuns(done, pe)
      /\ \A i \in Ids : insn'[i] = IF i \in vinsn_running' THEN insn[i] ELSE NoInsn
  BY DEF NoIssue, Left, StillRuns
<1>2. /\ vinsn_running' \subseteq vinsn_running /\ vinsn_running \subseteq Ids
      /\ pe_vinsn_running'[0] \subseteq vinsn_running'
  BY <1>1, UnitFacts, RunningType DEF StillRuns, vinsn_running, QInv
<1>3. LaneZeroHolds'
  <2> SUFFICES ASSUME NEW i \in pe_vinsn_running'[0]
               PROVE  /\ <<0, vfu(insn'[i].op)>> \in Units
                      /\ i \in busy'[<<0, vfu(insn'[i].op)>>]
    BY DEF LaneZeroHolds
  <2>1. i \in StillRuns(done, 0) /\ insn'[i] = insn[i]
    BY <1>1, <1>2, UnitFacts
  <2>2. PICK u \in Units : u = <<0, vfu(insn[i].op)>> /\ i \in busy[u]
    BY <2>1 DEF StillRuns, LInv, LaneZeroHolds
  <2>3. i \notin Finished(done, u)
    <3>1. u[1] = 0
      BY <2>2
    <3> QED BY <2>1, <3>1 DEF StillRuns, FinishedAt, Finished
  <2> QED BY <1>1, <2>1, <2>2, <2>3 DEF Left
<1>4. RunningRequested'
  BY <1>1, <1>2 DEF RunningRequested, LInv
<1>5. NoQueueOverflow'
  <2> SUFFICES ASSUME NEW u \in Units
               PROVE  Cardinality(busy'[u]) <= InsnQueueDepth[u[2]]
    BY DEF NoQueueOverflow
  <2>1. /\ Cardinality(busy'[u]) <= Cardinality(busy[u])
        /\ Cardinality(busy'[u]) \in Nat
    BY <1>1, SmallerFits DEF QInv, Left
  <2>2. Cardinality(busy[u]) <= InsnQueueDepth[u[2]] /\ Cardinality(busy[u]) \in Nat
    BY BusyFinite DEF LInv, NoQueueOverflow, QInv
  <2>3. InsnQueueDepth[u[2]] \in 1..6
    BY Counted
  <2> QED BY <2>1, <2>2, <2>3
<1> QED BY <1>3, <1>4, <1>5 DEF LInv

LEMMA IssueKeepsRoom ==
    ASSUME NoMaskInsns, Requested, QInv, QInv', LInv, NEW done \in DoneSets,
           NEW rdy \in BOOLEAN, NEW ack \in BOOLEAN, IssueInsn(done, rdy, ack)
    PROVE  LInv'
<1> DEFINE r == ara_req
<1>1. PICK id \in Ids : IsNextId(id) /\ Enter(id, done)
  BY DEF IssueInsn
<1>2. /\ ara_req_valid /\ state = "IDLE" /\ ~stall_lanes_desynch
      /\ vinsn_queue_issue /\ r \in Requests /\ r \in Insns
  BY DEF IssueInsn, CanIssue, Requested, QInv, TypeOK
<1>3. /\ \A u \in Units : busy'[u] = Left(done, u)
                             \cup (IF u \in UnitsOf(r) THEN {id} ELSE {})
      /\ \A pe \in PEs : pe_vinsn_running'[pe] = StillRuns(done, pe)
                             \cup (IF pe \in RunsOn(r) THEN {id} ELSE {})
      /\ \A i \in Ids : insn'[i] = IF i \notin vinsn_running' THEN NoInsn
                                  ELSE IF i = id THEN r ELSE insn[i]
  BY <1>1 DEF Enter, Left, StillRuns
<1>4. /\ vinsn_running' \subseteq vinsn_running \cup {id} /\ vinsn_running' \subseteq Ids
      /\ pe_vinsn_running'[0] \subseteq vinsn_running'
      /\ id \notin vinsn_running /\ id \notin pe_vinsn_running[0]
  BY <1>1, <1>3, UnitFacts, RunningType
     DEF StillRuns, vinsn_running, QInv, IsNextId
<1>5. LaneZeroHolds'
  <2> SUFFICES ASSUME NEW i \in pe_vinsn_running'[0]
               PROVE  /\ <<0, vfu(insn'[i].op)>> \in Units
                      /\ i \in busy'[<<0, vfu(insn'[i].op)>>]
    BY DEF LaneZeroHolds
  <2>1. CASE i # id
    <3>1. i \in StillRuns(done, 0) /\ insn'[i] = insn[i]
      BY <1>3, <1>4, <2>1, UnitFacts
    <3>2. PICK u \in Units : u = <<0, vfu(insn[i].op)>> /\ i \in busy[u]
      BY <3>1 DEF StillRuns, LInv, LaneZeroHolds
    <3>3. i \notin Finished(done, u)
      <4>1. u[1] = 0
        BY <3>2
      <4> QED BY <3>1, <4>1 DEF StillRuns, FinishedAt, Finished
    <3> QED BY <1>3, <3>1, <3>2, <3>3 DEF Left
  <2>2. CASE i = id
    <3>1. 0 \in RunsOn(r) /\ insn'[i] = r
      BY <1>3, <1>4, <2>2, UnitFacts DEF StillRuns
    <3>2. vfu(r.op) \in {"Alu", "MFpu"}
      BY <3>1, LanesAssumption
         DEF RunsOn, OffsetLoad, OffsetStore, OffsetMask, OffsetSlide
    <3>3. <<0, vfu(r.op)>> \in Units
      BY <3>2, UnitFacts DEF LaneUnits
    <3>4. vfu(r.op) \in target_vfus(r)
      BY <3>2 DEF target_vfus, LaneVfu, vfu, is_reduction
    <3>5. <<0, vfu(r.op)>> \in UnitsOf(r)
      BY <3>3, <3>4 DEF UnitsOf
    <3> QED BY <1>3, <2>2, <3>1, <3>3, <3>5
  <2> QED BY <2>1, <2>2
<1>6. RunningRequested'
  <2> SUFFICES ASSUME NEW i \in vinsn_running' PROVE insn'[i] \in Requests
    BY DEF RunningRequested
  <2> QED BY <1>2, <1>3, <1>4 DEF LInv, RunningRequested
<1>7. ASSUME NEW u \in Units PROVE Cardinality(busy'[u]) <= InsnQueueDepth[u[2]]
  <2>1. CASE u[1] \notin Lanes \ {0}
    BY <2>1, Counted DEF QInv, NoCountedQueueOverflow
  <2>2. CASE u[1] \in Lanes \ {0}
    <3> DEFINE v == u[2]
               w == <<0, v>>
               mine == Cardinality(Left(done, u))
               zero == Cardinality(busy[w])
               depth == InsnQueueDepth[v]
    <3>1. /\ v \in VFUs /\ v # "None" /\ w \in CountedUnits(v) /\ w \in Units
          /\ depth \in 1..6
      BY <2>2, Counted, CountedOnce
    <3>2. Left(done, u) \subseteq busy[w]
      <4>1. busy[u] \subseteq busy[w]
        <5>1. u \in LaneUnits /\ u = <<u[1], v>>
          BY <2>2, Counted
        <5>2. u[1] \in Lanes /\ v \in {"Alu", "MFpu"}
          BY <2>2, Counted
        <5>3. busy[<<u[1], v>>] \subseteq busy[<<0, v>>]
          BY <1>2, <5>2, LanesAgree
        <5> QED BY <5>1, <5>3
      <4> QED BY <4>1 DEF Left
    <3>3. IsFiniteSet(Left(done, u)) /\ mine \in Nat /\ zero \in Nat /\ mine <= zero
      BY <3>1, <3>2, SmallerFits, BusyFinite DEF QInv
    <3>4. zero <= depth
      BY <3>1 DEF QInv, NoCountedQueueOverflow
    <3>5. CASE u \notin UnitsOf(r)
      <4>1. busy'[u] = Left(done, u)
        BY <1>3, <3>5
      <4> HIDE DEF mine, zero, depth
      <4>2. mine <= depth
        <5>1. \A k \in 1..6 : k \in Nat
          OBVIOUS
        <5> QED BY <3>1, <3>3, <3>4, <5>1
      <4> QED BY <4>1, <4>2 DEF mine, depth
    <3>6. CASE u \in UnitsOf(r)
      <4>1. v \in target_vfus(r)
        BY <3>6 DEF UnitsOf
      <4>2. zero + 1 <= depth
        BY <1>2, <3>1, <4>1, RoomAtIssue
      <4>3. id \notin Left(done, u) /\ busy'[u] = Left(done, u) \cup {id}
        BY <1>1, <1>3, <3>6, HeldIsRunning DEF Left, QInv, IsNextId
      <4>4. Cardinality(busy'[u]) = mine + 1
        BY <3>3, <4>3, FS_AddElement
      <4> HIDE DEF mine, zero, depth
      <4>5. mine + 1 <= depth
        <5>1. \A k \in 1..6 : k \in Nat
          OBVIOUS
        <5> QED BY <3>1, <3>3, <4>2, <5>1
      <4> QED BY <4>4, <4>5 DEF depth
    <3> QED BY <3>5, <3>6
  <2> QED BY <2>1, <2>2
<1> QED BY <1>5, <1>6, <1>7 DEF LInv, NoQueueOverflow

(***************************************************************************)
(* No unit is ever sent an instruction its queue has no room for, in no    *)
(* lane, however the lanes drift apart and whatever order they report in,  *)
(* if no instruction is the mask unit's own (ara_sequencer.sv,             *)
(* stall_lanes_desynch and vinsn_queue_issue).                             *)
(***************************************************************************)
THEOREM NoQueueEverOverflows ==
    ASSUME NoMaskInsns PROVE Spec => []NoQueueOverflow
<1>1. Init => LInv
  <2> SUFFICES ASSUME Init PROVE LInv
    OBVIOUS
  <2>1. LaneZeroHolds /\ RunningRequested
    BY UnitFacts DEF Init, LaneZeroHolds, RunningRequested, vinsn_running
  <2>2. ASSUME NEW u \in Units PROVE Cardinality(busy[u]) <= InsnQueueDepth[u[2]]
    <3>1. Cardinality(busy[u]) = 0
      BY FS_EmptySet DEF Init
    <3>2. InsnQueueDepth[u[2]] \in 1..6
      BY Counted
    <3> QED BY <3>1, <3>2
  <2> QED BY <2>1, <2>2 DEF LInv, NoQueueOverflow
<1>2. ASSUME QInv, QInv', Requested, LInv, [Next]_vars PROVE LInv'
  <2>1. CASE UNCHANGED vars
    BY <1>2, <2>1 DEF vars, seqVars, unitVars, histVars, LInv, LaneZeroHolds,
       RunningRequested, NoQueueOverflow, vinsn_running
  <2>2. CASE Next
    <3>1. PICK done \in DoneSets, rdy \in BOOLEAN, ack \in BOOLEAN, sv \in BOOLEAN :
            Cycle(done, rdy, ack, sv)
      BY <2>2 DEF Next
    <3>2. CASE IssueInsn(done, rdy, ack)
      BY <1>2, <3>2, IssueKeepsRoom
    <3>3. CASE ~IssueInsn(done, rdy, ack)
      <4>1. \E table : NoIssue(done, table)
        BY <3>1, <3>3 DEF Cycle, HoldRequest, NoRequest, QueueStall, HazardStall,
                          KeepWaiting, Answer
      <4> QED BY <1>2, <4>1, StallKeepsRoom DEF QInv
    <3> QED BY <3>2, <3>3
  <2> QED BY <1>2, <2>1, <2>2
<1>3. LInv => NoQueueOverflow
  BY DEF LInv
<1> QED BY <1>1, <1>2, <1>3, QInvHolds, RInvHolds, PTL DEF Spec
=============================================================================
