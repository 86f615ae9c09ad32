----------------------------- MODULE VectorMFPU -----------------------------
(***************************************************************************)
(* The multiplier, divider and floating-point unit of a lane, in the same  *)
(* form as the ALU: q is what a clock cycle begins with, u what the parts  *)
(* of the cycle before have made of it.                                    *)
(*                                                                         *)
(* An instruction is issued, processed and committed, with a pointer and   *)
(* two counters each.  The three units work on their own; a result is      *)
(* taken from the unit of the instruction that is being processed and      *)
(* written where that instruction writes next.  That a result meets its    *)
(* own instruction there rests on the order in which the units deliver.    *)
(*                                                                         *)
(* insn.ew is the number of elements in a word, insn.off is empty  *)
(* if no mask holds elements back.  A word on its way holds its elements   *)
(* and those of them that its mask holds back.  Comparisons go on from     *)
(* here to the mask unit.                                                  *)
(***************************************************************************)
EXTENDS Integers, Sequences
LOCAL INSTANCE SequencesExt

CONSTANTS None, VInsnQueueDepth

ResultQueueDepth == 2

Multiplications == {"VMUL"}
Divisions == {"VDIV"}
Compares == {"VMFEQ"}
NonComputational == Compares \cup {"VFMIN", "VFREC7"}
Conversions == {"VFCVT", "VFNCVT"}
FloatingPoint == {"VFADD"} \cup NonComputational \cup Conversions

\* The unit that executes an instruction.
Unit(insn) ==
    CASE insn = None -> None
      [] insn.op \in Multiplications -> "mul"
      [] insn.op \in Divisions -> "div"
      [] insn.op \in FloatingPoint -> "fpu"
      [] OTHER -> None

narrowing(insn) == insn.op = "VFNCVT"

\* The elements of word w.
Present(insn, w) == {e \in 1..insn.ew : (w - 1) * insn.ew + e <= insn.vl}

Latency(ew) == CASE ew = 1 -> 5 [] ew = 2 -> 4 [] OTHER -> 3

\* The latency that the control reckons with.
fpu_latency(insn) ==
    CASE insn.op \in Conversions -> 2
      [] insn.op \in NonComputational \ Compares -> 1
      [] OTHER -> Latency(insn.ew)

-----------------------------------------------------------------------------
(***************************************************************************)
(* Pipelines: a stage moves on when the next one does or holds nothing.    *)
(***************************************************************************)
Pipe(n) == [j \in 1..n |-> None]
Output(p) == p[Len(p)]
Ready(p, taken) == taken \/ \E j \in DOMAIN p : p[j] = None
Advance(p, in, taken) ==
    [j \in DOMAIN p |-> IF taken \/ \E k \in j..Len(p) : p[k] = None
                        THEN (IF j = 1 THEN in ELSE p[j - 1])
                        ELSE p[j]]

\* The parts of the FPU: additions and the like in a pipeline for each width,
\* so are comparisons, minimum, classification; conversions share one.
Slices == {<<"addmul", ew>> : ew \in {1, 2, 4}} \cup
          {<<"noncomp", ew>> : ew \in {1, 2, 4}} \cup {<<"conv", 0>>}

Slice(insn) ==
    CASE insn.op \in NonComputational -> <<"noncomp", insn.ew>>
      [] insn.op \in Conversions -> <<"conv", 0>>
      [] OTHER -> <<"addmul", insn.ew>>

Depth(slice) ==
    CASE slice[1] = "addmul" -> Latency(slice[2])
      [] slice[1] = "noncomp" -> 1
      [] slice[1] = "conv" -> 2

Free == [at |-> None, data |-> {}, be |-> {}, off |-> {}, mask |-> FALSE, valid |-> FALSE]

IdleDivider ==
    [issue |-> "ISSUE_IDLE", commit |-> "COMMIT_IDLE",
     word |-> None, be |-> {}, off |-> {}, ew |-> 1,      \* input registers
     issue_cnt |-> 0, commit_cnt |-> 0, result |-> {}, serdiv |-> None]

IdleMFPU ==
    [vinsn |-> [n \in 0..(VInsnQueueDepth - 1) |-> None],
     accept_pnt |-> 0, issue_pnt |-> 0, processing_pnt |-> 0, commit_pnt |-> 0,
     issue_cnt |-> 0, processing_cnt |-> 0, commit_cnt |-> 0,
     to_issue |-> 0, to_process |-> 0, to_commit |-> 0,   \* elements
     narrow_in |-> 0, narrow_out |-> 0,                   \* the half of the word
     gate |-> None,                                       \* vmul_simd_*_q
     mul |-> [ew \in {1, 2, 4} |-> Pipe(1)],
     div |-> IdleDivider,
     fpu |-> [s \in Slices |-> Pipe(Depth(s))],
     turn |-> <<>>,             \* the slices that offer a result, in order
     operand_a |-> {},          \* operand_a_d: for VFREC7
     result_queue |-> [n \in 0..(ResultQueueDepth - 1) |-> Free],
     read_pnt |-> 0, write_pnt |-> 0, result_cnt |-> 0]

Following(pnt) == (pnt + 1) % VInsnQueueDepth
Issued(u) == u.vinsn[u.issue_pnt]
Processed(u) == u.vinsn[u.processing_pnt]
Committed(u) == u.vinsn[u.commit_pnt]
Full(q) == q.result_cnt = ResultQueueDepth

-----------------------------------------------------------------------------
(***************************************************************************)
(* Issue.                                                                  *)
(***************************************************************************)

\* The word of the operand queues that is next, or its half, under the mask that is there.
IssuedWord(q, mask) ==
    LET insn == Issued(q)
        w == (insn.vl - q.to_issue) \div insn.ew + 1
        half == {e \in 1..insn.ew : narrowing(insn) => (2 * e > insn.ew) = (q.narrow_in = 1)}
    IN  [at |-> <<insn.i, w>>, off |-> IF insn.off = {} THEN {} ELSE mask,
         data |-> {<<e, insn.i, w>> : e \in half}]

\* How many elements a step takes care of.
Step(insn, left) ==
    LET n == IF narrowing(insn) THEN insn.ew \div 2 ELSE insn.ew IN IF n > left THEN left ELSE n

\* The FPU executes in order only if a faster instruction waits for a slower one.
latency_stall(q) ==
    /\ q.issue_cnt # 0 /\ q.processing_cnt # 0
    /\ fpu_latency(Issued(q)) < fpu_latency(Processed(q))

\* The mask, if the instruction has one, is there.
MaskThere(q, mask) == q.issue_cnt # 0 /\ (Issued(q).off # {} => mask # None)

\* Mutant: the latency is not looked at.
Offers_NoStall(q, operand, mask) == operand /\ MaskThere(q, mask) /\ q.to_issue # 0

Offers(q, operand, mask) ==
    operand /\ MaskThere(q, mask) /\ q.to_issue # 0 /\ ~latency_stall(q)

\* The result queue takes what this unit offers.
Taken(q, unit) == ~Full(q) /\ Unit(Processed(q)) = unit

MulTaken(q, ew) == Taken(q, "mul") /\ ew = Processed(q).ew
MulReady(q, ew) == Ready(q.mul[ew], MulTaken(q, ew))
SliceTaken(q, s) == Taken(q, "fpu") /\ q.turn # <<>> /\ Head(q.turn) = s

\* The multiplier has a clock while one of its instructions is being processed.
clkgate_en(q) == q.processing_cnt # 0 /\ Unit(Processed(q)) = "mul"

UnitReady(q) ==
    LET insn == Issued(q) IN
    CASE Unit(insn) = "mul" -> clkgate_en(q) /\ MulReady(q, insn.ew)
      [] Unit(insn) = "div" -> q.div.issue = "ISSUE_IDLE"
      [] Unit(insn) = "fpu" -> Ready(q.fpu[Slice(insn)], SliceTaken(q, Slice(insn)))

FinishIssue(u) ==
    [u EXCEPT !.issue_cnt = @ - 1, !.issue_pnt = Following(@), !.narrow_in = 0,
              !.to_issue = IF u.issue_cnt > 1 THEN u.vinsn[Following(u.issue_pnt)].vl ELSE @]

\* The mask is acknowledged, with the last of its word.
TakesMask(q, operand, mask) ==
    /\ Offers(q, operand, mask) /\ UnitReady(q) /\ Issued(q).off # {}
    /\ narrowing(Issued(q)) => q.narrow_in = 1 \/ Step(Issued(q), q.to_issue) = q.to_issue

\* The operands are acknowledged.
Issue(u, q, operand, mask) ==
    LET n == Step(Issued(q), q.to_issue)
        d == [u EXCEPT !.to_issue = @ - n,
                       !.narrow_in = IF narrowing(Issued(q)) THEN 1 - @ ELSE @]
    IN  IF ~(Offers(q, operand, mask) /\ UnitReady(q)) THEN u
        ELSE IF n = q.to_issue THEN FinishIssue(d)
        ELSE d

-----------------------------------------------------------------------------
(***************************************************************************)
(* The units.  "offered": the unit is offered the word that is issued, or  *)
(* None.                                                                   *)
(***************************************************************************)
OfferedTo(q, operand, mask, unit) ==
    IF Offers(q, operand, mask) /\ Unit(Issued(q)) = unit THEN IssuedWord(q, mask) ELSE None

\* A word goes through a register that all widths share into the pipeline of its own.
Multiply(u, q, offered) ==
    IF ~clkgate_en(q) THEN u
    ELSE [u EXCEPT
        !.gate = IF ~MulReady(q, Processed(q).ew) THEN @
                 ELSE IF offered # None THEN [ew |-> Issued(q).ew, word |-> offered]
                 ELSE None,
        !.mul = [ew \in DOMAIN @ |->
                    Advance(@[ew], IF q.gate # None /\ q.gate.ew = ew THEN q.gate.word ELSE None,
                            MulTaken(q, ew))]]

\* The elements go one by one through a divider, those that are masked off do not.
AfterDivision(d, n, yes, no) == IF n + 1 \in d.be THEN yes ELSE no

DivideIssue(d, offered, insn) ==
    CASE d.issue = "ISSUE_IDLE" ->
             IF offered # None
             THEN [d EXCEPT !.issue = "LOAD", !.word = offered.at, !.off = offered.off,
                            !.ew = insn.ew, !.be = Present(insn, offered.at[2]) \ offered.off]
             ELSE d
      [] d.issue = "LOAD" ->
             [d EXCEPT !.issue_cnt = d.ew - 1, !.commit_cnt = d.ew - 1,
                       !.issue = AfterDivision(d, d.ew - 1, "ISSUE_VALID", "ISSUE_SKIP")]
      [] d.issue = "ISSUE_VALID" /\ d.serdiv # None -> d
      [] d.issue = "WAIT_DONE" ->
             IF d.commit = "COMMIT_DONE" THEN [d EXCEPT !.issue = "ISSUE_IDLE"] ELSE d
      [] OTHER ->
             [d EXCEPT !.serdiv = IF d.issue = "ISSUE_SKIP" THEN @
                                  ELSE [of |-> <<d.issue_cnt + 1, d.word[1], d.word[2]>>,
                                        done |-> FALSE],
                       !.issue_cnt = (@ - 1) % 8,
                       !.issue = IF d.issue_cnt = 0 THEN "WAIT_DONE"
                                 ELSE AfterDivision(d, d.issue_cnt - 1, "ISSUE_VALID", "ISSUE_SKIP")]

\* An element is complete: the result moves on by one.  One that was skipped is zero.
Collect(u, d, data) ==
    [u EXCEPT !.commit_cnt = (@ - 1) % 8,
              !.result = @ \cup data,
              !.commit = IF d.commit_cnt = 0 THEN "COMMIT_DONE"
                         ELSE AfterDivision(d, u.commit_cnt - 1, "COMMIT_READY", "COMMIT_SKIP")]

DivideCommit(u, d, taken) ==
    CASE d.commit = "COMMIT_IDLE" ->
             IF d.issue = "ISSUE_IDLE" THEN u
             ELSE [u EXCEPT !.result = {},
                            !.commit = AfterDivision(d, d.ew - 1, "COMMIT_READY", "COMMIT_SKIP")]
      [] d.commit = "COMMIT_READY" ->
             IF d.serdiv = None \/ ~d.serdiv.done THEN u
             ELSE Collect([u EXCEPT !.serdiv = None], d,
                          {<<d.commit_cnt + 1, d.serdiv.of[2], d.serdiv.of[3]>>})
      [] d.commit = "COMMIT_SKIP" -> Collect(u, d, {<<d.commit_cnt + 1, None, None>>})
      [] d.commit = "COMMIT_DONE" -> IF taken THEN [u EXCEPT !.commit = "COMMIT_IDLE"] ELSE u

\* The serial divider takes any time.
Divide(u, q, offered, taken, divides) ==
    LET d == DivideCommit(DivideIssue(q.div, offered, Issued(q)), q.div, taken)
    IN  [u EXCEPT !.div = IF divides /\ q.div.serdiv # None THEN [d EXCEPT !.serdiv.done = TRUE]
                          ELSE d]

\* The slices offer their results one at a time, first come first served.
Compute(u, q, offered) ==
    LET fpu == [s \in Slices |->
                   Advance(q.fpu[s], IF offered # None /\ Slice(Issued(q)) = s THEN offered ELSE None,
                           SliceTaken(q, s))]
        left == IF q.turn # <<>> /\ SliceTaken(q, Head(q.turn)) THEN Tail(q.turn) ELSE q.turn
    IN  [u EXCEPT !.fpu = fpu,
                  !.turn = left \o SetToSeq({s \in Slices : Output(fpu[s]) # None}
                                            \ {left[n] : n \in DOMAIN left})]

\* operand_a_d, which reciprocals are refined with, follows the operand in every cycle.
Delay(u, q, operand, mask) ==
    [u EXCEPT !.operand_a = IF operand /\ q.issue_cnt # 0 /\ Issued(q).op = "VFREC7"
                            THEN IssuedWord(q, mask).data ELSE {}]

-----------------------------------------------------------------------------
(***************************************************************************)
(* Process: the result of the unit in use goes to the result queue.        *)
(***************************************************************************)
Result(q) ==
    CASE Unit(Processed(q)) = "mul" -> Output(q.mul[Processed(q).ew])
      [] Unit(Processed(q)) = "div" ->
             IF q.div.commit = "COMMIT_DONE" THEN [data |-> q.div.result, off |-> q.div.off]
             ELSE None
      [] Unit(Processed(q)) = "fpu" ->
             IF q.turn = <<>> THEN None
             ELSE IF Processed(q).op = "VFREC7"
             THEN [Output(q.fpu[Head(q.turn)]) EXCEPT !.data = q.operand_a]
             ELSE Output(q.fpu[Head(q.turn)])
      [] OTHER -> None

\* What is stored where the instruction writes next.
Store(entry, q, word) ==
    LET insn == Processed(q)
        second == q.narrow_out = 1
    IN  [at |-> <<insn.i, (insn.vl - q.to_process) \div insn.ew + 1>>,
         data |-> IF narrowing(insn) THEN entry.data \cup word.data ELSE word.data,
         be |-> IF second THEN entry.be
                ELSE {e \in 1..insn.ew : e <= q.to_process}
                     \ (IF insn.off = {} THEN {} ELSE word.off),
         off |-> word.off, mask |-> insn.op \in Compares,
         valid |-> narrowing(insn) => second \/ Step(insn, q.to_process) = q.to_process]

FinishProcessing(u) ==
    [u EXCEPT !.processing_cnt = @ - 1, !.processing_pnt = Following(@), !.narrow_out = 0,
              !.to_process = IF u.processing_cnt > 1 THEN u.vinsn[Following(u.processing_pnt)].vl
                             ELSE @]

Process(u, q) ==
    LET insn == Processed(q)
        n == Step(insn, q.to_process)
        entry == Store(q.result_queue[q.write_pnt], q, Result(q))
        d == [u EXCEPT !.result_queue[q.write_pnt] = entry,
                       !.result_cnt = IF entry.valid THEN @ + 1 ELSE @,
                       !.write_pnt = IF entry.valid THEN (@ + 1) % ResultQueueDepth ELSE @,
                       !.narrow_out = IF narrowing(insn) THEN 1 - @ ELSE @,
                       !.to_process = @ - n]
    IN  IF Result(q) = None \/ Full(q) THEN u
        ELSE IF n = q.to_process THEN FinishProcessing(d)
        ELSE d

\* Nothing to do and nothing on the way.
Idle(q) ==
    /\ q.commit_cnt = 0 /\ q.gate = None /\ q.turn = <<>>
    /\ q.div.issue = "ISSUE_IDLE" /\ q.div.commit = "COMMIT_IDLE"
    /\ \A s \in DOMAIN q.fpu : \A j \in DOMAIN q.fpu[s] : q.fpu[s][j] = None
    /\ \A ew \in DOMAIN q.mul : Output(q.mul[ew]) = None

Execute(q, operand, mask, divides) ==
    LET offered == [unit \in {"mul", "div", "fpu"} |-> OfferedTo(q, operand, mask, unit)]
        issued == Delay(Issue(q, q, operand, mask), q, operand, mask)
        multiplied == Multiply(issued, q, offered["mul"])
        divided == Divide(multiplied, q, offered["div"], Taken(q, "div"), divides)
    IN  Process(Compute(divided, q, offered["fpu"]), q)

-----------------------------------------------------------------------------
(***************************************************************************)
(* Write results into the register file, commit, accept.                   *)
(***************************************************************************)
mfpu_result_req(q) == q.result_queue[q.read_pnt].valid /\ ~q.result_queue[q.read_pnt].mask

\* A result for the mask unit.
mask_operand_valid(q) == q.result_queue[q.read_pnt].valid /\ q.result_queue[q.read_pnt].mask

\* The register file takes the result, or the register before the mask unit.
WriteResult(u, q) ==
    [u EXCEPT !.result_queue[q.read_pnt] = Free,
              !.read_pnt = (@ + 1) % ResultQueueDepth, !.result_cnt = @ - 1,
              !.to_commit = IF q.to_commit < Committed(q).ew THEN 0
                            ELSE q.to_commit - Committed(q).ew]

Commits(u, q) == q.commit_cnt # 0 /\ u.to_commit = 0

Commit(u, q) ==
    IF ~Commits(u, q) THEN u
    ELSE [u EXCEPT !.commit_cnt = @ - 1, !.commit_pnt = Following(@),
                   !.to_commit = IF u.commit_cnt > 1 THEN u.vinsn[Following(u.commit_pnt)].vl
                                 ELSE @]

Accept(u, q, insn) ==
    IF insn = None \/ Unit(insn) = None \/ q.commit_cnt = VInsnQueueDepth THEN u
    ELSE [u EXCEPT !.vinsn[u.accept_pnt] = insn, !.accept_pnt = Following(@),
                   !.issue_cnt = @ + 1, !.processing_cnt = @ + 1, !.commit_cnt = @ + 1,
                   !.to_issue = IF u.issue_cnt = 0 THEN insn.vl ELSE @,
                   !.to_process = IF u.processing_cnt = 0 THEN insn.vl ELSE @,
                   !.to_commit = IF u.commit_cnt = 0 THEN insn.vl ELSE @]
=============================================================================
