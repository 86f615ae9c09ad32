----------------------------- MODULE VectorALU ------------------------------
(***************************************************************************)
(* The ALU of a lane: what a clock cycle makes of its registers.  As in    *)
(* the code, the parts of the cycle are applied one after another: q is    *)
(* what the cycle began with, u what the parts before have made of it.     *)
(*                                                                         *)
(* A reduction goes through the states of alu_state_e: the lane folds its  *)
(* own elements into an accumulator, sends it to the slide unit and        *)
(* receives another lane's, and so on; the last value goes to lane 0,      *)
(* which folds the elements of that word and writes the result.  The       *)
(* accumulator is the entry of the result queue that is written next.      *)
(*                                                                         *)
(* A word is a bag of what went into it, so that a partial result that is  *)
(* lost or counted twice shows.  insn.ew is the number of elements in a    *)
(* word, insn.off is empty if no mask holds elements back.  Comparisons    *)
(* and operations on masks go on from here to the mask unit.               *)
(***************************************************************************)
EXTENDS Integers, Sequences, Bags

CONSTANTS
    None,
    VInsnQueueDepth,   \* ValuInsnQueueDepth
    WordBits           \* the bits of a word

ASSUME ALUAssumption == VInsnQueueDepth \in Nat /\ VInsnQueueDepth >= 2 /\ WordBits \in Nat \ {0}

LOCAL MU == INSTANCE MaskUnit

ResultQueueDepth == 2

is_reduction(insn) == insn # None /\ insn.op = "VREDSUM"

\* How many partial results a lane receives: as often as 2 divides lane + 1.
reduction_rx_cnt_init(lane) ==
    CHOOSE n \in 0..lane : (lane + 1) % 2^n = 0 /\ (lane + 1) % 2^(n + 1) # 0

\* simd_red_cnt_max: log2 of the elements of a word.
SimdSteps(insn) == CHOOSE n \in 0..insn.ew : 2^n = insn.ew

\* The elements to issue and to commit; an operation on masks has chunks of bits.
Count(insn) == IF insn.op \in MU!MaskLogicals THEN MU!Ceil(insn.vl, MU!ElementBits(insn)) ELSE insn.vl

Transactions(lanes) == (CHOOSE n \in 0..lanes : 2^n = lanes) + 1

\* What element word w of instruction i contributes in a lane; word 0 is the
\* scalar operand of a reduction, which counts in lane 0 only.
Term(i, lane, w) == SetToBag({<<i, lane, w>>})
Scalar(i, lane) == IF lane = 0 THEN Term(i, 0, 0) ELSE EmptyBag

Free == [word |-> EmptyBag, at |-> None, be |-> {}, off |-> {}, mask |-> FALSE, valid |-> FALSE]

IdleALU ==
    [vinsn |-> [n \in 0..(VInsnQueueDepth - 1) |-> None],
     accept_pnt |-> 0, issue_pnt |-> 0, commit_pnt |-> 0, issue_cnt |-> 0, commit_cnt |-> 0,
     elements |-> 0,         \* issue_cnt_q: the elements to issue
     uncommitted |-> 0,      \* commit_cnt_q: the elements to commit
     state |-> "NO_REDUCTION", first_op |-> FALSE, rx |-> 0, transactions |-> 0, simd |-> 0,
     result_queue |-> [n \in 0..(ResultQueueDepth - 1) |-> Free],
     read_pnt |-> 0, write_pnt |-> 0, result_cnt |-> 0,
     spill |-> <<>>]         \* i_alu_reduction_spill_register

Following(pnt) == (pnt + 1) % VInsnQueueDepth
Issued(u) == u.vinsn[u.issue_pnt]
Committed(u) == u.vinsn[u.commit_pnt]
Accumulator(u) == u.result_queue[u.write_pnt].word

-----------------------------------------------------------------------------
(***************************************************************************)
(* Write data into the result queue.                                       *)
(***************************************************************************)

\* The entry that is written next becomes a result.
Push(u) ==
    [u EXCEPT !.result_queue[u.write_pnt].valid = TRUE,
              !.result_cnt = @ + 1, !.write_pnt = (@ + 1) % ResultQueueDepth]

FinishIssue(u) ==
    [u EXCEPT !.issue_cnt = @ - 1, !.issue_pnt = Following(@),
              !.elements = IF u.issue_cnt > 1 THEN Count(u.vinsn[Following(u.issue_pnt)]) ELSE @]

ElementCnt(q) == IF Issued(q).ew > q.elements THEN q.elements ELSE Issued(q).ew

\* The number of the word that is issued.
IssuedWord(q) == (Count(Issued(q)) - q.elements) \div Issued(q).ew + 1

\* operand: the word of the operand queues, by its instruction and number, or None;
\* mask: the elements of it that are held back, or None if the mask is not there.
Issues(q, operand, mask) ==
    /\ operand # None /\ q.state = "NO_REDUCTION" /\ q.issue_cnt # 0
    /\ q.result_cnt < ResultQueueDepth /\ ~is_reduction(Issued(q))
    /\ MU!masked(Issued(q)) => mask # None

\* An ordinary word (the code writes it over the entry with an "or").
Issue(q, lane, operand, mask) ==
    LET insn == Issued(q)
        off == IF MU!masked(insn) THEN mask ELSE {}
        word == q.result_queue[q.write_pnt].word (+) Term(operand[1], lane, operand[2])
        u == Push([q EXCEPT
                 !.result_queue[q.write_pnt] =
                     [@ EXCEPT !.word = word, !.at = <<insn.i, IssuedWord(q)>>, !.off = off,
                               !.be = (1..ElementCnt(q)) \ off, !.mask = MU!Executes(insn)],
                 !.elements = @ - ElementCnt(q)])
    IN  IF u.elements = 0 THEN FinishIssue(u) ELSE u

Reduces(q, operand) ==
    /\ operand # None /\ q.state = "INTRA_LANE_REDUCTION"
    /\ ~(q.first_op /\ q.result_cnt = ResultQueueDepth)

\* A word of a reduction.  A lane without elements only passes its neutral value on.
Reduce(q, lane, operand) ==
    LET insn == Issued(q)
        a == IF q.first_op THEN Scalar(insn.i, lane) ELSE Accumulator(q)
        b == IF ElementCnt(q) = 0 THEN EmptyBag ELSE Term(operand[1], lane, operand[2])
        left == q.elements - ElementCnt(q)
    IN  [q EXCEPT !.result_queue[q.write_pnt].word = a (+) b,
                  !.result_queue[q.write_pnt].at = <<insn.i, 0>>,
                  !.result_queue[q.write_pnt].be = {1},
                  !.first_op = FALSE, !.elements = left,
                  !.state = IF q.issue_cnt # 0 /\ left = 0 THEN "INTER_LANES_REDUCTION_TX" ELSE @]

\* A word of the slide unit: another lane's partial result, for a lane that still
\* takes part, or just a handshake; the last one is the result, for lane 0.
Receive(q, lane) ==
    LET word == Head(q.spill)
        u == [q EXCEPT !.spill = Tail(@), !.transactions = @ - 1,
                       !.result_queue[q.write_pnt].word = IF q.rx = 0 THEN @ ELSE @ (+) word,
                       !.rx = IF @ = 0 THEN 0 ELSE @ - 1]
    IN  IF q.transactions # 1 THEN [u EXCEPT !.state = "INTER_LANES_REDUCTION_TX"]
        ELSE IF lane = 0
        THEN [u EXCEPT !.result_queue[q.write_pnt].word = word, !.simd = 0,
                       !.state = "SIMD_REDUCTION"]
        ELSE [u EXCEPT !.state = "LN0_REDUCTION_COMMIT"]

Fold(q) ==
    IF q.simd # SimdSteps(Issued(q)) THEN [q EXCEPT !.simd = @ + 1]
    ELSE Push([FinishIssue(q) EXCEPT !.uncommitted = 0])

\* sent: the slide unit takes the word.
Execute(q, lane, operand, mask, sent) ==
    CASE Issues(q, operand, mask) -> Issue(q, lane, operand, mask)
      [] Reduces(q, operand) -> Reduce(q, lane, operand)
      [] q.state = "INTER_LANES_REDUCTION_TX" /\ sent ->
             [q EXCEPT !.state = "INTER_LANES_REDUCTION_RX"]
      [] q.state = "INTER_LANES_REDUCTION_RX" /\ q.spill # <<>> -> Receive(q, lane)
      [] q.state = "LN0_REDUCTION_COMMIT" -> [FinishIssue(q) EXCEPT !.uncommitted = 0]
      [] q.state = "SIMD_REDUCTION" -> Fold(q)
      [] OTHER -> q

-----------------------------------------------------------------------------
(***************************************************************************)
(* Write results into the register file, commit, accept.                   *)
(***************************************************************************)

alu_result_req(q) ==
    /\ q.result_queue[q.read_pnt].valid
    /\ \/ q.state = "NO_REDUCTION" /\ ~q.result_queue[q.read_pnt].mask
       \/ q.state = "SIMD_REDUCTION" /\ q.simd = SimdSteps(Committed(q))

\* A result for the mask unit.
mask_operand_valid(q) == q.result_queue[q.read_pnt].valid /\ q.result_queue[q.read_pnt].mask

\* The register file takes the result, or the register before the mask unit.
WriteResult(u, q) ==
    [u EXCEPT !.result_queue[q.read_pnt] = Free,
              !.read_pnt = (@ + 1) % ResultQueueDepth, !.result_cnt = @ - 1,
              !.uncommitted = IF q.uncommitted = 0 \/ q.uncommitted < Committed(q).ew THEN 0
                              ELSE IF ~is_reduction(Committed(q))
                              THEN q.uncommitted - Committed(q).ew ELSE @]

prevent_commit(q) ==
    q.state \in {"INTRA_LANE_REDUCTION", "INTER_LANES_REDUCTION_TX", "INTER_LANES_REDUCTION_RX"}

Commits(u, q) == q.commit_cnt # 0 /\ u.uncommitted = 0 /\ ~prevent_commit(q)

\* Ready for an instruction: which phase it begins with.
Begin(u, insn, lane, lanes) ==
    [u EXCEPT !.first_op = TRUE, !.rx = reduction_rx_cnt_init(lane),
              !.transactions = Transactions(lanes),
              !.state = IF is_reduction(insn) THEN "INTRA_LANE_REDUCTION" ELSE "NO_REDUCTION"]

Commit(u, q, lane, lanes) ==
    LET d == [u EXCEPT !.commit_cnt = @ - 1, !.commit_pnt = Following(@),
                       !.uncommitted = IF u.commit_cnt > 1
                                       THEN Count(u.vinsn[Following(u.commit_pnt)]) ELSE @]
    IN  IF ~Commits(u, q) THEN u
        ELSE IF is_reduction(Issued(d)) /\ d.issue_cnt # 0
        THEN Begin(d, Issued(d), lane, lanes)
        ELSE [d EXCEPT !.state = "NO_REDUCTION"]

\* A lane without elements waits for no mask.
Accept(u, q, insn, lane, lanes) ==
    LET d == [u EXCEPT !.vinsn[u.accept_pnt] = IF insn.vl = 0 THEN [insn EXCEPT !.off = {}] ELSE insn,
                       !.accept_pnt = Following(@),
                       !.issue_cnt = @ + 1, !.commit_cnt = @ + 1,
                       !.elements = IF u.issue_cnt = 0 /\ ~prevent_commit(q) THEN Count(insn) ELSE @,
                       !.uncommitted = IF u.commit_cnt = 0 THEN Count(insn) ELSE @]
    IN  IF insn = None \/ q.commit_cnt = VInsnQueueDepth THEN u
        ELSE IF u.issue_cnt = 0 /\ ~prevent_commit(q) THEN Begin(d, insn, lane, lanes)
        ELSE d

\* Clear the accumulator after a partial reduction.
Clear(u, q) ==
    IF q.state = "LN0_REDUCTION_COMMIT" /\ u.state = "NO_REDUCTION"
    THEN [u EXCEPT !.result_queue[q.read_pnt] = [Free EXCEPT !.valid = @]]
    ELSE u
=============================================================================
