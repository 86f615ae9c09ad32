----------------------------- MODULE SlideUnit ------------------------------
(***************************************************************************)
(* The slide unit, in the same form as the units of a lane: q is what a    *)
(* clock cycle begins with, u what the parts of the cycle before have made *)
(* of it.                                                                  *)
(*                                                                         *)
(* The lanes' words of one address are a row of the vector.  A slide by an *)
(* amount moves the elements of a row round by the amount and puts them    *)
(* out in two rows; in_pnt and out_pnt say how far both are.  Rows can be  *)
(* turned by a power of two only: other amounts are made of several turns, *)
(* with the row going round through result_queue[NP2_BUFFER_PNT].  The     *)
(* same unit passes the words of a reduction from lane to lane.            *)
(*                                                                         *)
(* Where the code counts bytes, elements of the instruction are counted    *)
(* here: insn.ew is the number of elements in a lane's word, a row has     *)
(* lanes * insn.ew.  Element p of a row is in lane p % lanes.              *)
(*                                                                         *)
(* Not here: ordered sums, masked slides, a slide up by one of a single    *)
(* element (the dispatcher drops it), words for the address generator.     *)
(***************************************************************************)
EXTENDS Integers, Sequences, FiniteSets
LOCAL INSTANCE TLC

CONSTANTS None, SlduDepth     \* SlduInsnQueueDepth

ResultQueueDepth == 2
NP2_BUFFER_PNT == 0
NP2_RESULT_PNT == 1

\* vfu inside {VFU_Alu, VFU_MFpu}, which an entry never written is too.
ForLanes(insn) == insn = None \/ insn.op = "VREDSUM"
IsSlide(insn) == insn.op \in {"VSLIDEUP", "VSLIDEDOWN"}

Row(insn, lanes) == IF insn = None THEN lanes ELSE lanes * insn.ew

\* As often as partial results go round in a reduction.
Transactions(lanes) == (CHOOSE n \in 0..lanes : 2^n = lanes) + 1

\* The ones of a number.
Ones(n) == {b \in 0..9 : (n \div 2^b) % 2 = 1}
is_stride_np2(insn) == IsSlide(insn) /\ Cardinality(Ones(insn.stride)) > 1

\* The rows of the source the lanes are asked for.
Ceil(a, b) == (a + b - 1) \div b
SourceRows(insn, lanes) ==
    LET first == IF insn.op = "VSLIDEUP" THEN 0 ELSE insn.stride \div Row(insn, lanes)
        vl == CASE insn.op = "VSLIDEUP" -> insn.vl - insn.stride
                [] insn.use_scalar_op -> insn.vl
                [] OTHER -> insn.vl + (insn.stride % Row(insn, lanes))
    IN  first..(first + Ceil(Ceil(vl, lanes), insn.ew) - 1)

\* A lane's word of a row of the source.
SourceWord(insn, lanes, lane, row) ==
    [e \in 0..(insn.ew - 1) |-> <<insn.i, row * Row(insn, lanes) + e * lanes + lane>>]

Scalar(insn) == <<insn.i, -1>>

IdleSldu(lanes) ==
    [vinsn |-> [n \in 0..(SlduDepth - 1) |-> None],
     accept_pnt |-> 0, issue_pnt |-> 0, commit_pnt |-> 0, issue_cnt |-> 0, commit_cnt |-> 0,
     state |-> "SLIDE_IDLE", elements |-> 0, uncommitted |-> 0,   \* issue_cnt_q, commit_cnt_q
     in_pnt |-> 0, out_pnt |-> 0, vrf_pnt |-> 0, output_limit |-> 0,
     red_stride |-> 1,
     spare_stride |-> 0, loop |-> FALSE, buffer |-> <<>>, buf_valid |-> FALSE,
     operand |-> [l \in 0..(lanes - 1) |-> <<>>],                 \* i_sldu_spill_register
     result_queue |-> [n \in 0..(ResultQueueDepth - 1) |->
                          [at |-> None, data |-> <<>>, valid |-> {}]],
     read_pnt |-> 0, write_pnt |-> 0, result_cnt |-> 0, final_gnt |-> {},
     vinsn_running |-> {}, vinsn_done |-> {}]

Following(pnt) == (pnt + 1) % SlduDepth
Issued(q) == q.vinsn[q.issue_pnt]
Committed(q) == q.vinsn[q.commit_pnt]

-----------------------------------------------------------------------------
(***************************************************************************)
(* The data path.                                                          *)
(***************************************************************************)

\* The row that the spill registers hold.
OperandRow(q, lanes) ==
    [p \in 0..(Row(Issued(q), lanes) - 1) |-> Head(q.operand[p % lanes])[p \div lanes]]

\* sldu_op_dp: amounts other than powers of two, or of a row and more, leave it as it is.
Turned(row, up, amount) ==
    LET size == Cardinality(DOMAIN row)
        by == IF Cardinality(Ones(amount)) = 1 /\ amount < size THEN amount ELSE 0
    IN  [p \in DOMAIN row |-> row[(IF up THEN p - by ELSE p + by) % size]]

\* The least power of two in what is left of the amount.
StrideP2(q) ==
    IF q.spare_stride = 0 THEN 0
    ELSE 2^(CHOOSE b \in Ones(q.spare_stride) : \A c \in Ones(q.spare_stride) : b <= c)

\* stride_t holds amounts below 8 * NrLanes.
Stride(insn, lanes) == insn.stride % (8 * lanes)

OperandsValid(q) == \A l \in DOMAIN q.operand : q.operand[l] # <<>>

\* Empties the spill registers by a word.
Acknowledge(operand) ==
    [l \in DOMAIN operand |-> IF operand[l] = <<>> THEN <<>> ELSE Tail(operand[l])]

-----------------------------------------------------------------------------
(***************************************************************************)
(* The state machine.                                                      *)
(***************************************************************************)
Begin(q, lanes) ==
    LET insn == Issued(q)
        row == Row(insn, lanes)
        next == IF is_stride_np2(insn) THEN "SLIDE_NP2_SETUP" ELSE "SLIDE_RUN"
        d == [q EXCEPT !.vrf_pnt = 0, !.in_pnt = 0, !.out_pnt = 0, !.state = next]
    IN  CASE insn.op = "VSLIDEUP" ->
                 [d EXCEPT !.out_pnt = insn.stride % row, !.vrf_pnt = insn.stride \div row,
                           !.elements = insn.vl - insn.stride,
                           !.output_limit = IF insn.use_scalar_op THEN d.out_pnt + insn.vl
                                            ELSE insn.vl,
                           !.state = IF insn.use_scalar_op THEN "SLIDE_RUN_VSLIDE1UP_FIRST_WORD"
                                     ELSE @]
          [] insn.op = "VSLIDEDOWN" ->
                 LET last == IF insn.use_scalar_op THEN insn.vl - 1 ELSE insn.vl
                 IN  [d EXCEPT !.in_pnt = insn.stride % row,
                               !.elements = last, !.output_limit = last]
          [] OTHER -> [d EXCEPT !.elements = lanes * Transactions(lanes)]

Smaller(a, b) == IF a < b THEN a ELSE b

\* The elements a step moves, and whether it ends the instruction.
Count(q, lanes) ==
    Smaller(Row(Issued(q), lanes) - q.in_pnt, Row(Issued(q), lanes) - q.out_pnt)
Ends(q, lanes) ==
    q.elements <= Count(q, lanes) \/ (ForLanes(Issued(q)) /\ q.elements <= lanes)

\* What a step writes into the row that is put together.
Written(q, lanes) ==
    LET insn == Issued(q)
        row == Turned(OperandRow(q, lanes), insn.op # "VSLIDEDOWN",
                      IF ForLanes(insn) THEN q.red_stride ELSE Stride(insn, lanes))
        at == {p \in DOMAIN row : ForLanes(insn) \/ (q.out_pnt <= p /\ p < q.output_limit)}
        first == IF q.state = "SLIDE_RUN_VSLIDE1UP_FIRST_WORD" THEN 0 :> Scalar(insn) ELSE <<>>
        last == IF Ends(q, lanes) /\ insn.op = "VSLIDEDOWN" /\ insn.use_scalar_op
                THEN q.elements :> Scalar(insn) ELSE <<>>
    IN  last @@ first @@ [p \in at |-> row[p]]

\* The operand row is used up.
NextOperand(u, q, lanes) ==
    [u EXCEPT !.in_pnt = 0, !.operand = Acknowledge(@),
              !.red_stride = IF 2 * @ >= lanes THEN 1 ELSE 2 * @,
              !.loop = FALSE,
              !.state = IF q.state = "SLIDE_NP2_COMMIT" THEN "SLIDE_NP2_SETUP" ELSE @]

\* The result row is full.
NextResult(u, q) ==
    [u EXCEPT !.out_pnt = IF ForLanes(Issued(q)) THEN u.red_stride ELSE 0,
              !.vrf_pnt = @ + 1, !.result_cnt = @ + 1,
              !.result_queue[q.write_pnt].valid = DOMAIN q.operand,
              !.write_pnt = (@ + 1) % ResultQueueDepth,
              !.state = IF q.state = "SLIDE_NP2_COMMIT" THEN "SLIDE_NP2_WAIT" ELSE @]

FinishIssue(u) ==
    [u EXCEPT !.state = "SLIDE_IDLE", !.red_stride = 1,
              !.issue_pnt = Following(@), !.issue_cnt = @ - 1]

Run(q, lanes) ==
    LET insn == Issued(q)
        row == Row(insn, lanes)
        n == Count(q, lanes)
        inFull == ForLanes(insn) \/ q.in_pnt + n = row \/ q.elements <= n
        outFull == ForLanes(insn) \/ q.out_pnt + n = row \/ q.elements <= n
        moved == [q EXCEPT !.result_queue[q.write_pnt].data = Written(q, lanes) @@ @,
                           !.result_queue[q.write_pnt].at = <<insn.i, q.vrf_pnt>>,
                           !.in_pnt = @ + n, !.out_pnt = @ + n,
                           !.elements = IF ForLanes(insn) THEN @ - lanes ELSE @ - n,
                           !.state = IF @ = "SLIDE_NP2_COMMIT" THEN @ ELSE "SLIDE_RUN"]
        read == IF inFull THEN NextOperand(moved, q, lanes) ELSE moved
        filled == IF outFull THEN NextResult(read, q) ELSE read
    IN  IF Ends(q, lanes) THEN FinishIssue(filled) ELSE filled

\* The first operand is let in, the way round is opened.
Setup(q, valid, lanes) ==
    [q EXCEPT !.write_pnt = NP2_BUFFER_PNT, !.read_pnt = NP2_RESULT_PNT,
              !.loop = @ \/ 0 \in valid,
              !.spare_stride = Stride(Issued(q), lanes),
              !.state = IF q.loop /\ q.result_cnt = 0 THEN "SLIDE_NP2_RUN" ELSE @]

\* One turn of the row.
Turn(q, lanes) ==
    LET d == [q EXCEPT !.buffer = Turned(OperandRow(q, lanes), Issued(q).op = "VSLIDEUP",
                                         StrideP2(q)),
                       !.buf_valid = TRUE, !.operand = Acknowledge(@),
                       !.spare_stride = @ - StrideP2(q)]
    IN  IF Cardinality(Ones(q.spare_stride)) = 1 /\ q.result_cnt = 0
        THEN [d EXCEPT !.state = "SLIDE_NP2_COMMIT", !.write_pnt = NP2_RESULT_PNT]
        ELSE d

\* The word on its way round has been read.
Read(u, q) ==
    IF q.buf_valid /\ Len(q.operand[0]) < 2 THEN [u EXCEPT !.buf_valid = FALSE] ELSE u

CanRun(q) == OperandsValid(q) /\ q.result_cnt < ResultQueueDepth

SlideFSM(q, valid, lanes) ==
    CASE q.state = "SLIDE_IDLE" -> IF q.issue_cnt # 0 THEN Begin(q, lanes) ELSE q
      [] q.state \in {"SLIDE_RUN", "SLIDE_RUN_VSLIDE1UP_FIRST_WORD"} ->
             IF CanRun(q) THEN Run(q, lanes) ELSE q
      [] q.state = "SLIDE_NP2_COMMIT" -> Read(IF CanRun(q) THEN Run(q, lanes) ELSE q, q)
      [] q.state = "SLIDE_NP2_SETUP" -> Setup(q, valid, lanes)
      [] q.state = "SLIDE_NP2_RUN" ->
             IF OperandsValid(q) THEN Turn(q, lanes) ELSE Read(q, q)
      [] q.state = "SLIDE_NP2_WAIT" ->
             IF q.result_cnt # 0 THEN q
             ELSE [q EXCEPT !.read_pnt = NP2_RESULT_PNT, !.write_pnt = NP2_RESULT_PNT,
                            !.state = "SLIDE_NP2_COMMIT"]

-----------------------------------------------------------------------------
(***************************************************************************)
(* Write results, commit, accept.                                          *)
(***************************************************************************)

\* Lanes a result is offered to: for the register file, for the ALU.
Requests(q) == IF ForLanes(Committed(q)) THEN {} ELSE q.result_queue[q.read_pnt].valid
RedValid(q) == IF ForLanes(Committed(q)) THEN q.result_queue[q.read_pnt].valid ELSE {}

\* The lane's word of the result.
ResultWord(q, lane, lanes) ==
    LET entry == q.result_queue[q.read_pnt]
    IN  [e \in {p \div lanes : p \in {p \in DOMAIN entry.data : p % lanes = lane}} |->
            entry.data[e * lanes + lane]]

\* The lanes "granted" take their words, those of "final" have written one.
Write(u, q, granted, final, lanes) ==
    LET took == granted \cap q.result_queue[q.read_pnt].valid
    IN  [u EXCEPT !.result_queue[q.read_pnt].valid = @ \ took,
                  !.result_queue[q.read_pnt].data =
                      [p \in {p \in DOMAIN @ : p % lanes \notin took} |-> @[p]],
                  !.final_gnt = (@ \cup final) \ took]

\* The row is with all lanes.
Retire(u, q, lanes) ==
    LET row == Row(Committed(q), lanes) IN
    IF /\ u.result_queue[q.read_pnt].valid = {} /\ q.result_cnt # 0
       /\ \/ ForLanes(Committed(q))
          \/ u.final_gnt = DOMAIN q.operand \/ q.uncommitted > row
    THEN [u EXCEPT !.result_cnt = @ - 1,
                   !.uncommitted = IF q.uncommitted < row THEN 0 ELSE q.uncommitted - row,
                   !.read_pnt = IF q.state = "SLIDE_NP2_SETUP" THEN @
                                ELSE (q.read_pnt + 1) % ResultQueueDepth]
    ELSE u

\* The elements an instruction has to write.
ToCommit(insn, lanes, trimmed) ==
    IF ForLanes(insn) THEN lanes * Transactions(lanes)
    ELSE IF insn.op = "VSLIDEUP" /\ trimmed THEN insn.vl - insn.stride
    ELSE insn.vl

Commits(u, q) == q.commit_cnt # 0 /\ u.uncommitted = 0

Commit(u, q, lanes) ==
    IF ~Commits(u, q) THEN [u EXCEPT !.vinsn_done = {}]
    ELSE [u EXCEPT !.vinsn_done = {Committed(q).id},
                   !.commit_pnt = Following(@), !.commit_cnt = @ - 1,
                   !.uncommitted = IF u.commit_cnt > 1
                                   THEN ToCommit(q.vinsn[Following(q.commit_pnt)], lanes, TRUE)
                                   ELSE @]

\* Reductions always move whole words.
Entry(req) == IF IsSlide(req) THEN req ELSE [req EXCEPT !.ew = 1]

Accept(u, q, req, ids, lanes) ==
    LET d == [u EXCEPT !.vinsn_running = @ \cap ids]
    IN  IF \/ req = None
           \/ ~(IsSlide(req) \/ ForLanes(req))
           \/ q.commit_cnt = SlduDepth \/ req.id \in q.vinsn_running
        THEN d
        ELSE [d EXCEPT !.vinsn[q.accept_pnt] = Entry(req), !.accept_pnt = Following(@),
                       !.issue_cnt = @ + 1, !.commit_cnt = @ + 1,
                       !.vinsn_running = @ \cup {req.id},
                       !.uncommitted = IF u.commit_cnt = 0
                                       THEN ToCommit(Entry(req), lanes,
                                                     IsSlide(req) /\ ~req.use_scalar_op)
                                       ELSE @]

\* Mutant: words are let in whether there is room or not.
Ready_Always(q) == {l \in DOMAIN q.operand : ~q.loop}

\* Lanes whose spill register has room for a word from outside.
Ready(q) == {l \in DOMAIN q.operand : ~q.loop /\ Len(q.operand[l]) < 2}

\* A lane's word of the row that goes round.
BufferWord(q, lane, lanes) ==
    [e \in 0..(Issued(q).ew - 1) |-> q.buffer[e * lanes + lane]]

\* words: per lane, the word it offers, or None.
Receive(u, q, words, lanes) ==
    [u EXCEPT !.operand = [l \in DOMAIN @ |->
        IF l \in Ready(q) /\ words[l] # None THEN Append(@[l], words[l])
        ELSE IF q.loop /\ q.buf_valid /\ Len(q.operand[l]) < 2
        THEN Append(@[l], BufferWord(q, l, lanes))
        ELSE @[l]]]

Cycle(q, lanes, words, granted, final, req, ids) ==
    LET valid == {l \in DOMAIN words : words[l] # None}
        written == Write(SlideFSM(q, valid, lanes), q, granted, final, lanes)
        committed == Commit(Retire(written, q, lanes), q, lanes)
    IN  Receive(Accept(committed, q, req, ids, lanes), q, words, lanes)

\* The lanes' results come from their ALUs (sldu_mux_sel_o).
Reducing(q) ==
    LET committing == q.commit_cnt # 0
        red == q.issue_cnt # 0 /\ ForLanes(Issued(q))
    IN  \/ red /\ ~(committing /\ ~ForLanes(Committed(q)))
        \/ committing /\ ForLanes(Committed(q))
=============================================================================
