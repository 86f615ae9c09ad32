------------------------------ MODULE MaskUnit ------------------------------
(***************************************************************************)
(* The mask unit, in the same form as the units of a lane: q is what a     *)
(* clock cycle begins with, u what the parts of the cycle before have made *)
(* of it.                                                                  *)
(*                                                                         *)
(* It has one instruction at a time.  Of an instruction under a mask it    *)
(* reads the mask register, a bit for each element, and hands every lane   *)
(* the bits of its words in turn (the mask queue).  Of a comparison it     *)
(* takes the results that the ALUs or the FPUs send it, a bit for each     *)
(* element, and gathers them into words of the mask register (the result   *)
(* queue); so it does with the words of operations on masks.               *)
(*                                                                         *)
(* A lane's word of a mask register has WordBits bits, the lanes' words of *)
(* one address are a chunk.  The bits of a chunk are numbered in order of  *)
(* the elements they belong to; which lane has a bit depends on the width  *)
(* of elements the register is ordered by, insn.ew to a word (module       *)
(* ByteLayout has the order of the bytes within a word).  insn.off is the  *)
(* set of elements that the mask holds back.                               *)
(*                                                                         *)
(* Not here: counts and first ones (VCPOP, VFIRST), VMSBF to VID, masks    *)
(* for slides, loads and stores.                                           *)
(***************************************************************************)
EXTENDS Integers, Sequences, FiniteSets

CONSTANTS None, WordBits

MaskQueueDepth == 2
ResultQueueDepth == 2

Compares == {"VMSEQ", "VMFEQ"}
MaskLogicals == {"VMAND"}

\* insn.vfu == VFU_MaskUnit.
Executes(insn) == insn.op \in Compares \cup MaskLogicals
masked(insn) == insn.off # {}
Serves(insn) == masked(insn) \/ Executes(insn)

Ceil(a, b) == (a + b - 1) \div b
Less(a, b) == IF a < b THEN 0 ELSE a - b

Row(insn, lanes) == lanes * insn.ew
Chunk(lanes) == lanes * WordBits

\* The bits for which a lane's word of a chunk has a place of one element.
ElementBits(insn) == WordBits \div insn.ew
BitLane(insn, p, lanes) == (p \div ElementBits(insn)) % lanes

IdleMasku(lanes) ==
    [vinsn |-> None, issue_cnt |-> 0, commit_cnt |-> 0,
     to_read |-> 0, to_issue |-> 0, to_commit |-> 0,      \* elements
     mask_pnt |-> 0, vrf_pnt |-> 0,
     mask_queue |-> [n \in 0..(MaskQueueDepth - 1) |-> [l \in 0..(lanes - 1) |-> None]],
     mask_read_pnt |-> 0, mask_write_pnt |-> 0, mask_cnt |-> 0,
     result_queue |-> [n \in 0..(ResultQueueDepth - 1) |->
                          [at |-> None, bits |-> {}, be |-> {}, valid |-> {}]],
     read_pnt |-> 0, write_pnt |-> 0, result_cnt |-> 0, final_gnt |-> {},
     vinsn_running |-> {}, vinsn_done |-> {}]

Issues(q) == q.issue_cnt # 0

\* masku_operand_fu: whose results it takes.
FromMFPU(q) == q.vinsn # None /\ q.vinsn.op = "VMFEQ"

-----------------------------------------------------------------------------
(***************************************************************************)
(* Mask operands: m is a chunk of the mask register (its number and the    *)
(* elements held back by it), or None if a lane does not have its word.    *)
(***************************************************************************)
TakesMasks(q, m) ==
    Issues(q) /\ masked(q.vinsn) /\ q.mask_cnt < MaskQueueDepth /\ m # None

\* The elements of a lane's word that the mask holds back.
MaskWord(q, m, l, lanes) ==
    {e \in 1..q.vinsn.ew : m.row * Chunk(lanes) + q.mask_pnt + (e - 1) * lanes + l \in m.off}

\* The chunk is used up.
LastOfChunk(q, lanes) ==
    \/ q.mask_pnt + Row(q.vinsn, lanes) = Chunk(lanes)
    \/ Less(q.to_read, Row(q.vinsn, lanes)) = 0

\* The bits of a row of elements; lanes behind the last element get none.
TakeMasks(u, q, m, lanes) ==
    IF ~TakesMasks(q, m) THEN u
    ELSE [u EXCEPT
        !.mask_queue[q.mask_write_pnt] =
            [l \in DOMAIN @ |-> IF l < q.to_read THEN MaskWord(q, m, l, lanes) ELSE None],
        !.mask_write_pnt = (@ + 1) % MaskQueueDepth, !.mask_cnt = @ + 1,
        !.mask_pnt = IF LastOfChunk(q, lanes) THEN 0 ELSE @ + Row(q.vinsn, lanes),
        !.to_read = Less(@, Row(q.vinsn, lanes))]

-----------------------------------------------------------------------------
(***************************************************************************)
(* Results: a has the lanes' words, with what they are made of and the     *)
(* elements held back, b is the chunk of the destination's old value, by   *)
(* its instruction and number.                                             *)
(***************************************************************************)

\* fake_a_valid: lanes that have no element in the last row.
Fake(q, lanes) ==
    IF q.to_commit - q.vrf_pnt \in 0..(lanes - 1)
    THEN {l \in 1..(lanes - 1) : l >= q.to_commit % lanes /\ q.to_commit % lanes # 0}
    ELSE {}

Produces(q, a, b, lanes) ==
    /\ Issues(q) /\ Executes(q.vinsn) /\ q.result_cnt < ResultQueueDepth
    /\ \A l \in DOMAIN a : a[l] # None \/ l \in Fake(q, lanes)
    /\ b # None

\* bit_enable: the bits that are not behind the last element.
Enabled(q, p, lanes) == q.vinsn.vl >= Chunk(lanes) \/ p < q.vinsn.vl

\* The outcome for element s of a row; of an element that is held back, the old
\* value of a bit, which is that of the element's own place in the row.
Outcome(q, a, b, s, lanes) ==
    LET word == a[s % lanes]
        e == s \div lanes + 1
    IN  CASE word = None -> None
          [] masked(q.vinsn) /\ e \in word.off -> <<b, s * ElementBits(q.vinsn)>>
          [] OTHER -> <<word.src, e>>

\* The bits that a row of words gives.
NewBits(q, a, b, lanes) ==
    IF q.vinsn.op \in Compares
    THEN {<<q.vrf_pnt + s, Outcome(q, a, b, s, lanes)>> : s \in 0..(Row(q.vinsn, lanes) - 1)}
    ELSE {<<p, IF a[BitLane(q.vinsn, p, lanes)] = None THEN None
               ELSE <<a[BitLane(q.vinsn, p, lanes)].src, p>> >> : p \in 0..(Chunk(lanes) - 1)}

\* With the old bits behind the last element.
ResultBits(q, a, b, lanes) ==
    {d \in NewBits(q, a, b, lanes) : Enabled(q, d[1], lanes)} \cup
    {<<p, <<b, p>>>> : p \in {p \in 0..(Chunk(lanes) - 1) : ~Enabled(q, p, lanes)}}

\* Byte enables: as many elements' places as hold the bits that are left.
WriteEnable(q, lanes) ==
    {p \in 0..(Chunk(lanes) - 1) :
        p \div ElementBits(q.vinsn) < Ceil(q.to_issue, ElementBits(q.vinsn))}

\* A chunk is full, or it is the last: a row of a comparison adds only some bits.
FillsUp(q, lanes) ==
    LET pnt == q.vrf_pnt + Row(q.vinsn, lanes)
    IN  q.vinsn.op \in Compares => pnt = Chunk(lanes) \/ pnt >= q.to_issue

Produce(u, q, a, b, lanes) ==
    LET n == q.write_pnt
        d == [u EXCEPT
            !.result_queue[n].bits = @ \cup ResultBits(q, a, b, lanes),
            !.result_queue[n].be = WriteEnable(q, lanes),
            !.result_queue[n].at = <<q.vinsn.i, (q.vinsn.vl - q.to_issue) \div Chunk(lanes)>>]
    IN  IF ~Produces(q, a, b, lanes) THEN u
        ELSE IF ~FillsUp(q, lanes) THEN [d EXCEPT !.vrf_pnt = @ + Row(q.vinsn, lanes)]
        ELSE [d EXCEPT !.result_queue[n].valid = 0..(lanes - 1), !.vrf_pnt = 0,
                       !.result_cnt = @ + 1, !.write_pnt = (@ + 1) % ResultQueueDepth,
                       !.to_issue = Less(@, Chunk(lanes))]

\* Finished issuing results, or masks.
FinishIssue(u, q) ==
    IF Issues(q) /\ (IF Executes(q.vinsn) THEN u.to_issue ELSE u.to_read) = 0
    THEN [u EXCEPT !.issue_cnt = @ - 1] ELSE u

-----------------------------------------------------------------------------
(***************************************************************************)
(* Masks to the lanes, results to the register file.                       *)
(***************************************************************************)
Offered(q, l) == q.mask_queue[q.mask_read_pnt][l]

\* The lanes in "ready" take their masks; when all have theirs, the row is done.
SendMasks(u, q, ready, lanes) ==
    LET d == [u EXCEPT !.mask_queue[q.mask_read_pnt] =
                  [l \in DOMAIN @ |-> IF l \in ready /\ Offered(q, l) # None THEN None ELSE @[l]]]
    IN  IF q.mask_cnt = 0 \/ \E l \in 0..(lanes - 1) : d.mask_queue[q.mask_read_pnt][l] # None
        THEN d
        ELSE [d EXCEPT !.mask_read_pnt = (@ + 1) % MaskQueueDepth, !.mask_cnt = @ - 1,
                       !.to_commit = Less(q.to_commit, Row(q.vinsn, lanes))]

Requests(q) == q.result_queue[q.read_pnt].valid

\* What a lane gets to write.
ResultWord(q, l, lanes) ==
    LET entry == q.result_queue[q.read_pnt]
    IN  [at |-> entry.at,
         word |-> {d \in entry.bits : d[1] \in entry.be /\ BitLane(q.vinsn, d[1], lanes) = l}]

\* Mutant: it is not waited for.
AllWritten_Always(final, q, lanes) == TRUE

\* The lanes have written their results; with more than a chunk to go that is not
\* waited for.
AllWritten(final, q, lanes) == final = 0..(lanes - 1) \/ q.to_commit > Chunk(lanes)

\* The lanes in "gnt" take their results, those in "final" have written one.
WriteResults(u, q, gnt, final, lanes) ==
    LET granted == Requests(q) \cap gnt
        d == [u EXCEPT !.result_queue[q.read_pnt].valid = @ \ granted,
                       !.final_gnt = (@ \cup final) \ granted]
    IN  IF \/ q.result_cnt = 0 \/ d.result_queue[q.read_pnt].valid # {}
           \/ ~AllWritten(d.final_gnt, q, lanes)
        THEN d
        ELSE [d EXCEPT !.result_queue[q.read_pnt] = [at |-> None, bits |-> {}, be |-> {},
                                                     valid |-> {}],
                       !.read_pnt = (@ + 1) % ResultQueueDepth, !.result_cnt = @ - 1,
                       !.to_commit = Less(q.to_commit, Chunk(lanes))]

-----------------------------------------------------------------------------
(***************************************************************************)
(* Commit, accept.                                                         *)
(***************************************************************************)
Commits(u, q, lanes) ==
    /\ q.commit_cnt # 0 /\ u.to_commit = 0
    /\ q.vinsn.op \in Compares => u.final_gnt = 0..(lanes - 1)

Commit(u, q, lanes) ==
    IF Commits(u, q, lanes)
    THEN [u EXCEPT !.vinsn_done = {q.vinsn.id}, !.commit_cnt = @ - 1]
    ELSE [u EXCEPT !.vinsn_done = {}]

\* The counters of instructions have one bit.
Accept(u, q, req) ==
    IF q.commit_cnt # 0 \/ req = None \/ req.id \in q.vinsn_running \/ ~Serves(req) THEN u
    ELSE [u EXCEPT !.vinsn = req, !.vinsn_running = @ \cup {req.id},
                   !.to_issue = IF u.issue_cnt = 0 THEN req.vl ELSE @,
                   !.to_read = IF u.issue_cnt = 0 THEN req.vl ELSE @,
                   !.final_gnt = IF u.issue_cnt = 0 THEN {} ELSE @,
                   !.to_commit = IF u.commit_cnt = 0 THEN req.vl ELSE @,
                   !.issue_cnt = (@ + 1) % 2, !.commit_cnt = (@ + 1) % 2]

\* A clock cycle; in is what the lanes say.
Cycle(q, lanes, in, req, ids) ==
    LET running == [q EXCEPT !.vinsn_running = @ \cap ids]
        issued == FinishIssue(Produce(TakeMasks(running, q, in.m, lanes), q, in.a, in.b, lanes), q)
        sent == SendMasks(issued, q, in.ready, lanes)
    IN  Accept(Commit(WriteResults(sent, q, in.gnt, in.final, lanes), q, lanes), running, req)
=============================================================================
