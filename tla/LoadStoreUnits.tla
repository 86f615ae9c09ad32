--------------------------- MODULE LoadStoreUnits ---------------------------
(***************************************************************************)
(* What the load unit and the store unit do in a clock cycle, as functions *)
(* from the registers of a unit to what they become.  The parts of a cycle *)
(* are applied one after another, as in the code: what a later part reads  *)
(* is what an earlier one left (the code's _d), and q is what the cycle    *)
(* began with (the code's _q).                                             *)
(*                                                                         *)
(* A byte of data carries its origin.  Byte k of an instruction is its     *)
(* k-th byte in element order; the order of the bytes within a word of the *)
(* register file is the subject of ByteLayout.                             *)
(***************************************************************************)
EXTENDS AddrGen

CONSTANTS
    NrLanes,
    VrfBytes,      \* the bytes of a word of all lanes: 8 * NrLanes in the code
    LoadDepth,     \* VlduInsnQueueDepth
    StoreDepth     \* VstuInsnQueueDepth

ASSUME UnitsAssumption ==
    /\ NrLanes \in Nat \ {0}
    /\ VrfBytes \in Nat \ {0} /\ VrfBytes % NrLanes = 0 /\ VrfBytes % AxiBytes = 0
    /\ LoadDepth \in Nat \ {0} /\ StoreDepth \in Nat \ {0}

Lanes == 0..(NrLanes - 1)
ResultQueueDepth == 2

\* The lane that holds byte k of a word, for elements of the given size.
LaneOf(k, size) == (k \div size) % NrLanes

VectorBytes(insn) == insn.vl * insn.sew

IdleLoadUnit ==
    [vinsn |-> <<>>, issue_cnt |-> 0, issue_bytes |-> 0, commit_bytes |-> 0,
     len |-> 0, r_pnt |-> 0, vrf_pnt |-> 0,
     word |-> {}, result_queue |-> <<>>, final_gnt |-> {}]

IdleStoreUnit ==
    [vinsn |-> <<>>, issue_cnt |-> 0, issue_bytes |-> 0,
     issue_pnt |-> 0, commit_pnt |-> 0, len |-> 0, vrf_pnt |-> 0]

\* The instruction in its issue phase.
Issued(u) == u.vinsn[Len(u.vinsn) - u.issue_cnt + 1]

vinsn_queue_full(u, depth) == Len(u.vinsn) = depth

\* How many bytes a beat and a word have in common.
ValidBytes(u, beat) ==
    Least(beat, Least(u.issue_bytes, VrfBytes) - u.vrf_pnt)

\* A word is complete.  What is left after it.
WordEnds(u) == u.vrf_pnt = VrfBytes \/ u.vrf_pnt = u.issue_bytes
NextWord(u) ==
    IF ~WordEnds(u) THEN u
    ELSE [u EXCEPT !.vrf_pnt = 0, !.issue_bytes = Floor0(@ - VrfBytes)]

\* Mutant: the next instruction's bytes are not counted.
FinishIssue_Unprepared(u) == [u EXCEPT !.issue_cnt = @ - 1, !.issue_bytes = 0]

\* The vector instruction has been issued: prepare for the next one.
FinishIssue(u) ==
    [u EXCEPT !.issue_cnt = @ - 1,
              !.issue_bytes = IF u.issue_cnt > 1
                              THEN VectorBytes(u.vinsn[Len(u.vinsn) - u.issue_cnt + 2])
                              ELSE 0]

-----------------------------------------------------------------------------
(***************************************************************************)
(* Load unit.  b is the first command of the address generator, data the   *)
(* beat (for every byte of the bus where it comes from), mask the word of  *)
(* the mask unit.                                                          *)
(***************************************************************************)

\* The unit works on a beat: it has an instruction, and the mask if it needs one.
Loads(q, unmasked) == q.issue_cnt # 0 /\ unmasked

\* The bytes of the beat that go to the current word.
BeatBytes(q, lower, upper, data, mask) ==
    LET seq(lane) == lane - lower - q.r_pnt + q.vrf_pnt
    IN  {[at |-> VectorBytes(Issued(q)) - q.issue_bytes + seq(lane),
          lane |-> LaneOf(seq(lane), Issued(q).sew),
          from |-> data[lane],
          mask |-> mask] :
            lane \in {l \in (lower + q.r_pnt)..upper :
                        seq(l) < Least(q.issue_bytes, VrfBytes)}}

\* A complete word enters the result queue, for all lanes to take.
Enqueue(u) ==
    IF ~WordEnds(u) THEN u
    ELSE [u EXCEPT !.result_queue = Append(@, [insn |-> Issued(u).id,
                                              bytes |-> u.word, valid |-> Lanes]),
                   !.word = {}]

\* Consumed all beats of this burst: len is as wide as the longest burst.
BurstEnds(u, b) == u.len = (b.len + 1) % MaxBeats

EndBurst(u, b) == IF BurstEnds(u, b) THEN [u EXCEPT !.len = 0, !.r_pnt = 0] ELSE u

\* One R beat.  What becomes of the unit, whether the beat is taken, whether
\* the command is, and whether the mask is.
ReadBeat(q, b, data, unmasked, mask) ==
    LET lower == beat_lower_byte(b, q.len)
        upper == beat_upper_byte(b, q.len)
        n     == IF Loads(q, unmasked) THEN ValidBytes(q, upper - lower - q.r_pnt + 1) ELSE 0
        copied == [q EXCEPT !.r_pnt = @ + n, !.vrf_pnt = @ + n,
                            !.word = IF n = 0 THEN @
                                     ELSE @ \cup BeatBytes(q, lower, upper, data, mask)]
        stored == NextWord(Enqueue(copied))
        taken == copied.r_pnt = upper - lower + 1 \/ stored.issue_bytes = 0
        beat  == IF taken THEN [stored EXCEPT !.r_pnt = 0, !.len = (@ + 1) % MaxBeats]
                 ELSE stored
        burst == EndBurst(beat, b)
    IN  [unit |-> IF burst.issue_bytes = 0 THEN FinishIssue(burst) ELSE burst,
         taken |-> taken,
         popped |-> BurstEnds(beat, b),
         unmasks |-> WordEnds(copied) /\ Issued(q).masked]

\* The lanes in "granted" take their part of the first result; "final" are the
\* lanes that have written one.
WriteResult(u, q, granted, final) ==
    IF q.result_queue = <<>> THEN [u EXCEPT !.final_gnt = @ \cup final]
    ELSE [u EXCEPT !.result_queue[1].valid = @ \ granted,
                   !.final_gnt = (@ \cup final) \ granted]

\* Mutant: the last word of an instruction is not waited for.
WordCommitted_Early(u, q) == q.result_queue # <<>>

\* All lanes have taken the first result, and have written it if it is the last.
WordCommitted(u, q) ==
    /\ q.result_queue # <<>>
    /\ u.result_queue[1].valid = {}
    /\ u.final_gnt = Lanes \/ q.commit_bytes > VrfBytes

CommitWord(u, q) ==
    IF WordCommitted(u, q)
    THEN [u EXCEPT !.result_queue = Tail(@), !.commit_bytes = Floor0(@ - VrfBytes)]
    ELSE u

LoadDone(u, q) == q.vinsn # <<>> /\ u.commit_bytes = 0

CommitLoad(u, q) ==
    IF LoadDone(u, q)
    THEN [u EXCEPT !.vinsn = Tail(@),
                   !.commit_bytes = IF Len(u.vinsn) > 1 THEN VectorBytes(u.vinsn[2]) ELSE 0]
    ELSE u

AcceptLoad(u, insn) ==
    [u EXCEPT !.vinsn = Append(@, insn), !.issue_cnt = @ + 1,
              !.issue_bytes = IF u.issue_cnt = 0 THEN VectorBytes(insn) ELSE @,
              !.commit_bytes = IF u.vinsn = <<>> THEN VectorBytes(insn) ELSE @]

-----------------------------------------------------------------------------
(***************************************************************************)
(* Store unit.  "word" is what the lanes offer: a word of an instruction.  *)
(***************************************************************************)

\* The bytes of the W beat, with where they come from.
WriteBytes(q, b, word, mask) ==
    LET lower == beat_lower_byte(b, q.len)
        seq(lane) == lane - lower + q.vrf_pnt
    IN  {[insn |-> word.insn, at |-> word.no * VrfBytes + seq(lane),
          to |-> lane, mask |-> mask] :
            lane \in {l \in lower..beat_upper_byte(b, q.len) : seq(l) < q.issue_bytes}}

\* Mutant: the last beat of a word is taken for the last one of the burst.
WriteBeat_ShortBurst(q, b) ==
    LET n == ValidBytes(q, beat_upper_byte(b, q.len) - beat_lower_byte(b, q.len) + 1)
        sent == [q EXCEPT !.vrf_pnt = @ + n, !.len = (@ + 1) % MaxBeats]
        last == BurstEnds(sent, b) \/ WordEnds(sent)
    IN  [unit |-> NextWord(IF last THEN [sent EXCEPT !.len = 0] ELSE sent),
         popped |-> last, word |-> WordEnds(sent)]

\* One W beat: what becomes of the unit, whether the command and the word of
\* the lanes (with its mask) are used up.
WriteBeat(q, b) ==
    LET n == ValidBytes(q, beat_upper_byte(b, q.len) - beat_lower_byte(b, q.len) + 1)
        sent == [q EXCEPT !.vrf_pnt = @ + n, !.len = (@ + 1) % MaxBeats]
        last == BurstEnds(sent, b)
    IN  [unit |-> NextWord(IF last THEN [sent EXCEPT !.len = 0] ELSE sent),
         popped |-> last, word |-> WordEnds(sent)]

FinishStore(u, q) ==
    IF q.issue_cnt # 0 /\ u.issue_bytes = 0
    THEN [FinishIssue(u) EXCEPT !.issue_pnt = (@ + 1) % StoreDepth]
    ELSE u

\* An answer of memory completes the oldest store, unless that is still issued.
Acknowledged(u) == u.issue_pnt # u.commit_pnt

CommitStore(u) ==
    IF Acknowledged(u)
    THEN [u EXCEPT !.vinsn = Tail(@), !.commit_pnt = (@ + 1) % StoreDepth]
    ELSE u

AcceptStore(u, insn) ==
    [u EXCEPT !.vinsn = Append(@, insn), !.issue_cnt = @ + 1,
              !.issue_bytes = IF u.issue_cnt = 0 THEN VectorBytes(insn) ELSE @]
=============================================================================
