-------------------------------- MODULE VLSU --------------------------------
(***************************************************************************)
(* The vector load/store unit: the address generator, the load unit and    *)
(* the store unit, with the memory behind them and the lanes and the mask  *)
(* unit in front.                                                          *)
(*                                                                         *)
(* The address generator turns an instruction into bursts.  For each it    *)
(* sends a request to memory and a command to the queue that the load unit *)
(* and the store unit share; the unit the first command is for moves the   *)
(* data.  A step is a clock cycle of one of the three; they only meet in   *)
(* registers, so that a common cycle is the same as one after another.     *)
(***************************************************************************)
EXTENDS LoadStoreUnits

CONSTANTS
    Programs,      \* the memory instructions issued, in order
    CmdDepth,      \* VaddrgenInsnQueueDepth
    None           \* an empty register

UnitStride == {"VLE", "VSE"}
Indexed == {"VLXE", "VSXE"}
is_load(op) == op \in {"VLE", "VLSE", "VLXE"}

\* An instruction: elements of whole beats and words, and an index for each.
Sizes == {w \in 1..AxiBytes : AxiBytes % w = 0}
InsnOK(i) ==
    /\ i.op \in {"VLE", "VLSE", "VLXE", "VSE", "VSSE", "VSXE"}
    /\ i.addr \in Nat /\ i.stride \in Int
    /\ i.vl \in Nat \ {0} /\ i.sew \in Sizes /\ i.isz \in Sizes
    /\ i.op \in Indexed => Len(i.idx) = i.vl /\ \A e \in 1..i.vl : i.idx[e] \in Nat

ASSUME ProgramsAssumption ==
    /\ \A p \in Programs :
          /\ Len(p) \in Nat
          /\ \A n \in 1..Len(p) : InsnOK(p[n]) /\ p[n].id = n
    /\ CmdDepth \in Nat \ {0}

VARIABLES
    prog,
    issued,        \* the number of instructions the sequencer has broadcast
    ag,            \* the address generator, both its processes
    cmd,           \* the commands for the units (i_addrgen_req_queue)
    ld, st,        \* the load unit, the store unit
    ar, aw,        \* the bursts memory has not finished reading, or taking
    beat,          \* the beats of the first of them memory is done with
    owed,          \* the instructions of the bursts memory has to answer
    masks, stores, idxs,   \* the words coming from the mask unit and the lanes
    slot,          \* per lane: the stream register before the register file
    final_gnt,     \* the lanes that wrote in the last cycle (registered)
    vrf, mem,      \* history: the bytes written to the registers, to memory
    done,          \* history: the instructions reported as done
    failed,        \* history: the instructions answered with an error
    cleared        \* history: per store, the bytes of it in memory when it was done

units == <<ag, cmd, ld, st>>
memory == <<ar, aw, beat, owed>>
lanes == <<masks, stores, idxs, slot, final_gnt>>
history == <<vrf, mem, done, failed, cleared>>
vars == <<prog, issued, units, memory, lanes, history>>

-----------------------------------------------------------------------------
(***************************************************************************)
(* What an instruction means.                                              *)
(***************************************************************************)

\* Where byte k of an instruction lies in memory.
ByteAddr(insn, k) ==
    LET e == k \div insn.sew
    IN  CASE insn.op \in UnitStride -> insn.addr + k
          [] insn.op \in Indexed -> insn.addr + insn.idx[e + 1] + (k % insn.sew)
          [] OTHER -> insn.addr + e * insn.stride + (k % insn.sew)

\* The words of n bytes, in the order in which the lanes deliver them.
Words(insn, n) ==
    [w \in 1..((n + VrfBytes - 1) \div VrfBytes) |-> [insn |-> insn.id, no |-> w - 1]]

is_addr_error(a, sew) == a % sew # 0

\* The mask that belongs to byte k.
MaskOf(insn, k) ==
    IF insn.masked THEN [insn |-> insn.id, no |-> k \div VrfBytes] ELSE None

-----------------------------------------------------------------------------
Quiet == [state |-> "IDLE", insn |-> None, axi |-> "AXI_ADDRGEN_IDLE",
          addr |-> 0, len |-> 0, width |-> AxiBytes,
          stretch |-> [start |-> 0, end |-> 0, next |-> 0],
          elm |-> 0, cnt |-> 0, spill |-> <<>>, error |-> FALSE]

Init ==
    /\ prog \in Programs
    /\ issued = 0
    /\ ag = Quiet /\ cmd = <<>>
    /\ ld = IdleLoadUnit /\ st = IdleStoreUnit
    /\ ar = <<>> /\ aw = <<>> /\ beat = [ar |-> 0, aw |-> 0] /\ owed = <<>>
    /\ masks = <<>> /\ stores = <<>> /\ idxs = <<>>
    /\ slot = [l \in Lanes |-> None] /\ final_gnt = {}
    /\ vrf = {} /\ mem = {} /\ done = {} /\ failed = {}
    /\ cleared = [i \in DOMAIN prog |-> {}]

-----------------------------------------------------------------------------
(***************************************************************************)
(* A clock cycle of the load unit, in which it accepts the instructions in *)
(* "new" (none or one).                                                    *)
(***************************************************************************)

\* The word of the mask unit, if it has one in this cycle.
Mask(u, valid) ==
    IF u.issue_cnt # 0 /\ Issued(u).masked /\ valid THEN Head(masks) ELSE None

Unmasked(u, valid) == u.issue_cnt # 0 => (~Issued(u).masked \/ valid)

RData == [lane \in 0..(AxiBytes - 1) |-> BusAddr(Head(ar), beat.ar, lane)]

\* (That the unit has an instruction to issue, the code takes for granted when it
\* fills the result queue: see BeatsForTheirInsn.)
Reads ==
    /\ ar # <<>> /\ cmd # <<>> /\ ld.issue_cnt # 0
    /\ Head(cmd).is_load
    /\ Len(ld.result_queue) < ResultQueueDepth

Read(r_valid, mask_valid) ==
    IF r_valid
    THEN ReadBeat(ld, Head(cmd), RData, Unmasked(ld, mask_valid), Mask(ld, mask_valid))
    ELSE [unit |-> ld, taken |-> FALSE, popped |-> FALSE, unmasks |-> FALSE]

\* The lanes that take their part of the first result.
Granted(writes) ==
    IF ld.result_queue = <<>> THEN {}
    ELSE {l \in Head(ld.result_queue).valid : slot[l] = None \/ l \in writes}

\* What a cycle does: r is what it reads, "granted" and "writes" are the lanes that
\* take their part of a result and those that write one, word is the unit after it.
LoadStep(new, r, granted, writes, word) ==
    LET unit  == CommitLoad(word, ld)
        first == Head(ld.result_queue)
    IN  /\ ld' = IF new = {} THEN unit ELSE AcceptLoad(unit, CHOOSE i \in new : TRUE)
        /\ cmd' = IF r.popped THEN Tail(cmd) ELSE cmd
        /\ ar' = IF r.taken /\ beat.ar = Head(ar).len THEN Tail(ar) ELSE ar
        /\ beat' = IF ~r.taken THEN beat
                   ELSE [beat EXCEPT !.ar = IF @ = Head(ar).len THEN 0 ELSE @ + 1]
        /\ masks' = (IF r.unmasks THEN Tail(masks) ELSE masks) \o
                        (IF \E i \in new : i.masked
                         THEN LET i == CHOOSE i \in new : TRUE IN Words(i, VectorBytes(i))
                         ELSE <<>>)
        /\ slot' = [l \in Lanes |->
                        IF l \in granted
                        THEN [insn |-> first.insn,
                              bytes |-> {x \in first.bytes : x.lane = l}]
                        ELSE IF l \in writes THEN None ELSE slot[l]]
        /\ final_gnt' = writes
        /\ vrf' = vrf \cup UNION {{[insn |-> slot[l].insn, at |-> x.at,
                                    from |-> x.from, mask |-> x.mask] :
                                        x \in slot[l].bytes} : l \in writes}
        /\ done' = IF LoadDone(word, ld) THEN done \cup {Head(ld.vinsn).id} ELSE done

LoadCycle(new) ==
    \E r_valid \in {FALSE} \cup {Reads}, mask_valid \in {FALSE} \cup {masks # <<>>},
       writes \in SUBSET {l \in Lanes : slot[l] # None} :
      \E r \in {Read(r_valid, mask_valid)}, granted \in {Granted(writes)} :
      \E word \in {CommitWord(WriteResult(r.unit, ld, granted, final_gnt), ld)} :
          LoadStep(new, r, granted, writes, word)

\* The load unit works.
LoadUnit ==
    /\ LoadCycle({})
    /\ UNCHANGED <<prog, issued, ag, st, aw, owed, stores, idxs, mem, failed, cleared>>

-----------------------------------------------------------------------------
(***************************************************************************)
(* A clock cycle of the store unit.                                        *)
(***************************************************************************)

Sends(mask_valid) ==
    /\ st.issue_cnt # 0 /\ stores # <<>>
    /\ Unmasked(st, mask_valid)
    /\ cmd # <<>> /\ ~Head(cmd).is_load

\* What a cycle does: "sends" if it sends a beat, w is what becomes of the unit by it.
StoreStep(new, mask_valid, b_valid, sends, w) ==
    LET last  == sends /\ beat.aw = Head(aw).len
        ends  == FinishStore(w.unit, st)
        ack   == b_valid /\ Acknowledged(ends)
        unit  == IF b_valid THEN CommitStore(ends) ELSE ends
        bytes == IF sends
                 THEN WriteBytes(st, Head(cmd), Head(stores), Mask(st, mask_valid))
                 ELSE {}
    IN  /\ st' = IF new = {} THEN unit ELSE AcceptStore(unit, CHOOSE i \in new : TRUE)
        /\ cmd' = IF w.popped THEN Tail(cmd) ELSE cmd
        /\ aw' = IF last THEN Tail(aw) ELSE aw
        /\ beat' = IF ~sends THEN beat
                   ELSE [beat EXCEPT !.aw = IF last THEN 0 ELSE @ + 1]
        /\ owed' = (IF b_valid THEN Tail(owed) ELSE owed) \o
                       (IF last THEN <<Head(aw).insn>> ELSE <<>>)
        /\ stores' = (IF w.word THEN Tail(stores) ELSE stores) \o
                         (IF new = {} THEN <<>>
                          ELSE LET i == CHOOSE i \in new : TRUE IN Words(i, VectorBytes(i)))
        /\ masks' = (IF w.word /\ Issued(st).masked THEN Tail(masks) ELSE masks) \o
                        (IF \E i \in new : i.masked
                         THEN LET i == CHOOSE i \in new : TRUE IN Words(i, VectorBytes(i))
                         ELSE <<>>)
        /\ mem' = mem \cup {[insn |-> x.insn, at |-> x.at, mask |-> x.mask,
                             addr |-> BusAddr(Head(aw), beat.aw, x.to)] : x \in bytes}
        /\ done' = IF ack THEN done \cup {Head(st.vinsn).id} ELSE done
        /\ cleared' = IF ack
                      THEN [cleared EXCEPT ![Head(st.vinsn).id] =
                               {x \in mem' : x.insn = Head(st.vinsn).id}]
                      ELSE cleared

StoreCycle(new) ==
    \E mask_valid \in {FALSE} \cup {masks # <<>>}, w_ready \in BOOLEAN,
       b_valid \in {FALSE} \cup {owed # <<>>} :
      \E sends \in {w_ready /\ Sends(mask_valid)} :
      \E w \in {IF sends THEN WriteBeat(st, Head(cmd))
               ELSE [unit |-> st, popped |-> FALSE, word |-> FALSE]} :
          StoreStep(new, mask_valid, b_valid, sends, w)

StoreUnit ==
    /\ StoreCycle({})
    /\ UNCHANGED <<prog, issued, ag, ld, ar, idxs, slot, final_gnt, vrf, failed>>

-----------------------------------------------------------------------------
(***************************************************************************)
(* The address generator.                                                  *)
(***************************************************************************)

\* The sequencer broadcasts the next memory instruction: the last one has been
\* acknowledged, and the queue of the unit has room.
Issue ==
    /\ issued < Len(prog)
    /\ ag.state = "IDLE"
    /\ LET i == prog[issued + 1]
       IN  /\ ag' = [ag EXCEPT !.state = IF i.op \in Indexed THEN "ADDRGEN_IDX_OP"
                                         ELSE "ADDRGEN",
                               !.insn = i,
                               !.cnt = IF i.op \in Indexed THEN i.vl ELSE @]
           /\ idxs' = IF i.op \in Indexed THEN idxs \o Words(i, i.vl * i.isz) ELSE idxs
           /\ \/ /\ is_load(i.op) /\ ~vinsn_queue_full(ld, LoadDepth)
                 /\ LoadCycle({i})
                 /\ UNCHANGED <<st, aw, owed, stores, mem, cleared>>
              \/ /\ ~is_load(i.op) /\ ~vinsn_queue_full(st, StoreDepth)
                 /\ StoreCycle({i})
                 /\ UNCHANGED <<ld, ar, slot, final_gnt, vrf>>
    /\ issued' = issued + 1
    /\ UNCHANGED <<prog, failed>>

quiet_units == <<prog, issued, ld, st, beat, owed, masks, stores, slot, final_gnt,
                 vrf, mem, done, cleared>>

\* Ara does not support misaligned accesses: answer with an error.
Misaligned ==
    /\ ag.state = "ADDRGEN" /\ ag.axi = "AXI_ADDRGEN_IDLE"
    /\ is_addr_error(ag.insn.addr, ag.insn.sew)
    /\ ag' = [ag EXCEPT !.state = "IDLE"]
    /\ failed' = failed \cup {ag.insn.id}
    /\ UNCHANGED <<quiet_units, cmd, ar, aw, idxs>>

\* Mutant: all beats are as wide as the bus.
Narrow_Never(insn) == FALSE

\* A store whose address is not aligned with the bus uses narrower beats.
Narrow(insn) == insn.addr % AxiBytes # 0 /\ ~is_load(insn.op)

Pending(core_st_pending) ==
    IF core_st_pending THEN "AXI_ADDRGEN_WAITING" ELSE "AXI_ADDRGEN_REQUESTING"

AxiIdle ==
    /\ ag.axi = "AXI_ADDRGEN_IDLE"
    /\ \/ ag.state = "ADDRGEN" /\ ~is_addr_error(ag.insn.addr, ag.insn.sew)
       \/ ag.state = "ADDRGEN_IDX_OP"
    /\ LET i == ag.insn
       IN  \E core_st_pending \in BOOLEAN :
             ag' = [ag EXCEPT !.addr = i.addr, !.len = i.vl,
                              !.axi = IF Narrow(i) THEN "AXI_ADDRGEN_MISALIGNED"
                                      ELSE Pending(core_st_pending),
                              !.width = IF Narrow(i) THEN NarrowWidth(i.addr) ELSE AxiBytes,
                              !.stretch = Stretch(i.addr, VectorBytes(i), AxiBytes)]
    /\ UNCHANGED <<quiet_units, cmd, ar, aw, idxs, failed>>

AxiMisaligned ==
    /\ ag.axi = "AXI_ADDRGEN_MISALIGNED"
    /\ \E core_st_pending \in BOOLEAN :
          ag' = [ag EXCEPT !.axi = Pending(core_st_pending),
                           !.stretch = Stretch(ag.addr, VectorBytes(ag.insn), ag.width)]
    /\ UNCHANGED <<quiet_units, cmd, ar, aw, idxs, failed>>

\* CVA6 has stores on the way to memory: wait for them.
AxiWaiting ==
    /\ ag.axi = "AXI_ADDRGEN_WAITING"
    /\ ag' = [ag EXCEPT !.axi = "AXI_ADDRGEN_REQUESTING"]
    /\ UNCHANGED <<quiet_units, cmd, ar, aw, idxs, failed>>

\* The next index word of the lanes, element by element, into the spill register.
NextIndex ==
    /\ ag.state = "ADDRGEN_IDX_OP"
    /\ idxs # <<>> /\ Len(ag.spill) < 2
    /\ LET last == ag.elm = VrfBytes \div ag.insn.isz - 1
           e    == Head(idxs).no * (VrfBytes \div ag.insn.isz) + ag.elm + 1
           cnt  == ag.cnt - 1
       IN  /\ ag' = [ag EXCEPT !.spill = Append(@, ag.insn.addr + prog[Head(idxs).insn].idx[e]),
                               !.elm = IF last THEN 0 ELSE @ + 1,
                               !.cnt = cnt]
           /\ idxs' = IF last \/ cnt = 0 THEN Tail(idxs) ELSE idxs
    /\ UNCHANGED <<quiet_units, cmd, ar, aw, failed>>

\* Before a transaction on a different channel, the former ones are waited for.
MayRequest ==
    /\ ag.axi = "AXI_ADDRGEN_REQUESTING"
    /\ Len(cmd) < CmdDepth
    /\ cmd # <<>> => Head(cmd).is_load = is_load(ag.insn.op)

\* A burst goes out to memory, and a command for it to the units.  (Whose burst
\* it is, nobody in the system is told.)
Request(addr, size, len) ==
    LET b == [addr |-> addr, size |-> size, len |-> len, is_load |-> is_load(ag.insn.op),
              insn |-> ag.insn.id]
    IN  /\ cmd' = Append(cmd, b)
        /\ ar' = IF b.is_load THEN Append(ar, b) ELSE ar
        /\ aw' = IF b.is_load THEN aw ELSE Append(aw, b)

\* All requests are made: acknowledge the instruction.
Finished(g) ==
    IF g.len # 0 /\ ~g.error THEN g
    ELSE [g EXCEPT !.axi = "AXI_ADDRGEN_IDLE",
                   !.state = IF @ = "ADDRGEN_IDX_OP" THEN "ADDRGEN_IDX_OP_END" ELSE "IDLE"]

\* Unit-stride access: one burst of the current stretch of memory.
RequestBurst ==
    /\ MayRequest /\ ag.insn.op \in UnitStride
    /\ Request(ag.addr, ag.width, Beats(ag.stretch, ag.width) - 1)
    /\ LET left == Floor0(ag.len - (ag.stretch.end - ag.addr + 1) \div ag.insn.sew)
       IN  ag' = Finished([ag EXCEPT !.len = left, !.addr = ag.stretch.next,
                                     !.stretch = Stretch(ag.stretch.next, left * ag.insn.sew,
                                                         ag.width)])
    /\ UNCHANGED <<quiet_units, idxs, failed>>

\* Strided access: one element.
RequestStrided ==
    /\ MayRequest /\ ag.insn.op \notin UnitStride /\ ag.state # "ADDRGEN_IDX_OP"
    /\ Request(ag.addr, ag.insn.sew, 0)
    /\ ag' = Finished([ag EXCEPT !.len = @ - 1, !.addr = @ + ag.insn.stride])
    /\ UNCHANGED <<quiet_units, idxs, failed>>

\* Indexed access: one element, at the address in the spill register.
RequestIndexed ==
    /\ MayRequest /\ ag.state = "ADDRGEN_IDX_OP" /\ ag.spill # <<>>
    /\ Request(Head(ag.spill), ag.insn.sew, 0)
    /\ ag' = Finished([ag EXCEPT !.len = @ - 1, !.spill = Tail(@),
                                 !.error = is_addr_error(Head(ag.spill), ag.insn.sew)])
    /\ UNCHANGED <<quiet_units, idxs, failed>>

IndexedEnd ==
    /\ ag.state = "ADDRGEN_IDX_OP_END"
    /\ ag' = [ag EXCEPT !.state = "IDLE", !.elm = 0, !.error = FALSE]
    /\ failed' = IF ag.error THEN failed \cup {ag.insn.id} ELSE failed
    /\ UNCHANGED <<quiet_units, cmd, ar, aw, idxs>>

AddressGenerator ==
    \/ Misaligned \/ AxiIdle \/ AxiMisaligned \/ AxiWaiting \/ NextIndex
    \/ RequestBurst \/ RequestStrided \/ RequestIndexed \/ IndexedEnd

-----------------------------------------------------------------------------
Next == Issue \/ AddressGenerator \/ LoadUnit \/ StoreUnit

Spec == Init /\ [][Next]_vars

\* While some part can do something, some part does.  That is all it takes: no
\* part ever undoes what it did, so that every step brings the program nearer to
\* its end.
FairSpec == Spec /\ WF_vars(Next)

-----------------------------------------------------------------------------
Bytes(i) == 0..(VectorBytes(prog[i]) - 1)

TypeOK ==
    /\ issued \in 0..Len(prog)
    /\ Len(cmd) <= CmdDepth /\ Len(ag.spill) <= 2
    /\ Len(ld.vinsn) <= LoadDepth /\ ld.issue_cnt \in 0..Len(ld.vinsn)
    /\ Len(st.vinsn) <= StoreDepth /\ st.issue_cnt \in 0..Len(st.vinsn)
    /\ Len(ld.result_queue) <= ResultQueueDepth
    /\ ld.r_pnt < AxiBytes /\ ld.vrf_pnt < VrfBytes /\ st.vrf_pnt < VrfBytes
    /\ done \subseteq 1..issued /\ failed \subseteq 1..issued

\* Every byte the load unit writes is the one its element has in memory,
\* whatever the alignment, the stride and the splitting into bursts and words,
\* and is written under its own mask bit (p_vldu, p_addr_generation).
LoadedFromItsAddress ==
    \A x \in vrf : /\ x.from = ByteAddr(prog[x.insn], x.at)
                   /\ x.mask = MaskOf(prog[x.insn], x.at)

\* Every byte of a store reaches memory at the address of its element, under
\* its own mask bit (p_vstu).
StoredAtItsAddress ==
    \A x \in mem : /\ x.addr = ByteAddr(prog[x.insn], x.at)
                   /\ x.mask = MaskOf(prog[x.insn], x.at)

\* The commands are the bursts memory works on, and the units stand at the beat
\* memory stands at: neither side counts a beat the other does not.
InStepWithMemory ==
    /\ cmd = ar \o aw
    /\ cmd # <<>> => IF Head(cmd).is_load THEN ld.len = beat.ar ELSE st.len = beat.aw
    /\ ar = <<>> \/ ld.len = 0 \/ cmd # <<>>

\* The first command is for the instruction the unit is about to issue.  The
\* units do not check this: a beat has no name on it.
BeatsForTheirInsn ==
    cmd # <<>> => LET u == IF Head(cmd).is_load THEN ld ELSE st
                  IN  u.issue_cnt # 0 /\ Issued(u).id = Head(cmd).insn

\* No burst leaves its page or is longer than AXI allows.
BurstsInPage ==
    \A b \in {cmd[n] : n \in DOMAIN cmd} :
        /\ b.len \in 0..(MaxBeats - 1)
        /\ Page(b.addr) = Page(BusAddr(b, b.len, beat_upper_byte(b, b.len)))

\* A load that is reported as done has all its bytes in the register file.
LoadedWhenDone ==
    \A i \in done : is_load(prog[i].op) =>
        Bytes(i) = {x.at : x \in {y \in vrf : y.insn = i}}

\* A load that is reported as done has handed all its bytes to the lanes.
HandedOverWhenDone ==
    \A i \in done : is_load(prog[i].op) =>
        Bytes(i) = {x.at : x \in {y \in vrf : y.insn = i}} \cup
                   UNION {{x.at : x \in slot[l].bytes} :
                             l \in {m \in Lanes : slot[m] # None /\ slot[m].insn = i}}

\* A store that is reported as done has sent all its bytes.
SentWhenDone ==
    \A i \in done : ~is_load(prog[i].op) => Bytes(i) = {x.at : x \in cleared[i]}

\* A store that is reported as done has been acknowledged by memory.
AcknowledgedWhenDone ==
    \A n \in DOMAIN owed : owed[n] \notin done

\* Before a load asks memory for data, the stores before it are complete: so says
\* the comment at MayRequest.
StoresBeforeLoads == ar # <<>> => aw = <<>> /\ owed = <<>>

\* Every access that is broadcast is reported as done, or as an error.
EveryAccessFinishes ==
    \A i \in UNION {DOMAIN p : p \in Programs} : i <= issued ~> i \in done \cup failed

\* When all instructions are done nothing is left over for the next one: no
\* command, no word, no position within a burst or a word.
NothingLeftOver ==
    (issued = Len(prog) /\ done = DOMAIN prog /\ ag.state = "IDLE") =>
        /\ cmd = <<>> /\ masks = <<>> /\ stores = <<>> /\ idxs = <<>>
        /\ ag.spill = <<>> /\ ag.elm = 0
        /\ ld.len = 0 /\ ld.r_pnt = 0 /\ ld.vrf_pnt = 0 /\ ld.result_queue = <<>>
        /\ st.len = 0 /\ st.vrf_pnt = 0

-----------------------------------------------------------------------------
(***************************************************************************)
(* What the runs check: the properties above, by subject.                  *)
(***************************************************************************)

\* Queues, positions and bursts keep their limits.
WithinBounds == TypeOK /\ BurstsInPage

\* Loads and stores move every byte between its element and its address.
BytesInPlace == LoadedFromItsAddress /\ StoredAtItsAddress

\* Commands, beats and instructions are counted off alike by the address
\* generator, the units and memory.
CountedAlike == InStepWithMemory /\ BeatsForTheirInsn

\* What is reported as done has moved all its bytes, and leaves nothing behind.
CompleteWhenDone == HandedOverWhenDone /\ SentWhenDone /\ NothingLeftOver
=============================================================================
