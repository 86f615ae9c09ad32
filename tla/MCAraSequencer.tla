--------------------------- MODULE MCAraSequencer ---------------------------
(***************************************************************************)
(* Instances of the sequencer for TLC.  Registers 0 (the mask register) and *)
(* 1; the mask unit's queue has one place, as in ara_pkg, and the others two  *)
(* (ara_pkg: two for the slide unit, four for the rest).                   *)
(***************************************************************************)
EXTENDS AraSequencer

Insn(op, vs1, vs2, vd, vm, vd_op) ==
    [op |-> op, vs1 |-> vs1, vs2 |-> vs2, vd |-> vd, vm |-> vm,
     use_vd_op |-> vd_op]

MCDepth == [v \in VFUs |-> IF v \in {"MaskUnit", "None"} THEN 1 ELSE 2]

\* Arithmetic, masked and mask instructions, scalar moves and loads, which wait
\* for an answer, with every kind of dependency through two registers.
MixRequests ==
    {Insn("alu", NoReg, 1, 1, FALSE, FALSE),
     Insn("fpu", 1, NoReg, 0, TRUE, FALSE),
     Insn("maskalu", NoReg, 1, 0, TRUE, TRUE),
     Insn("scalar", NoReg, 1, NoReg, TRUE, FALSE),
     Insn("load", NoReg, NoReg, 1, TRUE, FALSE)}

\* Instructions that occupy two queues at once: reductions the slide unit's,
\* masked ones the mask unit's.
QueueRequests ==
    {Insn("alu", NoReg, 1, 1, FALSE, FALSE),
     Insn("alured", 1, NoReg, 1, TRUE, TRUE),
     Insn("alu", NoReg, NoReg, 1, TRUE, TRUE),
     Insn("slidedown", NoReg, 1, 0, TRUE, FALSE)}

\* Mask instructions, which use the lanes and the MaskB operand queue, with
\* scalar moves and a load, which wait for an answer.
MaskRequests ==
    {Insn("maskalu", NoReg, 1, 0, TRUE, TRUE),
     Insn("maskfpu", 0, 1, 0, FALSE, TRUE),
     Insn("maskscalar", NoReg, 0, NoReg, TRUE, FALSE),
     Insn("scalar", NoReg, 1, NoReg, TRUE, FALSE),
     Insn("load", NoReg, NoReg, 1, TRUE, FALSE)}

\* Readers and writers of a register, a store among them.
ReadRequests ==
    {Insn("alu", NoReg, 1, 1, TRUE, FALSE),
     Insn("fpu", 1, NoReg, 0, TRUE, FALSE),
     Insn("alu", NoReg, 1, 1, FALSE, FALSE),
     Insn("load", NoReg, NoReg, 1, TRUE, FALSE),
     Insn("store", 1, NoReg, NoReg, TRUE, FALSE)}

\* A store among mask instructions.
StoreRequests ==
    {Insn("maskalu", NoReg, 1, 0, TRUE, TRUE),
     Insn("store", 1, NoReg, NoReg, TRUE, FALSE)}

\* An in-lane instruction behind a mask instruction.
DesynchRequests ==
    {Insn("maskalu", NoReg, 1, 0, TRUE, TRUE),
     Insn("alu", NoReg, 1, 1, TRUE, FALSE)}

\* Instructions that fill the queues, wait for answers, and exchange partial
\* results, for liveness.
LiveRequests ==
    {Insn("alu", NoReg, 1, 1, FALSE, FALSE),
     Insn("alured", 1, NoReg, 1, TRUE, TRUE),
     Insn("load", NoReg, NoReg, 1, TRUE, FALSE),
     Insn("store", 1, NoReg, NoReg, TRUE, FALSE)}
=============================================================================
