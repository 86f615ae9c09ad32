------------------------------- MODULE AraPkg -------------------------------
(***************************************************************************)
(* Vocabulary shared by the models of Ara's backend: the classes of        *)
(* operations the sequencer tells apart, the vector functional units that  *)
(* execute them, and the processing elements that report their completion. *)
(*                                                                         *)
(* The enumeration ara_op_e has some 170 members; the sequencer only looks *)
(* at which of its intervals an operation falls in, so an operation is one *)
(* of the twelve classes below.  Operand widths, scalars, strides and      *)
(* vector lengths do not take part in issue and are left out.              *)
(***************************************************************************)
EXTENDS Integers, FiniteSets

CONSTANTS
    NrLanes,          \* number of parallel lanes
    NrVInsn,          \* number of vector instructions in flight
    Regs,             \* the architectural vector registers that are modelled
    InsnQueueDepth    \* depth of the instruction queue of each functional unit

VFUs == {"Alu", "MFpu", "SlideUnit", "MaskUnit", "LoadUnit", "StoreUnit", "None"}

\* Masks are always taken from v0.
VMASK == 0

\* Width of the counters of the instruction queues: idx_width(4 + 1) bits.
CounterRange == 8

ASSUME LanesAssumption == NrLanes \in Nat \ {0}
ASSUME VInsnAssumption == NrVInsn \in Nat \ {0}
ASSUME RegsAssumption == Regs \subseteq 0..31 /\ VMASK \in Regs
ASSUME DepthAssumption ==
    /\ InsnQueueDepth \in [VFUs -> 1..(CounterRange - 2)]
    /\ InsnQueueDepth["MaskUnit"] = 1

Ids == 0..(NrVInsn - 1)
NoId == NrVInsn
Lanes == 0..(NrLanes - 1)

\* The four units next to the lanes, at their offsets in the vector of PEs.
OffsetLoad == NrLanes
OffsetStore == NrLanes + 1
OffsetMask == NrLanes + 2
OffsetSlide == NrLanes + 3
PEs == 0..(NrLanes + 3)

(***************************************************************************)
(* Classes of operations, with the interval of ara_op_e each one stands    *)
(* for:  alu VADD..VFMVSF, alured VREDSUM..VWREDSUM, fpu VMUL..VFCVTFF,    *)
(* fpured VFREDUSUM..VFWREDOSUM, maskfpu VMFEQ..VMFGE, maskalu             *)
(* VMSEQ..VMXNOR without VCPOP and VFIRST, which are maskscalar, scalar    *)
(* VMVXS..VFMVFS, and the slides, loads and stores.                        *)
(***************************************************************************)
Ops == {"alu", "alured", "fpu", "fpured", "maskalu", "maskfpu", "maskscalar",
        "scalar", "slideup", "slidedown", "load", "store"}

is_load(op) == op = "load"
is_store(op) == op = "store"
vd_scalar(op) == op = "maskscalar"
is_reduction(op) == op \in {"alured", "fpured"}

\* The functional unit responsible for an operation.
vfu(op) ==
    CASE op \in {"alu", "alured"}                      -> "Alu"
      [] op \in {"fpu", "fpured"}                      -> "MFpu"
      [] op \in {"maskalu", "maskfpu", "maskscalar"}   -> "MaskUnit"
      [] op = "load"                                   -> "LoadUnit"
      [] op = "store"                                  -> "StoreUnit"
      [] op \in {"slideup", "slidedown"}               -> "SlideUnit"
      [] OTHER                                         -> "None"

\* The functional unit of the lanes an operation passes through, if any.
LaneVfu(op) ==
    CASE op \in {"alu", "alured", "maskalu", "maskscalar"} -> {"Alu"}
      [] op \in {"fpu", "fpured", "maskfpu"}               -> {"MFpu"}
      [] OTHER                                             -> {}

(***************************************************************************)
(* An instruction, as the dispatcher requests it.  NoReg in a register     *)
(* field stands for the use_ bit of that field being low; vm is low for a  *)
(* masked instruction; use_vd_op says that vd is also a source.            *)
(***************************************************************************)
NoReg == 32

Insns == [op : Ops, vs1 : Regs \cup {NoReg}, vs2 : Regs \cup {NoReg},
          vd : Regs \cup {NoReg}, vm : BOOLEAN, use_vd_op : BOOLEAN]

use_vd(r) == r.vd # NoReg
Reads(r) == ({r.vs1, r.vs2} \ {NoReg}) \cup (IF r.vm THEN {} ELSE {VMASK})
Writes(r) == {r.vd} \ {NoReg}

\* Every functional unit an instruction occupies a queue slot of.
target_vfus(r) ==
    LaneVfu(r.op)
      \cup (IF is_reduction(r.op) THEN {"SlideUnit"} ELSE {vfu(r.op)})
      \cup (IF r.vm THEN {} ELSE {"MaskUnit"})

(***************************************************************************)
(* The instruction queues of the machine: one per lane for each functional *)
(* unit of the lanes, one for each of the other units.                     *)
(***************************************************************************)
LaneUnits == Lanes \X {"Alu", "MFpu"}
SharedUnits == {<<OffsetLoad, "LoadUnit">>, <<OffsetStore, "StoreUnit">>,
                <<OffsetMask, "MaskUnit">>, <<OffsetSlide, "SlideUnit">>}
Units == LaneUnits \cup SharedUnits

\* The queues an instruction enters.
UnitsOf(r) == {u \in Units : u[2] \in target_vfus(r)}

\* The queue a counter of the sequencer follows: lane 0 speaks for the lanes.
CountedUnits(v) == {u \in Units : u[2] = v /\ u[1] \notin Lanes \ {0}}

\* The processing elements an instruction is marked as running on.
RunsOn(r) ==
    (CASE vfu(r.op) \in {"Alu", "MFpu"} -> Lanes
       [] vfu(r.op) = "LoadUnit"        -> {OffsetLoad}
       [] vfu(r.op) = "StoreUnit"       -> {OffsetStore}
       [] vfu(r.op) = "MaskUnit"        -> {OffsetMask}
       [] vfu(r.op) = "SlideUnit"       -> {OffsetSlide}
       [] OTHER                         -> {})
      \cup (IF r.vm THEN {} ELSE {OffsetMask})
=============================================================================
