------------------------- MODULE MCOperandRequester -------------------------
(***************************************************************************)
(* Programs for the lane.  The operand after the unit names the source     *)
(* registers, then the destination, the result words and the rate.         *)
(***************************************************************************)
EXTENDS OperandRequester

Alu(a, b, d, w, rate) ==
    [fu |-> "Alu", src |-> [q \in {"AluA", "AluB"} |-> IF q = "AluA" THEN a ELSE b],
     vd |-> d, out |-> w, rate |-> rate]
Mul(a, d, w, rate) ==
    [fu |-> "MFpu", src |-> [q \in {"MulFPUB"} |-> a], vd |-> d, out |-> w,
     rate |-> rate]
Load(d, w) ==
    [fu |-> "LoadUnit", src |-> [q \in {} |-> 0], vd |-> d, out |-> w,
     rate |-> "same"]
Store(a, w) ==
    [fu |-> "StoreUnit", src |-> [q \in {"StA"} |-> a], vd |-> NoReg, out |-> w,
     rate |-> "same"]

\* Every kind of dependency between two units, alone and together.
Chains ==
    { <<Alu(0, 1, 2, 3, "same"), Mul(2, 0, 3, "same")>>,                 \* RAW, WAR
      <<Load(0, 3), Alu(0, 1, 2, 3, "same"), Mul(1, 0, 3, "same")>>,     \* RAW, WAR, WAW
      <<Load(0, 3), Mul(1, 0, 3, "same"), Store(0, 3)>>,                 \* WAW, RAW
      <<Mul(0, 1, 3, "same"), Alu(1, 1, 1, 3, "same")>>,                 \* all three
      <<Store(0, 2), Load(0, 2), Mul(0, 1, 2, "same")>>,                 \* WAR, RAW
      <<Load(0, 2), Alu(0, 0, 1, 4, "wide"), Mul(1, 2, 4, "same")>>,     \* RAW on both sides
      <<Load(0, 4), Alu(0, 0, 1, 2, "narrow"), Mul(2, 0, 4, "same")>>,   \* RAW, WAR
      <<Load(1, 2), Alu(0, 0, 1, 2, "narrow"), Mul(1, 0, 2, "same")>>,   \* WAW, RAW, WAR
      <<Mul(0, 1, 0, "same"), Mul(1, 2, 2, "same"), Alu(2, 2, 1, 2, "same")>> }

\* A widening instruction, paced by a load, whose source is overwritten.
OverwrittenSource ==
    {<<Load(2, 4), Alu(0, 1, 2, 4, "wide"), Mul(3, 1, 2, "same")>>}

\* A widening instruction that writes what a load writes.
WideningAfterLoad == {<<Load(0, 4), Mul(1, 0, 4, "wide")>>}

\* A short instruction between two long ones with the same destination.
ShortBetweenLong ==
    {<<Load(0, 3), Alu(1, 1, 0, 1, "same"), Mul(1, 0, 3, "same")>>}

\* An instruction without elements in this lane, between two that have some.
EmptyBetween ==
    {<<Mul(1, 2, 3, "same"), Mul(1, 0, 0, "same"), Mul(3, 0, 2, "same")>>}
=============================================================================
