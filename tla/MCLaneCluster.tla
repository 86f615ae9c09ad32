---------------------------- MODULE MCLaneCluster ---------------------------
EXTENDS LaneCluster

\* The elements of a word in the ALUs' instructions.
WordElements == 2

\* Instructions; ew is the number of elements in a word.
Insn(op, ew, vl) == [op |-> op, ew |-> ew, vl |-> vl, off |-> {}]
Add(vl) == Insn("VADD", WordElements, vl)
Sum(vl) == Insn("VREDSUM", WordElements, vl)
With(insn, off) == [insn EXCEPT !.off = off]

\* Reductions.  Two lanes: a short and a long one, between and after ordinary
\* instructions; one lane without elements.  Four lanes: the tree.
ReductionPrograms ==
    {[lanes |-> 2, prompt |-> FALSE, insns |-> p] : p \in {
        <<Add(6), Add(1), Sum(1)>>, <<Sum(5), Add(3), Add(1)>>, <<Sum(2), Sum(6), Add(10)>>,
        <<Add(9), Add(6), Add(1)>>, <<Add(1), Sum(9), Add(4)>>}} \cup
    {[lanes |-> 4, prompt |-> FALSE, insns |-> p] : p \in {
        <<Sum(3), Sum(5)>>, <<Sum(9), Add(3)>>, <<Add(2), Sum(6)>>}}

\* The multiplier and floating-point unit, in one lane.
One(prompt, p) == [lanes |-> 1, prompt |-> prompt, insns |-> p]
Mul(ew, vl) == Insn("VMUL", ew, vl)
Div(ew, vl) == Insn("VDIV", ew, vl)
FAdd(ew, vl) == Insn("VFADD", ew, vl)
FMin(ew, vl) == Insn("VFMIN", ew, vl)
Narrow(ew, vl) == Insn("VFNCVT", ew, vl)

\* Results held back by the register file, and results taken at once.  All units,
\* one after the other and a faster one behind a slower one; all widths; elements
\* that are masked off; results in halves.
MfpuPrograms ==
    {One(FALSE, p) : p \in {
        <<Mul(1, 3), With(Mul(1, 2), {1}), FAdd(1, 2)>>, <<Div(2, 5), Mul(2, 3)>>,
        <<FAdd(2, 5), FMin(2, 3)>>, <<Narrow(2, 5), With(Narrow(2, 2), {0})>>}} \cup
    {One(TRUE, p) : p \in {
        <<Mul(2, 4), Mul(1, 2), FAdd(4, 5)>>, <<With(Div(2, 8), {0, 3, 4, 5}), FAdd(1, 1)>>,
        <<FAdd(2, 3), FAdd(1, 3), FMin(1, 2)>>, <<Mul(2, 3), With(Div(1, 3), {1, 2})>>}}

\* Slides: by less than a row and by more, up and down, with a scalar.
Slide(op, ew, vl, amount, scalar) ==
    Insn(op, ew, vl) @@ [stride |-> amount, use_scalar_op |-> scalar]
Up(ew, vl, amount) == Slide("VSLIDEUP", ew, vl, amount, FALSE)
Down(ew, vl, amount) == Slide("VSLIDEDOWN", ew, vl, amount, FALSE)
Up1(ew, vl) == Slide("VSLIDEUP", ew, vl, 1, TRUE)
Down1(ew, vl) == Slide("VSLIDEDOWN", ew, vl, 1, TRUE)
Slides(lanes, prompt, p) == [lanes |-> lanes, prompt |-> prompt, insns |-> p]

\* Results held back: slides of a row, among themselves and with reductions.  Results
\* taken at once: rows into other rows, and turns, alone and between other slides.
SlidePrograms ==
    {Slides(2, FALSE, p) : p \in {
        <<Up(2, 4, 1), Down(2, 4, 2)>>, <<Down1(2, 4), Sum(2)>>, <<Add(3), Up1(2, 3)>>,
        <<Down(1, 2, 1), Up(4, 7, 2), Down1(2, 3)>>}} \cup
    {Slides(2, TRUE, p) : p \in {
        <<Up(2, 8, 3), Down(2, 6, 1)>>, <<Up1(1, 5), Down1(2, 7), Down(1, 4, 5)>>,
        <<Sum(3), Up(1, 5, 2), Down(4, 9, 6)>>, <<Down(2, 12, 1), Up(2, 16, 4), Sum(5)>>}} \cup
    {Slides(4, TRUE, p) : p \in {<<Up(2, 12, 3)>>, <<Down(1, 7, 6)>>}}

\* Masks.  Results for the mask register: comparisons of both units, of one and of
\* several chunks, under a mask, and operations on masks, between others.  Operations
\* of both units under a mask, one behind the other.
MaskedBy(insn) == With(insn, {e \in 0..(insn.vl - 1) : e % 3 = 1})
EqualInts(ew, vl) == Insn("VMSEQ", ew, vl)
EqualFloats(ew, vl) == Insn("VMFEQ", ew, vl)
And(vl) == Insn("VMAND", WordElements, vl)
MaskPrograms ==
    {Slides(2, TRUE, p) : p \in {
        <<EqualInts(2, 7), Add(1), EqualFloats(1, 5)>>, <<MaskedBy(EqualInts(1, 6)), And(6)>>,
        <<EqualFloats(2, 11), MaskedBy(EqualFloats(2, 4))>>, <<And(18), EqualInts(2, 3)>>,
        <<EqualInts(1, 17), MaskedBy(Add(2))>>, <<MaskedBy(Add(5)), MaskedBy(FAdd(1, 3))>>,
        <<MaskedBy(Mul(2, 10)), MaskedBy(Div(1, 2))>>}} \cup
    {Slides(4, TRUE, <<EqualInts(2, 6)>>)} \cup
    {Slides(2, FALSE, p) : p \in {
        <<EqualInts(2, 4), EqualFloats(1, 2)>>, <<MaskedBy(EqualInts(2, 8))>>, <<MaskedBy(Add(5))>>}}

ClusterPrograms == ReductionPrograms \cup MfpuPrograms \cup SlidePrograms \cup MaskPrograms

\* A comparison behind an addition, both of one width.
Compare == {One(TRUE, <<FAdd(1, 1), Insn("VMFEQ", 1, 1)>>)}
\* A third instruction, faster than the second but not than the first.
Third == {One(TRUE, <<Insn("VFCVT", 1, 1), FAdd(1, 1), FAdd(4, 1)>>)}
\* A division whose first word is masked off, behind an addition.
DivBehind == {One(TRUE, <<FAdd(1, 1), With(Div(1, 2), {0})>>)}
\* Multiplications of two widths, with results held back.
MulWidths == {One(FALSE, <<Mul(2, 6), Mul(1, 2)>>)}
\* Reciprocals, additions of two widths, and divisions, with results held back.
Recip == {One(FALSE, <<Insn("VFREC7", 1, 4)>>)}
TwoFAdd == {One(FALSE, <<FAdd(2, 8), FAdd(1, 1)>>)}
LongDiv == {One(FALSE, <<Div(1, 5)>>)}

\* Slides for the records.  A row behind the last element; rows of which the last
\* is held back; an offset that takes a row more; a scalar in a row of its own, down
\* and, waiting for its turn, up; several turns behind another slide, with lanes that
\* are not in step, and by an amount of which the low bits are zero.
TailRow == {Slides(2, TRUE, <<Down(1, 3, 0)>>)}
HeldRows == {Slides(2, FALSE, <<Down(2, 8, 0)>>)}
ExtraRow == {Slides(2, TRUE, <<Up(2, 5, 1)>>)}
ScalarRow == {Slides(2, TRUE, <<Down1(2, 5)>>)}
ScalarBehind == {Slides(2, TRUE, <<Down(2, 4, 0), Up1(2, 5)>>)}
TurnsBehind == {Slides(2, TRUE, <<Down(2, 6, 1), Down(1, 4, 3)>>)}
TurnsApart == {Slides(2, FALSE, <<Down(1, 2, 3)>>)}
NoTurns == {Slides(2, TRUE, <<Down(1, 4, 48)>>)}

\* Masks for the records.  Comparisons of fewer elements than lanes; under a mask, of
\* elements that do not fill the last row, and of more than a chunk; of two chunks, with
\* results held back, and with elements behind the last; bits held back.  An operation
\* on masks with a bit in the last word.  Masks for two units at a time.
FewCompared == {Slides(2, TRUE, <<EqualInts(2, 1), Add(4)>>)}
OddCompared == {Slides(2, TRUE, <<MaskedBy(EqualInts(2, 5))>>)}
LongCompared == {Slides(2, TRUE, <<MaskedBy(EqualInts(2, 10))>>)}
TwoChunks == {Slides(2, FALSE, <<EqualInts(2, 12)>>)}
BitsBehind == {Slides(2, TRUE, <<EqualInts(2, 11)>>)}
BitsHeld == {Slides(2, TRUE, <<With(EqualInts(2, 4), {1})>>)}
OneBitMore == {Slides(2, TRUE, <<And(9)>>)}
TwoMasks == {Slides(2, TRUE, <<MaskedBy(Add(5)), MaskedBy(Mul(1, 3))>>)}

\* An addition, and a reduction behind it.
AddThenSum == {[lanes |-> 2, prompt |-> FALSE, insns |-> <<Add(2), Sum(4)>>]}
SumThenSum == {[lanes |-> 2, prompt |-> FALSE, insns |-> <<Sum(4), Sum(4)>>]}
SumThenAdd == {[lanes |-> 2, prompt |-> FALSE, insns |-> <<Sum(2), Add(2)>>]}
OneSum == {[lanes |-> 2, prompt |-> FALSE, insns |-> <<Sum(2)>>]}
=============================================================================
