---------------------------- MODULE MCDispatcher ----------------------------
(* Programs for the dispatcher: CVA6 offers the instructions of a set in    *)
(* any order.                                                               *)
EXTENDS Dispatcher

Set(e, m, n) == [kind |-> "config", sew |-> e, lmul |-> m, vl |-> n]
Op(k, d, a, b) == [kind |-> k, vd |-> d, vs1 |-> a, vs2 |-> b, sew |-> 0,
                   masked |-> FALSE]
Mem(k, d, a, e) == [kind |-> k, vd |-> d, vs1 |-> a, vs2 |-> NoReg, sew |-> e,
                    masked |-> FALSE]

\* Two widths, short and full vectors; no instruction names a register twice.
Widths == {Set(0, 0, 2), Set(0, 0, 4), Set(1, 0, 1), Set(1, 0, 2),
           Op("inlane", 2, 0, 1), Op("inlane", 0, 1, NoReg),
           Op("inlane", 1, NoReg, 2),
           Mem("load", 1, NoReg, 0),
           Mem("store", NoReg, 2, 0)}

\* Destinations twice as wide as the sources, and copies.
WideResults == {Set(0, 0, 4), Set(1, 0, 1), Op("widening", 2, 0, NoReg),
             Op("inlane", 3, NoReg, 2), Op("inlane", 0, NoReg, NoReg),
             Op("move", 0, 3, NoReg)}

\* A widening instruction although the elements are as wide as can be.
TooWide == {Set(1, 0, 2), Op("inlane", 0, NoReg, NoReg),
            Op("widening", 0, NoReg, NoReg)}

\* Groups of two registers and single ones, vectors without elements, every
\* way to be answered.
Answers == {Set(0, 1, 4), Set(0, 0, 2), Set(0, 0, 0), Set(1, 0, 0),
            Op("inlane", 0, NoReg, NoReg), Op("inlane", 1, 0, NoReg),
            Op("nullslide", 0, NoReg, NoReg), Op("scalar", NoReg, NoReg, 1),
            Mem("load", 0, NoReg, 0)}

\* Widening in floating point, illegal under the largest group.
TooLarge == {Set(0, 1, 4), Set(0, 1, 0), Op("fwidening", 0, NoReg, NoReg),
             Op("inlane", 0, NoReg, NoReg)}

\* An instruction that names its destination as a source too.
Accumulate == {Set(0, 0, 4), Set(1, 0, 1), Op("inlane", 1, NoReg, 1)}

\* An instruction that names one register as both sources.
Square == {Set(0, 0, 4), Set(1, 0, 2), Op("inlane", 1, NoReg, NoReg),
           Op("inlane", 2, 1, 1)}

\* A group of two registers whose second register needs the reshuffle.
Group2 == {Set(0, 0, 4), Set(1, 1, 3), Op("inlane", 1, NoReg, NoReg),
           Op("inlane", 0, NoReg, NoReg)}

\* A masked instruction over all elements of a register.
Masked == {Set(0, 0, 4), Set(1, 0, 2), Op("inlane", 1, NoReg, NoReg),
           [Op("inlane", 1, NoReg, NoReg) EXCEPT !.masked = TRUE]}

\* A slide by at least vl elements.
NullSlide == {Set(0, 0, 4), Set(1, 0, 2), Op("inlane", 1, NoReg, NoReg),
              Op("nullslide", 1, NoReg, NoReg)}

\* Instructions outside the lanes: a load by indices, a scalar move.
Outside == {Set(0, 0, 4), Set(1, 0, 2), Op("inlane", 1, NoReg, NoReg),
            Op("scalar", NoReg, NoReg, 1), Op("indexed", 2, NoReg, 1)}

\* A load into an odd register while groups have two.
OddLoad == {Set(0, 1, 4), Mem("load", 1, NoReg, 0), Op("inlane", 0, NoReg, NoReg)}

\* Vectors without elements, of two widths.
Empty == {Set(0, 0, 4), Set(1, 0, 0), Op("inlane", 1, NoReg, NoReg),
          Op("inlane", 2, 1, NoReg)}

\* A group of two registers after a single one.
Widened == {Set(0, 0, 4), Set(0, 1, 4), Op("inlane", 1, NoReg, NoReg),
            Op("inlane", 0, NoReg, NoReg)}

\* A result of two registers, and an instruction that reads the second.
UpperHalf == {Set(0, 0, 4), Op("widening", 0, NoReg, NoReg),
              Op("inlane", NoReg, 1, NoReg)}
\* The programs of the runs.
TwoWidths == {Widths, WideResults}
AllAnswers == {Answers, TooLarge}
AccumulateOnly == {Accumulate}
SquareOnly == {Square}
Group2Only == {Group2}
MaskedOnly == {Masked}
NullSlideOnly == {NullSlide}
OutsideOnly == {Outside}
OddLoadOnly == {OddLoad}
EmptyOnly == {Empty}
WidenedOnly == {Widened}
TooWideOnly == {TooWide}
UpperHalfOnly == {UpperHalf}
=============================================================================
