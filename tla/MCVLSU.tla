------------------------------- MODULE MCVLSU -------------------------------
EXTENDS VLSU

\* An access to vl elements of sew bytes.
Access(op, addr, vl, sew) ==
    [op |-> op, addr |-> addr, vl |-> vl, sew |-> sew, stride |-> 0, idx |-> <<>>,
     isz |-> 1, masked |-> FALSE, id |-> 0]
Strided(op, addr, vl, sew, stride) == [Access(op, addr, vl, sew) EXCEPT !.stride = stride]
Gather(op, addr, sew, idx) == [Access(op, addr, Len(idx), sew) EXCEPT !.idx = idx]
Masked(i) == [i EXCEPT !.masked = TRUE]

Program(p) == [i \in DOMAIN p |-> [p[i] EXCEPT !.id = i]]

\* Pages of 16 bytes, beats of 4, words of 8, bursts of up to 4 beats.
MixedPrograms == {Program(p) : p \in {
    \* two loads, misaligned to the bus and over a page border
    <<Access("VLE", 7, 13, 1), Access("VLE", 12, 3, 4)>>,
    \* aligned and misaligned stores, over a page border
    <<Access("VSE", 8, 3, 4), Access("VSE", 10, 5, 2), Access("VSE", 3, 2, 1)>>,
    \* a load, a store and a load
    <<Access("VLE", 1, 3, 1), Access("VSE", 14, 5, 1), Access("VLE", 16, 5, 2)>>,
    \* masked: a store between two loads
    <<Masked(Access("VLE", 0, 9, 1)), Masked(Access("VSE", 2, 5, 2)), Masked(Access("VLE", 16, 3, 4))>>,
    \* masked and unmasked ones
    <<Masked(Access("VSE", 0, 9, 1)), Access("VLE", 8, 3, 2), Masked(Access("VLE", 6, 5, 2))>>,
    \* strides: backwards, none
    <<Strided("VLSE", 20, 3, 4, -8), Strided("VSSE", 6, 5, 2, 6), Strided("VLSE", 5, 2, 1, 0)>>,
    \* gather and scatter
    <<Gather("VLXE", 4, 4, <<8, 0, 4>>), Gather("VSXE", 1, 1, <<2, 7, 0, 5, 3, 9, 14, 30, 1>>)>>,
    <<Gather("VSXE", 0, 2, <<6, 0>>), Access("VLE", 14, 5, 1), Gather("VLXE", 3, 1, <<1, 0, 1>>)>>,
    \* ending with a misaligned base address, and with a misaligned element
    <<Access("VSE", 4, 3, 1), Access("VLE", 5, 2, 2)>>,
    <<Access("VLE", 4, 3, 1), Gather("VSXE", 4, 2, <<6, 3, 0>>)>>}}

\* Every alignment of an access of one to three words, and of up to two pages.
EveryAlignment == {Program(<<Access(op, sew * n, vl, sew)>>) :
    op \in {"VLE", "VSE"}, n \in 0..15, vl \in {1, 3, 8, 9}, sew \in {1, 2}}
AllPrograms == MixedPrograms \cup EveryAlignment

\* Two words to load.
LongLoad == {Program(<<Access("VLE", 0, 16, 1)>>)}
\* As many stores as the store unit holds.
ManyStores == {Program(<<Access("VSE", 0, 2, 1), Access("VSE", 4, 2, 1)>>)}
\* A store of two bursts.
LongStore == {Program(<<Access("VSE", 12, 2, 4)>>)}
\* A load from a misaligned address, and another load.
OddLoads == {Program(<<Access("VLE", 1, 2, 2), Access("VLE", 4, 2, 2)>>)}
\* A masked load with a burst of the greatest length.
LongMasked == {Program(<<Masked(Access("VLE", 0, 16, 1))>>)}
\* A misaligned load that takes a beat more than the longest burst has.
BeatTooMany == {Program(<<Access("VLE", 2, 15, 1)>>)}
\* A longest burst that begins amid a word: its first beat straddles two.
LongAmidWord == {Program(<<Access("VLE", 27, 21, 1)>>)}
\* A store, and a load of what was stored.
StoreAndLoad == {Program(<<Access("VSE", 0, 2, 1), Access("VLE", 0, 2, 1)>>)}
=============================================================================
