----------------------------- MODULE ByteLayout -----------------------------
(***************************************************************************)
(* How the bytes of a vector register are spread over the lanes.           *)
(*                                                                         *)
(* A word of the register file has eight bytes in every lane.  Element k   *)
(* lies in lane k % NrLanes whatever its width, and within the lane the     *)
(* elements are ordered so that an element of one width takes the place of *)
(* the two elements of half the width it would be made of.  So the order   *)
(* of the bytes depends on the width.                                      *)
(*                                                                         *)
(* The load unit, the lanes and the slide unit each write words, and find  *)
(* the bytes in their own way.  The module has them write the bytes        *)
(* 0, 1, 2... of one word, every byte standing for itself, and notes the   *)
(* width the word is ordered by under the rules of module Dispatcher.      *)
(* Widths are exponents: a width of e is an element of 2^e bytes.          *)
(***************************************************************************)
EXTENDS Integers

CONSTANT NrLanes

ASSUME LanesAssumption == NrLanes \in Nat \ {0}

Widths == 0..3
Lanes == 0..(NrLanes - 1)
Offsets == 0..7                       \* the bytes of a lane
Bytes == 0..(8 * NrLanes - 1)         \* a place in the word, or a byte's number
Elements(e) == (8 * NrLanes) \div 2^e

Unwritten == -1
Mixed == -2
Untouched == -1                       \* the content of a place never written

(***************************************************************************)
(* Byte b of the vector, counted in memory order, is part of element k.    *)
(* The elements of a lane are placed in the order of their reversed bits.  *)
(***************************************************************************)
Reversed == << <<0, 4, 2, 6, 1, 5, 3, 7>>, <<0, 2, 1, 3>>, <<0, 1>>, <<0>> >>

shuffle_index(b, e) ==
    LET k == b \div 2^e
        place == Reversed[e + 1][k \div NrLanes + 1]
    IN  8 * (k % NrLanes) + (place * 2^e) + (b % 2^e)

deshuffle_index(p, e) == CHOOSE b \in Bytes : shuffle_index(b, e) = p

\* Mutant: the elements of a lane are enabled one after the other.
be_InOrder(cnt, e) == {o \in Offsets : o < cnt * 2^e}

\* The bytes enabled in a lane that writes its first cnt elements.
be(cnt, e) ==
    LET place(el) == Reversed[e + 1][el + 1] * 2^e
    IN  {place(el) + o : el \in {x \in 0..(8 \div 2^e - 1) : x < cnt},
                         o \in 0..(2^e - 1)}

\* The elements of a lane, of vl elements altogether.
LaneVl(lane, vl) == vl \div NrLanes + (IF lane < vl % NrLanes THEN 1 ELSE 0)

-----------------------------------------------------------------------------
VARIABLES word,      \* the byte in each place
          layout,    \* the width the word is ordered by
          len        \* the bytes written at least, in memory order

vars == <<word, layout, len>>

Init ==
    /\ word = [p \in Bytes |-> Untouched]
    /\ layout = Unwritten
    /\ len = 0

\* The first vl elements of width e are written.
Noted(vl, e) ==
    /\ layout' = IF layout \in {Unwritten, e} \/ vl = Elements(e) THEN e ELSE Mixed
    /\ len' = IF len > vl * 2^e THEN len ELSE vl * 2^e

\* The load unit counts bytes in memory order.
Load(vl, e) ==
    /\ LET written == {shuffle_index(b, e) : b \in 0..(vl * 2^e - 1)}
       IN  word' = [p \in Bytes |-> IF p \in written THEN deshuffle_index(p, e)
                                    ELSE word[p]]
    /\ Noted(vl, e)

\* Every lane counts its own elements.
Compute(vl, e) ==
    /\ word' = [p \in Bytes |->
                   IF p % 8 \in be(LaneVl(p \div 8, vl), e)
                   THEN deshuffle_index(p, e) ELSE word[p]]
    /\ Noted(vl, e)

\* A slide by nothing from one width to another.
Reshuffle(old, new) ==
    /\ word' = [p \in Bytes |-> word[shuffle_index(deshuffle_index(p, new), old)]]
    /\ layout' = IF layout \in {Unwritten, old} THEN new
                 ELSE IF old = new THEN layout
                 ELSE Mixed
    /\ UNCHANGED len

\* What becomes of a mixed word is not followed unless it is overwritten.
Next ==
    \E e \in Widths : \E vl \in 1..Elements(e) :
        /\ layout # Mixed \/ vl = Elements(e)
        /\ \/ Load(vl, e)
           \/ Compute(vl, e)
           \/ /\ vl = Elements(e) /\ layout # Mixed
              /\ \E old \in Widths : Reshuffle(old, e)

Spec == Init /\ [][Next]_vars

-----------------------------------------------------------------------------
(***************************************************************************)
(* A word noted as ordered by a width is: read with that width its bytes   *)
(* come in memory order, whichever units wrote it, the whole of it or the  *)
(* first elements, and however often it was reshuffled.                    *)
(***************************************************************************)
OrderedAsNoted ==
    layout \in Widths =>
        \A b \in Bytes :
            LET c == word[shuffle_index(b, layout)]
            IN  c = b \/ (c = Untouched /\ b >= len)
=============================================================================
