------------------------------- MODULE AddrGen -------------------------------
(***************************************************************************)
(* The arithmetic of the address generator: how a vector access is split   *)
(* into AXI bursts, and which bytes of a beat a burst uses.                *)
(*                                                                         *)
(* Addresses count bytes.  A burst has the address of its first byte, the  *)
(* bytes of a beat (size), and len + 1 beats.  The code keeps sizes and    *)
(* widths as powers of two; here they are the numbers of bytes.            *)
(***************************************************************************)
EXTENDS Integers, Sequences

CONSTANTS
    AxiBytes,      \* AxiDataWidth / 8
    PageBytes,     \* bursts stay within a page; 4096 in the code
    MaxBeats       \* the most beats of a burst; 256 in the code

ASSUME AxiAssumption ==
    /\ AxiBytes \in Nat \ {0} /\ MaxBeats \in Nat \ {0}
    /\ PageBytes \in {n * AxiBytes : n \in 1..PageBytes}

\* The code keeps widths as powers of two: the narrower of two divides the wider.
ASSUME WidthAssumption ==
    /\ MaxBeats > 1
    /\ \A v, w \in {u \in 1..AxiBytes : AxiBytes % u = 0} : v <= w => w % v = 0

Least(a, b) == IF a < b THEN a ELSE b
Floor0(n) == IF n < 0 THEN 0 ELSE n

aligned_addr(a, width) == a - (a % width)
Page(a) == a \div PageBytes

\* The widest beats a store can use from address a on if none is to straddle two
\* words of the lanes: the greatest power of two that divides the address.
NarrowWidth(a) ==
    CHOOSE w \in 1..AxiBytes : 
        /\ a % w = 0 /\ AxiBytes % w = 0
        /\ \A v \in 1..AxiBytes : a % v = 0 /\ AxiBytes % v = 0 => v <= w

beat_addr(b, n) ==
    IF n = 0 THEN b.addr ELSE aligned_addr(b.addr, b.size) + n * b.size

\* The first and the last byte of the bus that beat n uses.
beat_lower_byte(b, n) == beat_addr(b, n) % AxiBytes
beat_upper_byte(b, n) ==
    (aligned_addr(beat_addr(b, n), b.size) % AxiBytes) + b.size - 1

\* The address of byte "lane" of the bus in beat n.
BusAddr(b, n, lane) == aligned_addr(beat_addr(b, n), AxiBytes) + lane

-----------------------------------------------------------------------------
(***************************************************************************)
(* The stretch of memory the next burst covers: it begins at the address   *)
(* and ends with the data, after the longest burst, or with the page.      *)
(***************************************************************************)

\* Mutant: a burst runs on into the next page.
Stretch_OverPage(addr, bytes, width) ==
    LET next == IF bytes >= MaxBeats * width
                THEN aligned_addr(addr + MaxBeats * width, width)
                ELSE aligned_addr(addr + bytes - 1, width) + width
    IN  [start |-> aligned_addr(addr, width), end |-> next - 1, next |-> next]

Stretch(addr, bytes, width) ==
    LET start == aligned_addr(addr, width)
        next  == IF bytes >= MaxBeats * width
                 THEN aligned_addr(addr + MaxBeats * width, width)
                 ELSE aligned_addr(addr + bytes - 1, width) + width
        page  == (Page(start) + 1) * PageBytes
    IN  IF Page(start) = Page(next - 1)
        THEN [start |-> start, end |-> next - 1, next |-> next]
        ELSE [start |-> start, end |-> page - 1, next |-> page]

Beats(s, width) == Least(MaxBeats, (s.end - s.start) \div width + 1)
=============================================================================
