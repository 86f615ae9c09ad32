----------------------------- MODULE InvalFilter -----------------------------
(***************************************************************************)
(* The filter on Ara's way to memory that keeps CVA6's write-through cache *)
(* coherent.  It notes the address of every write burst in a FIFO, and     *)
(* asks the cache to invalidate the lines of the bursts one by one.  When  *)
(* the FIFO is full it holds further bursts back.                          *)
(*                                                                         *)
(* One step is one clock cycle.  Addresses count bytes; a burst has an     *)
(* address, len + 1 beats, and the bytes of a beat (size), which the code  *)
(* keeps as a power of two.                                                *)
(***************************************************************************)
EXTENDS Integers, Sequences

CONSTANTS
    MaxTxns,       \* the bursts the FIFO holds
    L1LineWidth,   \* bytes of a cache line
    Bursts,        \* the write bursts of the store unit
    None           \* no burst

ASSUME SizesAssumption == MaxTxns \in Nat \ {0} /\ L1LineWidth \in Nat \ {0}
ASSUME BurstsAssumption ==
    /\ Bursts \subseteq [addr : Nat, len : Nat, size : Nat \ {0}]
    /\ None \notin Bursts

VARIABLES
    aw,               \* the burst the store unit offers
    aw_fifo,
    state,            \* Idle or Invalidating
    inval_offset,
    asked,            \* the addresses invalidated for the first burst so far
    finished          \* the last burst of the FIFO that left it, and its
                      \*   invalidated addresses

vars == <<aw, aw_fifo, state, inval_offset, asked, finished>>

Init ==
    /\ aw = None
    /\ aw_fifo = <<>>
    /\ state = "Idle"
    /\ inval_offset = 0
    /\ asked = <<>>
    /\ finished = [burst |-> None, asked |-> <<>>]

bytes(b) == (b.len + 1) * b.size
ToNextLine(b) == L1LineWidth - (b.addr % L1LineWidth)

aw_fifo_full == Len(aw_fifo) = MaxTxns

\* Mutant: a full FIFO holds nothing back.
Passes_Anyway(aw_ready) == aw # None /\ aw_ready

\* The burst passes on to memory in this cycle.
Passes(aw_ready) == aw # None /\ aw_ready /\ ~aw_fifo_full

\* The FIFO shows a burst in the cycle it comes in.
Seen(en, aw_ready) ==
    IF en /\ Passes(aw_ready) THEN Append(aw_fifo, aw) ELSE aw_fifo

-----------------------------------------------------------------------------
\* The cache takes the invalidation of an address of burst b.
Ask(b) == Append(asked, b.addr + inval_offset)

Pop(fifo) ==
    /\ aw_fifo' = Tail(fifo)
    /\ state' = "Idle"
    /\ inval_offset' = 0
    /\ asked' = <<>>
    /\ finished' = [burst |-> Head(fifo), asked |-> Ask(Head(fifo))]

\* The lines after the first are invalidated from their start.
GoOn(fifo, offset) ==
    /\ aw_fifo' = fifo
    /\ state' = "Invalidating"
    /\ inval_offset' = offset
    /\ asked' = Ask(Head(fifo))
    /\ UNCHANGED finished

Wait(fifo) ==
    /\ aw_fifo' = fifo
    /\ UNCHANGED <<state, inval_offset, asked, finished>>

\* Mutant: the burst counts as if it began a line.
FirstLine_Aligned(fifo) ==
    /\ state = "Idle"
    /\ LET b == Head(fifo)
       IN  IF L1LineWidth < bytes(b) THEN GoOn(fifo, ToNextLine(b)) ELSE Pop(fifo)

FirstLine(fifo) ==
    /\ state = "Idle"
    /\ LET b == Head(fifo)
       IN  IF ToNextLine(b) < bytes(b) THEN GoOn(fifo, ToNextLine(b)) ELSE Pop(fifo)

\* Mutant: a burst stays once its last line is invalidated.
NextLine_Last(fifo) ==
    /\ state = "Invalidating"
    /\ LET offset == inval_offset + L1LineWidth
       IN  IF offset >= bytes(Head(fifo)) THEN Wait(fifo) ELSE GoOn(fifo, offset)

NextLine(fifo) ==
    /\ state = "Invalidating"
    /\ LET offset == inval_offset + L1LineWidth
       IN  IF offset >= bytes(Head(fifo)) THEN Pop(fifo) ELSE GoOn(fifo, offset)

\* The store unit offers its burst until it has passed.
StoreUnit(aw_ready) ==
    IF aw = None \/ Passes(aw_ready) THEN aw' \in Bursts \cup {None}
    ELSE UNCHANGED aw

Cycle(en, aw_ready, inval_ready) ==
    /\ StoreUnit(aw_ready)
    /\ LET fifo == Seen(en, aw_ready)
       IN  \/ fifo # <<>> /\ inval_ready /\ (FirstLine(fifo) \/ NextLine(fifo))
           \/ (fifo = <<>> \/ ~inval_ready) /\ Wait(fifo)

Next == \E en, aw_ready, inval_ready \in BOOLEAN : Cycle(en, aw_ready, inval_ready)

Spec == Init /\ [][Next]_vars

\* The cache takes an invalidation time and again while one is asked for.
CacheReady == aw_fifo # <<>> /\ \E en, aw_ready \in BOOLEAN : Cycle(en, aw_ready, TRUE)

FairSpec == Spec /\ WF_vars(CacheReady)

-----------------------------------------------------------------------------
TypeOK ==
    /\ aw \in Bursts \cup {None}
    /\ aw_fifo \in Seq(Bursts) /\ Len(aw_fifo) <= MaxTxns
    /\ state \in {"Idle", "Invalidating"}
    /\ inval_offset \in Nat
    /\ state = "Idle" => inval_offset = 0 /\ asked = <<>>
    /\ state = "Invalidating" => aw_fifo # <<>>
    /\ asked \in Seq(Nat)
    /\ finished \in [burst : Bursts \cup {None}, asked : Seq(Nat)]

LineOf(a) == a \div L1LineWidth

\* The lines a burst writes to: its beats after the first are aligned.
LinesOf(b) ==
    LET start == b.addr - (b.addr % b.size)
    IN  LineOf(b.addr)..LineOf(start + bytes(b) - 1)

(***************************************************************************)
(* A burst leaves the FIFO when every line it writes to has been           *)
(* invalidated, each once and in order.  The filter counts the beats from  *)
(* the address on, so that a burst that begins within a beat may cost      *)
(* lines past its last byte, as far as that count goes and no further.     *)
(***************************************************************************)
EveryLineInvalidated ==
    finished.burst # None =>
        LET lines == {LineOf(finished.asked[i]) : i \in DOMAIN finished.asked}
            first == LineOf(finished.burst.addr)
        IN  /\ LinesOf(finished.burst) \subseteq lines
            /\ \A i \in DOMAIN finished.asked :
                 LineOf(finished.asked[i]) = first + i - 1
            /\ \A l \in lines :
                 l <= LineOf(finished.burst.addr + bytes(finished.burst) - 1)

(***************************************************************************)
(* Every burst noted in the FIFO leaves it with its lines invalidated, so  *)
(* that a full FIFO does not hold the store unit back for good.            *)
(***************************************************************************)
EveryBurstLeaves ==
    \A b \in Bursts :
        (aw_fifo # <<>> /\ Head(aw_fifo) = b) ~> finished.burst = b
=============================================================================
