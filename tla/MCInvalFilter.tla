---------------------------- MODULE MCInvalFilter ----------------------------
(* A FIFO of two bursts and lines of four bytes.  The bursts fill a part of *)
(* a line, a line, cross into the next one, span three lines, and have a    *)
(* beat wider than a line.                                                  *)
EXTENDS InvalFilter

Burst(a, n, s) == [addr |-> a, len |-> n, size |-> s]

Mixed == {Burst(1, 0, 1), Burst(4, 0, 4), Burst(3, 1, 1), Burst(6, 1, 4),
          Burst(2, 7, 1), Burst(5, 0, 8)}
=============================================================================
