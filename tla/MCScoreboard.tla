---------------------------- MODULE MCScoreboard ----------------------------
(***************************************************************************)
(* Instances of the scoreboard for TLC.                                    *)
(***************************************************************************)
EXTENDS Scoreboard

MCDepth == [v \in VFUs |-> 1]
=============================================================================
