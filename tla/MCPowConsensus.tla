--------------------------- MODULE MCPowConsensus ---------------------------
(***************************************************************************)
(* Instances of PowConsensus.  Block times are in seconds around the       *)
(* target of 120: half, exact, and more than double, one value below the   *)
(* parent's timestamp and one equal to it.                                 *)
(***************************************************************************)
EXTENDS PowConsensus

MCIntervals == {-30, 0, 60, 120, 300}
MCFastSlow == {60, 300}
MCSlow == {300}
=============================================================================
