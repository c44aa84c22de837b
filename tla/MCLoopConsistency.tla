------------------------- MODULE MCLoopConsistency -------------------------
(* TLC instance of LoopConsistency. *)
EXTENDS LoopConsistency

\* Two and more apart are not neighbours, so that there are seeds side by side.
MCHistorical == 1 .. 3
\* 0 and 1, and 1 and 2 agree, 0 and 2 do not.
MCOffsets == 0 .. 2
=============================================================================
