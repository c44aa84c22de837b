----------------------- MODULE MCIncrementalGlobalMap -----------------------
(* TLC instances of IncrementalGlobalMap. *)
EXTENDS IncrementalGlobalMap

\* Below, at and beyond a threshold of 1.
MCMoves == {-1, 0, 1, 2}
=============================================================================
