--------------------------- MODULE MCGroundPieces ---------------------------
(* TLC instance of GroundPieces, in twelfths of a degree. *)
EXTENDS GroundPieces

\* Flat, two slopes that differ from it and whose mean does not, two steeper ones
\* that agree with one of them one after the other and not all together, and the
\* opposite slope.
MCTilts == {<<0, 0>>, <<6, 17>>, <<-6, 17>>, <<0, 27>>, <<0, 33>>, <<0, -24>>}
\* Level, tilted but reliable, unreliable.
MCGravities == {<<0, 0>>, <<12, 0>>, <<19, 0>>}
=============================================================================
