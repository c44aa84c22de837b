---------------------------- MODULE MCLoopCommit ----------------------------
(***************************************************************************)
(* LoopCommit over the group of permutations of three points, the smallest *)
(* group that is not commutative, so that factors in the wrong order show. *)
(***************************************************************************)
EXTENDS LoopCommit

Points == 1..3

Permutations3 == {p \in [Points -> Points] : {p[i] : i \in Points} = Points}

Compose(a, b) == [i \in Points |-> a[b[i]]]
Inverse3(a)   == CHOOSE b \in Permutations3 : Compose(a, b) = [i \in Points |-> i]
Identity3     == [i \in Points |-> i]

Swap   == <<2, 1, 3>>
Rotate == <<2, 3, 1>>

MCSmallError  == {Identity3, Swap}
MCSmallUpdate == {Identity3, Rotate}
MCMotions     == {Swap, Rotate}
=============================================================================
