----------------------------- MODULE MCMapOutput -----------------------------
(* TLC instances of MapOutput. *)
EXTENDS MapOutput

\* app/lo.cpp, saves at any time; app/lio.cpp, saves when all is quiet.
MCUses     == {[forces |-> FALSE, quiet |-> FALSE], [forces |-> TRUE, quiet |-> TRUE]}
MCLioUses  == {[forces |-> TRUE, quiet |-> FALSE]}
MCQuietUse == {[forces |-> TRUE, quiet |-> TRUE]}
=============================================================================
