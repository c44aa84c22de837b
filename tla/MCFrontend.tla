------------------------------ MODULE MCFrontend ------------------------------
(* TLC instance of Frontend. *)
EXTENDS Frontend

\* The smallest size, as configured and as clamped, and overlaps below and
\* above half of a submap, one of them clamped.
MCConfigs == {[size |-> 0, overlap |-> 0],
              [size |-> 3, overlap |-> 1],
              [size |-> 3, overlap |-> 9],
              [size |-> 4, overlap |-> 2]}
=============================================================================
