--------------------------- MODULE MCBackendWorker ---------------------------
(* TLC instances of BackendWorker; the constants are given in the cfg files. *)
EXTENDS BackendWorker
=============================================================================
