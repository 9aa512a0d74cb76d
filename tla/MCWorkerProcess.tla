--------------------------- MODULE MCWorkerProcess ---------------------------
(* A worker process with some jobs, and the inductive invariant beside the   *)
(* properties.  No symmetry, since a shutdown must end.                      *)
EXTENDS WorkerInvariant
=============================================================================
