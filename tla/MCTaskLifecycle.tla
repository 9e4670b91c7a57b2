--------------------------- MODULE MCTaskLifecycle ---------------------------
(* TaskLifecycle on a small instance. *)
EXTENDS TaskLifecycle, TLC

Symmetry == Permutations(Procs)
=============================================================================
