--------------------------- MODULE MCReceiptReader ---------------------------
(* ReceiptReader on a small instance. *)
EXTENDS ReceiptReader, TLC

Symmetry == Permutations(Procs)
=============================================================================
