--------------------------- MODULE MCReceiptStore ---------------------------
(* ReceiptStore on a small instance. *)
EXTENDS ReceiptStore, TLC

Symmetry == Permutations(Procs)
=============================================================================
