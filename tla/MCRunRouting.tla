---------------------------- MODULE MCRunRouting ----------------------------
\* RunRouting on small sets of processes and keys.
EXTENDS RunRouting, TLC

Symmetry == Permutations(Procs)
=============================================================================
