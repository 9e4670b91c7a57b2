-------------------------- MODULE MCMessagePublish --------------------------
\* MessagePublish on small sets of senders.
EXTENDS MessagePublish, TLC

Symmetry == Permutations(Senders)
=============================================================================
