--------------------------- MODULE MCCoordination ---------------------------
(***************************************************************************)
(* Instance of Coordination for TLC.                                       *)
(***************************************************************************)
EXTENDS Coordination, TLC

AllRequests == TaskDoc

\* Every class, and the review flag where it is looked at: of an implementation,
\* or of a research whose replan may be one.
MCRequests ==
    {r \in TaskDoc : \/ r.class = "implementation"
                     \/ r.review <=> r.class = "research"}

Symmetry == Permutations(Procs)
=============================================================================
