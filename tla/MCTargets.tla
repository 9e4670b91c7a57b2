------------------------------ MODULE MCTargets ------------------------------
(***************************************************************************)
(* Targets on a small instance: agents 1 and 2 sit behind a target with a  *)
(* dispatch command and a heartbeat timeout, agent 3 behind the implicit   *)
(* local one.                                                              *)
(***************************************************************************)
EXTENDS Targets, TLC

CONSTANTS local, remote, domain

MCKind == [a \in Agents |-> "implementation"]

MCDomains == [a \in Agents |-> {domain}]

\* Agent 2 is the baseline as long as its target is open.
MCPriority == [a \in Agents |-> IF a = 2 THEN 10 ELSE 5]

MCBound == [a \in Agents |-> IF a = 3 THEN local ELSE remote]

Request(override) == [class |-> "implementation", domains |-> {domain}, override |-> override]

MCRequests == {Request(0), Request(1)}

Symmetry == Permutations(Procs)
=============================================================================
