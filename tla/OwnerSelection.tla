--------------------------- MODULE OwnerSelection ---------------------------
(***************************************************************************)
(* How a route chooses the owner of a task: routeCandidates,               *)
(* rankCandidates, adaptiveRoutingExplanation and selectRoutedOwner of     *)
(* internal/session/run.go, as operators.  Which candidates are left when  *)
(* those with a blocked target are taken out is the business of Targets.   *)
(***************************************************************************)
EXTENDS Integers, Sequences, FiniteSets, SequencesExt

CONSTANTS
  Agents,    \* numbers, in the order of the configuration
  Allowed,   \* run.allowed_owners
  Kind,      \* role.kind of each agent, a task class
  Domains,   \* role.domains of each agent, normalized
  Priority,  \* route_priority of each agent
  Unscored   \* no row of the coordinator's preference file matches

ASSUME OwnerSelectionAssumption ==
    /\ Agents \subseteq Nat \ {0} /\ IsFiniteSet(Agents)
    /\ Allowed \subseteq Agents
    /\ Priority \in [Agents -> Int]
    /\ DOMAIN Kind = Agents /\ DOMAIN Domains = Agents
    /\ Unscored \notin Int

KindCandidates(class) == {a \in Allowed : Kind[a] = class}

DomainCandidates(class, domains) == {a \in KindCandidates(class) : domains \subseteq Domains[a]}

\* route_priority desc, config_order asc
Before(a, b) == Priority[a] > Priority[b] \/ (Priority[a] = Priority[b] /\ a < b)

Ranked(candidates) ==
    CHOOSE s \in SetToSeqs(candidates) :
        \A i, j \in DOMAIN s : i < j => Before(s[i], s[j])

\* The loop of adaptiveRoutingExplanation: the best match so far, and whether
\* another match has the same total.
Match_KeepTie(score, found, a) ==
    IF score[a] = Unscored THEN found
    ELSE IF found.owner = 0 \/ score[a] > score[found.owner]
         THEN [found EXCEPT !.owner = a]
         ELSE [found EXCEPT !.tie = @ \/ score[a] = score[found.owner]]

Match(score, found, a) ==
    IF score[a] = Unscored THEN found
    ELSE IF found.owner = 0 \/ score[a] > score[found.owner]
         THEN [owner |-> a, tie |-> FALSE]
         ELSE [found EXCEPT !.tie = @ \/ score[a] = score[found.owner]]

NoMatch == [owner |-> 0, tie |-> FALSE]

\* The first candidate, unless a unique best match of the preference file names
\* another one.
Select(candidates, score) ==
    LET ranked == Ranked(candidates)
        found[i \in 0..Len(ranked)] ==
            IF i = 0 THEN NoMatch ELSE Match(score, found[i - 1], ranked[i])
        last == found[Len(ranked)]
    IN  IF last.owner = 0 \/ last.tie THEN Head(ranked) ELSE last.owner

-----------------------------------------------------------------------------
\* What Select is for, without its loop.
Best(candidates, score) ==
    {a \in candidates : /\ score[a] # Unscored
                        /\ \A b \in candidates : score[b] = Unscored \/ score[b] <= score[a]}

Preferred(candidates, score, owner) ==
    \/ Best(candidates, score) = {owner}
    \/ /\ \A a \in candidates : Best(candidates, score) # {a}
       /\ owner \in candidates
       /\ \A a \in candidates : a = owner \/ Before(owner, a)
=============================================================================
