------------------------- MODULE NotifyDaemonProofs -------------------------
(***************************************************************************)
(* Proofs about NotifyDaemon for any number of messages, agents and panes, *)
(* any Recipient, and any bound on kills, faults and changes.              *)
(*                                                                         *)
(* QuietBetweenNotifications is not inductive: whether text may be typed   *)
(* is decided by the second probe, a step before it is typed, and the      *)
(* clock that probe reads is restarted by sweeps, events, health checks    *)
(* and a restart of the daemon alike.  What all of them keep is that a     *)
(* clock which ran out while the adapter's snapshot is still what the pane *)
(* shows has watched that pane for a whole quiet period.                   *)
(***************************************************************************)
EXTENDS NotifyDaemon, TLAPS

\* A quiet period that has passed under the snapshot the adapter holds was
\* spent watching the pane.
WatchedWhenQuiet == \A a \in Patient : quiet[a] /\ seen[a] => watched[a]

\* Between the probe that found the pane ready and the keys, nothing takes
\* that back.
ReadyWasWatched ==
    pc = "type" /\ Recipient[job] \in Patient => watched[Recipient[job]]

IInv == TypeOK /\ WatchedWhenQuiet /\ ReadyWasWatched

-----------------------------------------------------------------------------
\* The daemon starts and nothing has been typed.
LEMMA InitInv == Init => IInv
BY NotifyDaemonAssumption
   DEF Init, IInv, TypeOK, Delivered, WatchedWhenQuiet, ReadyWasWatched

\* What one probe of a pane that is alive tells the adapter, and what it keeps:
\* the clock is restarted unless the snapshot was already what the pane shows.
LEMMA ProbeKeeps ==
    ASSUME NEW a \in Agents, TypeOK, WatchedWhenQuiet, Probe(a)
    PROVE  /\ seen' \in [Agents -> BOOLEAN]
           /\ quiet' \in [Agents -> BOOLEAN]
           /\ screen[a] # "dead" => seen'[a]
           /\ \A b \in Patient : quiet'[b] /\ seen'[b] => watched[b]
<1> USE NotifyDaemonAssumption
<1>1. seen \in [Agents -> BOOLEAN] /\ quiet \in [Agents -> BOOLEAN]
  BY DEF TypeOK, Delivered
<1>2. PICK s \in BOOLEAN : s = (seen[a] \/ screen[a] # "dead")
  OBVIOUS
<1>3. PICK q \in BOOLEAN :
        q = IF seen[a] \/ screen[a] = "dead" THEN quiet[a] ELSE a \notin Patient
  BY <1>1
<1>4. seen' = [seen EXCEPT ![a] = s] /\ quiet' = [quiet EXCEPT ![a] = q]
  BY <1>2, <1>3 DEF Probe
<1>5. seen' \in [Agents -> BOOLEAN] /\ quiet' \in [Agents -> BOOLEAN]
  BY <1>1, <1>4
<1>6. screen[a] # "dead" => seen'[a]
  BY <1>1, <1>2, <1>4
<1>7. ASSUME NEW b \in Patient, quiet'[b], seen'[b]
      PROVE  watched[b]
  <2>1. CASE b # a
    BY <1>1, <1>4, <1>7, <2>1 DEF WatchedWhenQuiet
  <2>2. CASE b = a
    BY <1>1, <1>2, <1>3, <1>4, <1>7, <2>2 DEF WatchedWhenQuiet
  <2> QED
    BY <2>1, <2>2
<1> QED
  BY <1>5, <1>6, <1>7

\* A step that leaves the panes alone and does not bring the daemon to its keys
\* keeps the two invariants about the clocks.
LEMMA PanesAside ==
    ASSUME WatchedWhenQuiet, ReadyWasWatched, UNCHANGED panes,
           pc' # "type" \/ UNCHANGED <<pc, job>>
    PROVE  WatchedWhenQuiet' /\ ReadyWasWatched'
BY DEF WatchedWhenQuiet, ReadyWasWatched, panes

\* An event is signalled for a message, or none is.
LEMMA SignalTyped ==
    ASSUME NEW m \in Messages, TypeOK, Delivered \subseteq Delivered', Signal(m)
    PROVE  events' \subseteq Delivered'
BY DEF TypeOK, Delivered, Signal

\* tryNotify and Notify: only a pane that was watched is found ready.
LEMMA ProbeStepKeeps ==
    ASSUME IInv, NEW step \in {"probe", "notify"}, NEW next \in {"notify", "type"},
           ProbeStep(step, next)
    PROVE  IInv'
<1> USE NotifyDaemonAssumption
<1> DEFINE a == Recipient[job]
<1>1. job \in Messages /\ a \in Agents
  BY DEF IInv, TypeOK, Delivered, ProbeStep
<1>2. /\ Probe(a)
      /\ UNCHANGED <<receipts, events, screen, watched, told, bounds>>
      /\ pc' = IF Ready(a) THEN next ELSE "defer"
      /\ UNCHANGED <<job, todo>>
  BY DEF ProbeStep, Goto
<1>3. /\ seen' \in [Agents -> BOOLEAN]
      /\ quiet' \in [Agents -> BOOLEAN]
      /\ screen[a] # "dead" => seen'[a]
      /\ \A b \in Patient : quiet'[b] /\ seen'[b] => watched[b]
  BY <1>1, <1>2, ProbeKeeps DEF IInv
<1>4. TypeOK'
  BY <1>1, <1>2, <1>3 DEF IInv, TypeOK, Delivered, receipts, bounds
<1>5. WatchedWhenQuiet'
  BY <1>2, <1>3 DEF WatchedWhenQuiet
<1>6. ReadyWasWatched'
  <2> SUFFICES ASSUME pc' = "type", a \in Patient PROVE watched[a]
    BY <1>2 DEF ReadyWasWatched
  <2>1. Ready(a)
    BY <1>2
  <2> QED
    BY <1>3, <2>1 DEF Ready
<1> QED
  BY <1>4, <1>5, <1>6 DEF IInv

\* SendKeys: the pane has changed, so the snapshot is no longer what it shows.
LEMMA TypeKeeps ==
    ASSUME IInv, Type
    PROVE  IInv'
<1> USE NotifyDaemonAssumption
<1> DEFINE a == Recipient[job]
<1>1. job \in Messages /\ a \in Agents
  BY DEF IInv, TypeOK, Delivered, Type
<1>2. CASE screen[a] = "dead"
  <2>1. pc' = "defer" /\ UNCHANGED <<job, todo, panes, told, receipts, events, bounds>>
    BY <1>2 DEF Type, Goto
  <2>2. TypeOK'
    BY <1>1, <2>1 DEF IInv, TypeOK, Delivered, panes, receipts, bounds
  <2> QED
    BY <2>1, <2>2, PanesAside DEF IInv
<1>3. CASE screen[a] # "dead"
  <2>1. /\ \E s \in {"prompt", "other"} : screen' = [screen EXCEPT ![a] = s]
        /\ seen' = [seen EXCEPT ![a] = FALSE]
        /\ watched' = [watched EXCEPT ![a] = FALSE]
        /\ told' = told \cup {job}
        /\ pc' = "record"
        /\ UNCHANGED <<quiet, job, todo, receipts, events, bounds>>
    BY <1>3 DEF Type, Goto
  <2>2. TypeOK'
    BY <1>1, <2>1 DEF IInv, TypeOK, Delivered, receipts, bounds
  <2>3. WatchedWhenQuiet'
    BY <1>1, <2>1 DEF IInv, TypeOK, Delivered, WatchedWhenQuiet
  <2>4. ReadyWasWatched'
    BY <2>1 DEF ReadyWasWatched
  <2> QED
    BY <2>2, <2>3, <2>4 DEF IInv
<1> QED
  BY <1>2, <1>3

-----------------------------------------------------------------------------
\* Every step of the daemon, of time and of its surroundings keeps the
\* invariant.
LEMMA NextInv == IInv /\ [Next]_vars => IInv'
<1> SUFFICES ASSUME IInv, [Next]_vars PROVE IInv'
  OBVIOUS
<1> USE NotifyDaemonAssumption
<1>1. CASE StartDaemon
  <2>1. TypeOK'
    BY <1>1 DEF StartDaemon, IInv, TypeOK, Delivered, Unread, receipts, bounds
  <2> QED
    BY <1>1, <2>1 DEF StartDaemon, IInv, TypeOK, Delivered, WatchedWhenQuiet, ReadyWasWatched
<1>2. CASE Sweep
  <2>1. TypeOK'
    BY <1>2 DEF Sweep, IInv, TypeOK, Delivered, Unread, receipts, panes, bounds
  <2> QED
    BY <1>2, <2>1, PanesAside DEF Sweep, IInv
<1>3. CASE TryNotify
  BY <1>3, ProbeStepKeeps DEF TryNotify
<1>4. CASE Notify
  BY <1>4, ProbeStepKeeps DEF Notify
<1>5. CASE Type
  BY <1>5, TypeKeeps
<1>6. CASE Record
  <2>1. job \in Messages
    BY <1>6 DEF Record, IInv, TypeOK, Delivered
  <2>2. events' \subseteq Delivered'
    BY <1>6, <2>1, SignalTyped DEF Record, IInv, Delivered
  <2>3. TypeOK'
    BY <1>6, <2>1, <2>2 DEF Record, BackToLoop, IInv, TypeOK, Delivered, panes, bounds
  <2> QED
    BY <1>6, <2>3, PanesAside DEF Record, BackToLoop, IInv
<1>7. CASE Defer
  <2>1. job \in Messages
    BY <1>7 DEF Defer, IInv, TypeOK, Delivered
  <2>2. events' \subseteq Delivered'
    BY <1>7, <2>1, SignalTyped DEF Defer, IInv, Delivered
  <2>3. TypeOK'
    BY <1>7, <2>1, <2>2 DEF Defer, BackToLoop, IInv, TypeOK, Delivered, panes, bounds
  <2> QED
    BY <1>7, <2>3, PanesAside DEF Defer, BackToLoop, IInv
<1>8. CASE GiveUp
  <2>1. TypeOK'
    BY <1>8 DEF GiveUp, BackToLoop, IInv, TypeOK, Delivered, receipts, panes
  <2> QED
    BY <1>8, <2>1, PanesAside DEF GiveUp, BackToLoop, IInv
<1>9. CASE Kill
  <2>1. TypeOK'
    BY <1>9 DEF Kill, IInv, TypeOK, Delivered, receipts, panes
  <2> QED
    BY <1>9, <2>1, PanesAside DEF Kill, IInv
<1>10. CASE EventsLost
  <2>1. TypeOK'
    BY <1>10 DEF EventsLost, IInv, TypeOK, Delivered, receipts, panes
  <2> QED
    BY <1>10, <2>1, PanesAside DEF EventsLost, IInv
<1>11. ASSUME NEW m \in Messages, SweepNext(m) PROVE IInv'
  <2>1. TypeOK'
    BY <1>11 DEF SweepNext, IInv, TypeOK, Delivered, receipts, panes, bounds
  <2> QED
    BY <1>11, <2>1, PanesAside DEF SweepNext, IInv
<1>12. ASSUME NEW m \in Messages, HandleEvent(m) PROVE IInv'
  <2>1. TypeOK'
    BY <1>12 DEF HandleEvent, Free, IInv, TypeOK, Delivered, receipts, panes, bounds
  <2> QED
    BY <1>12, <2>1, PanesAside DEF HandleEvent, Free, IInv
<1>13. ASSUME NEW m \in Messages, Deliver(m) PROVE IInv'
  <2>1. events' \subseteq Delivered'
    BY <1>13, SignalTyped DEF Deliver, IInv, TypeOK, Delivered
  <2>2. changes' \in 0..MaxChanges
    BY <1>13 DEF Deliver, IInv, TypeOK, Delivered
  <2>3. TypeOK'
    BY <1>13, <2>1, <2>2 DEF Deliver, IInv, TypeOK, Delivered, panes
  <2> QED
    BY <1>13, <2>3, PanesAside DEF Deliver, IInv
<1>14. ASSUME NEW m \in Messages, Update(m) PROVE IInv'
  <2>1. events' \subseteq Delivered'
    BY <1>14, SignalTyped DEF Update, IInv, receipts, Delivered
  <2>2. TypeOK'
    BY <1>14, <2>1 DEF Update, IInv, TypeOK, Delivered, receipts, panes, bounds
  <2> QED
    BY <1>14, <2>2, PanesAside DEF Update, IInv
<1>15. ASSUME NEW m \in Messages, Leave(m) \/ RetryIsDue(m) PROVE IInv'
  <2>1. TypeOK'
    BY <1>15 DEF Leave, RetryIsDue, IInv, TypeOK, Delivered, daemon, panes, bounds
  <2> QED
    BY <1>15, <2>1, PanesAside DEF Leave, RetryIsDue, daemon, IInv
<1>16. ASSUME NEW a \in WithPane, HealthCheck(a) PROVE IInv'
  <2>1. /\ seen' \in [Agents -> BOOLEAN]
        /\ quiet' \in [Agents -> BOOLEAN]
        /\ \A b \in Patient : quiet'[b] /\ seen'[b] => watched[b]
    BY <1>16, ProbeKeeps DEF HealthCheck, IInv
  <2>2. TypeOK'
    BY <1>16, <2>1 DEF HealthCheck, IInv, TypeOK, Delivered, receipts, daemon, bounds
  <2> QED
    BY <1>16, <2>1, <2>2 DEF HealthCheck, IInv, WatchedWhenQuiet, ReadyWasWatched, daemon
<1>17. ASSUME NEW a \in Agents, QuietPasses(a) PROVE IInv'
  <2>1. PICK w \in BOOLEAN : w = (watched[a] \/ seen[a])
    OBVIOUS
  <2>2. watched' = [watched EXCEPT ![a] = w]
    BY <1>17, <2>1 DEF QuietPasses
  <2>3. TypeOK'
    BY <1>17, <2>2 DEF QuietPasses, IInv, TypeOK, Delivered, receipts, daemon, bounds
  <2>4. WatchedWhenQuiet'
    BY <1>17, <2>1, <2>2 DEF QuietPasses, IInv, TypeOK, Delivered, WatchedWhenQuiet
  <2>5. ReadyWasWatched'
    BY <1>17, <2>1, <2>2 DEF QuietPasses, IInv, TypeOK, Delivered, ReadyWasWatched, daemon
  <2> QED
    BY <2>3, <2>4, <2>5 DEF IInv
<1>18. ASSUME NEW a \in Agents, PaneChanges(a) PROVE IInv'
  <2>1. TypeOK'
    BY <1>18 DEF PaneChanges, IInv, TypeOK, Delivered, receipts, daemon
  <2> QED
    BY <1>18, <2>1
       DEF PaneChanges, IInv, TypeOK, Delivered, WatchedWhenQuiet, ReadyWasWatched, daemon
<1>19. CASE UNCHANGED vars
  BY <1>19 DEF IInv, TypeOK, Delivered, WatchedWhenQuiet, ReadyWasWatched,
               vars, receipts, daemon, panes, bounds
<1> QED
  BY <1>1, <1>2, <1>3, <1>4, <1>5, <1>6, <1>7, <1>8, <1>9, <1>10, <1>11, <1>12,
     <1>13, <1>14, <1>15, <1>16, <1>17, <1>18, <1>19 DEF Next

\* The inductive invariant of daemon.go with the probes of generic.go: the
\* state is typed, a clock that has run out has watched the pane, and a pane
\* about to be typed into was watched.
THEOREM InductiveInvariant == Spec => []IInv
BY InitInv, NextInv, PTL DEF Spec

\* Whatever daemon.go, the senders and the panes do, the state keeps its types,
\* and the daemon has a message in hand exactly between the select and the end
\* of tryNotify.
THEOREM TypeCorrect == Spec => []TypeOK
<1>1. IInv => TypeOK
  BY DEF IInv
<1> QED
  BY <1>1, InductiveInvariant, PTL

\* GenericAdapter's quiet period: no interleaving of sweeps, events, health
\* checks, restarts and changes of the pane lets text be typed into it before
\* its screen was seen unchanged for a whole quiet period since the last text.
THEOREM TypedAfterQuiet == Spec => QuietBetweenNotifications
<1> DEFINE Allowed ==
      \A m \in told' : pc = "type" /\ job = m /\ pc' = "record"
                       /\ Recipient[m] \in Patient => watched[Recipient[m]]
<1>1. IInv => Allowed
  BY DEF IInv, ReadyWasWatched
<1>2. IInv /\ [Next]_vars => [Allowed]_vars
  BY <1>1
<1> HIDE DEF Allowed
<1>3. Spec => [][Allowed]_vars
  BY <1>2, InductiveInvariant, PTL DEF Spec
<1> QED
  BY <1>3 DEF QuietBetweenNotifications, Allowed
=============================================================================
