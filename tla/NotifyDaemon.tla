---------------------------- MODULE NotifyDaemon ----------------------------
(***************************************************************************)
(* internal/runtime/daemon.go and the readiness probe of                   *)
(* internal/adapter/generic.go: one goroutine that learns of unread        *)
(* receipts from file events and sweeps, probes the recipient's pane, and  *)
(* types a notification into it or defers it.  Between two of its steps    *)
(* messages arrive and are read, panes change, time passes, and the daemon *)
(* may be killed and started again.                                        *)
(*                                                                         *)
(* Time is abstracted to what the code compares: whether a retry is due,   *)
(* and whether a quiet period has passed since the adapter last saw the    *)
(* pane change.  A screen that changed differs from the last snapshot: no  *)
(* pane returns to exactly the 40 lines captured before.  The count of     *)
(* notify_attempts is left out: no decision looks at it.                   *)
(***************************************************************************)
EXTENDS Naturals

CONSTANTS
  Messages,
  Agents,
  Recipient,    \* the recipient of each message
  WithPane,     \* agents with an adapter: pane-managed, with a known pane
  Patient,      \* agents probed with a prompt pattern and a quiet period
  NoMessage,
  MaxChanges,   \* bound: how often panes change on their own
  MaxFaults     \* bound: kills, failed receipt updates, lost events

ASSUME NotifyDaemonAssumption ==
    /\ Recipient \in [Messages -> Agents]
    /\ WithPane \subseteq Agents
    /\ Patient \subseteq Agents
    /\ NoMessage \notin Messages
    /\ MaxChanges \in Nat /\ MaxFaults \in Nat

VARIABLES
  inbox,     \* "none", "unread" or "left": the folder of each receipt
  due,       \* its NextRetryAt: "nil", or in the "later" or the "past"
  events,    \* messages with a file event the watcher has not delivered yet
  todo,      \* messages the running sweep has still to look at
  pc,        \* where the daemon is
  job,       \* the message it is busy with
  screen,    \* what each pane shows: its "prompt", "other" output, or "dead"
  seen,      \* whether the adapter's lastSnapshot is what the pane shows
  quiet,     \* whether the quiet period has passed since lastChanged
  watched,   \* history: a whole quiet period was seen since the last typing
  told,      \* history: messages typed into the pane since they were delivered
  changes, faults

receipts == <<inbox, due>>
daemon == <<events, todo, pc, job>>
panes == <<screen, seen, quiet, watched>>
bounds == <<changes, faults>>
vars == <<receipts, daemon, panes, told, bounds>>

\* The messages that have a receipt, in whatever folder.
Delivered == {m \in Messages : inbox[m] # "none"}

\* The variables have their types, and the daemon's queues, its job and its
\* notifications are only about messages that have a receipt.
TypeOK ==
    /\ inbox \in [Messages -> {"none", "unread", "left"}]
    /\ due \in [Messages -> {"nil", "later", "past"}]
    /\ events \cup todo \cup told \subseteq Delivered
    /\ pc \in {"down", "loop", "probe", "notify", "type", "record", "defer"}
    /\ job \in Delivered \cup {NoMessage}
    /\ (job = NoMessage) <=> pc \in {"down", "loop"}
    /\ screen \in [Agents -> {"prompt", "other", "dead"}]
    /\ {seen, quiet, watched} \subseteq [Agents -> BOOLEAN]
    /\ changes \in 0..MaxChanges /\ faults \in 0..MaxFaults

Init ==
    /\ inbox = [m \in Messages |-> "none"]
    /\ due = [m \in Messages |-> "nil"]
    /\ events = {} /\ todo = {} /\ pc = "down" /\ job = NoMessage
    /\ screen = [a \in Agents |-> "prompt"]
    /\ seen = [a \in Agents |-> FALSE]
    /\ quiet = [a \in Agents |-> a \notin Patient]
    /\ watched = [a \in Agents |-> TRUE]
    /\ told = {}
    /\ changes = 0 /\ faults = 0

-----------------------------------------------------------------------------
Unread_Anywhere == {m \in Messages : Recipient[m] \in WithPane}

\* fullSweep lists the unread/ folders of the agents with panes.
Unread == {m \in Messages : inbox[m] = "unread" /\ Recipient[m] \in WithPane}

Free == pc = "loop" /\ todo = {}    \* at the select of Run

\* A file event for m, if the receipt's folder is unread/ and somebody watches.
Signal(m) == events' = IF inbox'[m] = "unread" /\ pc # "down"
                       THEN events \cup {m} ELSE events

Goto(step) == pc' = step /\ UNCHANGED <<job, todo>>

BackToLoop == pc' = "loop" /\ job' = NoMessage /\ UNCHANGED todo

\* NewDaemon and the start of Run: fresh adapters, watches, then a full sweep.
StartDaemon ==
    /\ pc = "down"
    /\ pc' = "loop"
    /\ events' = {}
    /\ todo' = Unread
    /\ seen' = [a \in Agents |-> FALSE]
    /\ quiet' = [a \in Agents |-> a \notin Patient]
    /\ UNCHANGED <<receipts, job, screen, watched, told, bounds>>

\* A tick of sweepTicker.
Sweep ==
    /\ Free
    /\ todo' = Unread
    /\ UNCHANGED <<receipts, events, pc, job, panes, told, bounds>>

\* fullSweep calls tryNotify on the next receipt, which skips one that was
\* read meanwhile or whose retry is not due.
SweepTries_OnlyNew(m) == inbox[m] = "unread" /\ due[m] = "nil"

SweepTries(m) == inbox[m] = "unread" /\ due[m] # "later"

SweepNext(m) ==
    /\ pc = "loop"
    /\ m \in todo
    /\ todo' = todo \ {m}
    /\ IF SweepTries(m) THEN pc' = "probe" /\ job' = m ELSE UNCHANGED <<pc, job>>
    /\ UNCHANGED <<receipts, events, panes, told, bounds>>

\* handleFSEvent calls tryNotify, which looks at the folder only.
HandleEvent(m) ==
    /\ Free
    /\ m \in events
    /\ events' = events \ {m}
    /\ IF inbox[m] = "unread" /\ Recipient[m] \in WithPane
       THEN pc' = "probe" /\ job' = m ELSE UNCHANGED <<pc, job>>
    /\ UNCHANGED <<receipts, todo, panes, told, bounds>>

\* GenericAdapter.Probe: a dead pane has no snapshot; a new snapshot restarts
\* the quiet period.
Probe_KeepClock(a) ==
    /\ seen' = [seen EXCEPT ![a] = @ \/ screen[a] # "dead"]
    /\ UNCHANGED quiet

Probe(a) ==
    /\ seen' = [seen EXCEPT ![a] = @ \/ screen[a] # "dead"]
    /\ quiet' = [quiet EXCEPT ![a] =
                   IF seen[a] \/ screen[a] = "dead" THEN @ ELSE a \notin Patient]

Ready(a) == /\ screen[a] # "dead"
            /\ a \in Patient => screen[a] = "prompt" /\ quiet'[a]

\* tryNotify probes, and Notify probes again before it types.
ProbeStep(step, next) ==
    /\ pc = step
    /\ Probe(Recipient[job])
    /\ Goto(IF Ready(Recipient[job]) THEN next ELSE "defer")
    /\ UNCHANGED <<receipts, events, screen, watched, told, bounds>>

TryNotify == ProbeStep("probe", "notify")
Notify == ProbeStep("notify", "type")

\* SendKeys: the pane shows the text or what the agent makes of it.
Type ==
    /\ pc = "type"
    /\ LET a == Recipient[job]
       IN  IF screen[a] = "dead"
           THEN Goto("defer") /\ UNCHANGED <<panes, told>>
           ELSE /\ \E s \in {"prompt", "other"} : screen' = [screen EXCEPT ![a] = s]
                /\ seen' = [seen EXCEPT ![a] = FALSE]
                /\ watched' = [watched EXCEPT ![a] = FALSE]
                /\ told' = told \cup {job}
                /\ Goto("record")
                /\ UNCHANGED quiet
    /\ UNCHANGED <<receipts, events, bounds>>

\* UpdateReceipt finds the receipt in any folder, and its rename in unread/
\* is an event of the directory the daemon itself watches.
Record ==
    /\ pc = "record"
    /\ due' = [due EXCEPT ![job] = "nil"]
    /\ UNCHANGED inbox
    /\ Signal(job)
    /\ BackToLoop
    /\ UNCHANGED <<panes, told, bounds>>

\* markNotifyFailure.
Defer ==
    /\ pc = "defer"
    /\ due' = [due EXCEPT ![job] = "later"]
    /\ UNCHANGED inbox
    /\ Signal(job)
    /\ BackToLoop
    /\ UNCHANGED <<panes, told, bounds>>

\* UpdateReceipt returns an error, which is logged; or ReadReceipt fails
\* because a command moves the file at that moment, which is not.
GiveUp ==
    /\ pc \in {"probe", "record", "defer"}
    /\ faults < MaxFaults
    /\ faults' = faults + 1
    /\ BackToLoop
    /\ UNCHANGED <<receipts, events, panes, told, changes>>

\* runHealthCheck probes a pane between two calls of tryNotify.
HealthCheck(a) ==
    /\ Free
    /\ Probe(a)
    /\ UNCHANGED <<receipts, daemon, screen, watched, told, bounds>>

\* The daemon is killed: events, sweep and adapters are gone.
Kill ==
    /\ pc # "down"
    /\ faults < MaxFaults
    /\ faults' = faults + 1
    /\ pc' = "down" /\ job' = NoMessage /\ events' = {} /\ todo' = {}
    /\ UNCHANGED <<receipts, panes, told, changes>>

-----------------------------------------------------------------------------
\* CreateReceipt, or a requeue by down or by a reroute that is rolled back.
Deliver(m) ==
    /\ inbox[m] # "unread"
    /\ inbox[m] = "left" => changes < MaxChanges
    /\ inbox' = [inbox EXCEPT ![m] = "unread"]
    /\ changes' = IF inbox[m] = "left" THEN changes + 1 ELSE changes
    /\ told' = told \ {m}
    /\ Signal(m)
    /\ UNCHANGED <<due, todo, pc, job, panes, faults>>

\* read, a reroute or its rollback update the receipt while it is in unread/,
\* which is a file event; killed there, they do not get to move it.
Update(m) ==
    /\ inbox[m] = "unread"
    /\ UNCHANGED receipts
    /\ Signal(m)
    /\ UNCHANGED <<todo, pc, job, panes, told, bounds>>

\* read moves it to active, a reroute to dead; the watcher's event for the
\* removal is one that handleFSEvent ignores.
Leave(m) ==
    /\ inbox[m] = "unread"
    /\ inbox' = [inbox EXCEPT ![m] = "left"]
    /\ UNCHANGED <<due, daemon, panes, told, bounds>>

RetryIsDue(m) ==
    /\ due[m] = "later"
    /\ due' = [due EXCEPT ![m] = "past"]
    /\ UNCHANGED <<inbox, daemon, panes, told, bounds>>

QuietPasses(a) ==
    /\ ~quiet[a]
    /\ quiet' = [quiet EXCEPT ![a] = TRUE]
    /\ watched' = [watched EXCEPT ![a] = @ \/ seen[a]]
    /\ UNCHANGED <<receipts, daemon, screen, seen, told, bounds>>

\* The agent, or a user at its terminal, changes what the pane shows.
PaneChanges(a) ==
    /\ screen[a] # "dead"
    /\ changes < MaxChanges
    /\ changes' = changes + 1
    /\ \E s \in {"prompt", "other", "dead"} : screen' = [screen EXCEPT ![a] = s]
    /\ seen' = [seen EXCEPT ![a] = FALSE]
    /\ UNCHANGED <<receipts, daemon, quiet, watched, told, faults>>

\* inotify's queue overflows: the events in it are dropped.
EventsLost ==
    /\ events # {}
    /\ faults < MaxFaults
    /\ faults' = faults + 1
    /\ events' = {}
    /\ UNCHANGED <<receipts, todo, pc, job, panes, told, changes>>

Next ==
    \/ StartDaemon \/ Sweep \/ TryNotify \/ Notify \/ Type \/ Record \/ Defer
    \/ GiveUp \/ Kill \/ EventsLost
    \/ \E m \in Messages : SweepNext(m) \/ HandleEvent(m)
                           \/ Deliver(m) \/ Update(m) \/ Leave(m) \/ RetryIsDue(m)
    \/ \E a \in WithPane : HealthCheck(a)
    \/ \E a \in Agents : QuietPasses(a) \/ PaneChanges(a)

Spec == Init /\ [][Next]_vars

(***************************************************************************)
(* The daemon runs its calls to their end and somebody restarts it when it *)
(* is gone (weak fairness).  The loop's select chooses at random among the *)
(* cases that are ready, and events are delivered in order, so neither a   *)
(* ticker nor an event is passed over for ever (strong fairness).  Time    *)
(* passes.  Nothing is assumed of the agents, the users and the senders.   *)
(***************************************************************************)
Fairness ==
    /\ WF_vars(StartDaemon \/ TryNotify \/ Notify \/ Type \/ Record \/ Defer)
    /\ SF_vars(Sweep)
    /\ \A m \in Messages : /\ WF_vars(SweepNext(m))
                           /\ SF_vars(HandleEvent(m))
                           /\ WF_vars(RetryIsDue(m))
    /\ \A a \in Agents : WF_vars(QuietPasses(a))

FairSpec == Spec /\ Fairness

-----------------------------------------------------------------------------
(***************************************************************************)
(* Properties.                                                             *)
(***************************************************************************)
\* GenericAdapter with a quiet period: whatever the sweep, the events and the
\* health checks do, text is typed into a pane only after its screen was seen
\* to stay the same for a whole quiet period since text was last typed there.
QuietBetweenNotifications ==
    [][\A m \in told' : pc = "type" /\ job = m /\ pc' = "record"
                        /\ Recipient[m] \in Patient => watched[Recipient[m]]]_vars

\* DESIGN.md 16.5, "daemon restart loses no unread messages": if from some
\* time on a message stays unread and the pane of its recipient stays at the
\* prompt, the message is typed there, whatever kills, lost events and failed
\* updates came before, and however unready the other panes are.
UnreadIsNotified ==
    \A m \in Messages :
        Recipient[m] \in WithPane =>
            (<>[](inbox[m] = "unread" /\ screen[Recipient[m]] = "prompt")
                => <>[](m \in told))

\* DESIGN.md 5.2: a message for a busy pane stays unread and its retry is
\* scheduled; it is not tried again before then.
RetryWaits ==
    [][pc = "loop" /\ pc' = "probe" => due[job'] # "later"]_vars
=============================================================================
