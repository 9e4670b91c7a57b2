# A TLA+ verification of tmuxicate

tmuxicate runs several AI agents in tmux panes and lets them exchange messages
through files. There is no server: every command (`send`, `read`, `reply`,
`task accept|wait|block|done`, `run route-task`, `blocker resolve`,
`review respond`, `target ...`, `down`) is a process of its own that works on
the same directory tree, and one long-running daemon watches that tree and
types notifications into panes. What keeps the tree consistent is a handful of
`flock(2)` locks, `rename(2)`, and the order in which the writes are made. That
is what this project models, checks with TLC and proves with TLAPS.

## 1. Inventory

| Component (code) | State | Operations | Hard behaviour |
|---|---|---|---|
| Receipt store (`mailbox/store.go`) | one YAML file per (agent, message) in one of `unread/ active/ done/ dead/`; a lock file per receipt | `CreateReceipt`, `UpdateReceipt`, `MoveReceipt`, `ReadReceipt` | read-modify-write by many processes; a move is two file operations; readers take no lock; kills |
| Message store, send, reply (`mailbox/store.go`, `session/send.go`, `session/reply.go`) | `state/next-seq` under `locks/sequence.lock`, `staging/`, `messages/<id>/`, recipients' `unread/` | `AllocateSeq`, `CreateMessage`, then `CreateReceipt` | concurrent senders; failures and kills between the steps |
| Task commands, read, down (`session/read_msg.go`, `task_cmd.go`, `down.go`) | the receipt of a task, its claim, `events/state.jsonl`, review handoff | `read`, `task accept`, `task done`, `down`, suspend and restore of a reroute | each command is several store calls, so commands interleave between them |
| Notification daemon (`runtime/daemon.go`) and readiness adapter (`adapter/generic.go`) | file events, sweep and health tickers, `next_retry_at`, `notify_attempts`; per pane the last snapshot and the time it changed | `handleFSEvent`, `fullSweep`, `tryNotify`, `markNotifyFailure`, `runHealthCheck`, `Probe`, `Notify` | lost events, restarts, panes that change under a probe, the daemon's own writes that come back as events |
| Coordinator: runs and routing (`session/run.go`, `run_contracts.go`, `mailbox/coordinator_store.go`) | run and task YAML, route lock per run | `run`, `RouteChildTask`, `AddChildTask` | duplicate check and creation under one lock; four writes per task; dispatch under the lock |
| Blockers and partial replan (`session/task_cmd.go`, `blocker_resolve.go`) | blocker case with attempts and ceiling, replan record | `task wait`, `task block`, `blocker resolve` | read-modify-write without a lock; concurrent reroutes; partial failure |
| Review (`session/task_cmd.go`, `review_response.go`) | review handoff | handoff on `task done`, `review respond` | four writes of two components with kills between them |
| Execution targets (`session/target.go`, `mailbox/target_store.go`) | availability, heartbeat log, dispatch record | `enable`, `disable`, `heartbeat`, dispatch | each file is rewritten under the target's lock, but a command is several rewrites; a dispatch that runs twice |
| Run graph, summary, preferences (`session/run_rebuild.go`, `run_summary.go`, `run_adaptive.go`) | none: computed from the files | `LoadRunGraph`, `BuildRunSummary`, preference scores | pure functions with many cases |
| Protocol validation (`protocol/*.go`) | none | `Validate` of every document | the conditions that relate fields |
| Views, start, tmux, configuration, command line | – | – | display, one-time set-up, parsing |

### How they interact

Everything meets in the mailbox. `send`, `reply` and the coordinator publish a
message: number, message directory, receipt. The receipt in `unread/` is a file
event for the daemon, which updates the same receipt (attempts, next retry)
under the same lock as the commands. `read` moves it to `active/`,
`task done` and `review respond` to `done/`, a reroute to `dead/` (and back if
no replacement can be routed), `down` back to `unread/`. The coordinator's
documents refer to the message of a task by identifier, and its commands
look at receipts to decide whether a task is still active.

### What makes each part correct

- *Receipt store*: the lock excludes through every return and kill; no update
  is lost; a receipt is always somewhere, and at rest in one folder only; all
  four files together behave like one value that changes atomically; a reader
  without the lock sees nothing older than what was there when it began.
- *Sending*: a number is used once; a complete message stands behind every
  receipt; what was reported as sent can be read; a failed sender does not
  stop the others.
- *Task commands*: a task is completed once, is never completed after it was
  rerouted, and its review is handed off only after it was completed.
- *Daemon*: an unread message whose pane is ready is notified in the end,
  whatever was lost before; nothing is typed into a pane that is still working
  on the last text.
- *Coordinator*: at most one open task per exclusive duplicate key; behind every
  task's receipt are its message and its document; a half-created task is
  reported and not duplicated; a reroute loses no work.
- *Blockers*: reroutes are counted once each and stop at the ceiling, whatever
  sequence of blocks, escalations and resolutions a work goes through; a work
  has one open task and its case knows which; documents only name what exists.
- *Review*: a review that was answered stays answered; a handoff that waits can
  still be answered; work that requires a review is not called completed
  without one.
- *Views*: what the commands leave can be loaded, unless one of them was cut short
  where nothing repairs it, and the summary hides no open work.
- *Targets*: a blocked target gets no task, and no route fails without a cause;
  what was handed over has a record; work that waited is tried again when its
  target is enabled, and dispatched work is not.

`PROJECT.json` lists the individual hazards with the line where each one bites
and the property that watches it.

## 2. Modules

```
Receipts                fields, validation and folder edges of a receipt
  AtomicReceipt         abstract: one receipt, changed in one step
  |   ^ implemented by
  |  ReceiptStore       four folders, the flock, kills and I/O errors
  |     ReceiptReader   ReadReceipt without a lock, beside those writers
  |     ReceiptStoreProofs
  TaskLifecycle         commands as sequences of AtomicReceipt's operations
     TaskLifecycleProofs
MessageLog              abstract: inboxes as a growing log of numbered messages
  MessagePublish        AllocateSeq, CreateMessage, CreateReceipt in steps
     MessagePublishProofs
NotifyDaemon            daemon, adapter, panes, time
  NotifyDaemonProofs
RunRouting              tasks of a run under its route lock, and reroutes around it
  RunRoutingProofs
RunDocs                 documents of a run, LoadRunGraph, BuildRunSummary
  BlockerCase           task wait, task block, blocker resolve
  ReviewHandoff         handoff after task done, review respond
    Coordination        all of them on one run, with kills
      CoordinationProofs   documents, links, reviews
        WorkProofs         the books of a work
OwnerSelection          candidates, ranking and preference scores, as operators
  Targets               availability, heartbeats, routes, dispatch, enable
     TargetsProofs
```

The layers fit together: `ReceiptStore` is shown to implement `AtomicReceipt`, and
`TaskLifecycle` to use it only in the ways `AtomicReceipt` allows, both by proof,
so `TaskLifecycle` may take each store call as one step.
`NotifyDaemon` and
`RunRouting` take their receipt updates as single steps for the same reason, and
`RunRouting` takes from `MessagePublish` that numbers are fresh. `RunDocs` takes
a route as two steps under the route lock, the scan with the task's document and
then its message with its receipt, which `RunRouting` takes further apart, and
one completion of a task as `TaskLifecycle` does. `Targets` opens up the part that
`RunRouting` leaves to chance: which owner is found, and what the dispatch does.

### Receipts, AtomicReceipt
A receipt is its `folder_state`, its `revision` and whether `done_at` is nil:
the fields `Receipt.Validate` relates to each other. `Valid` holds the two
clauses that relate fields, `Edges` is every pair of folders that some command
passes to `MoveReceipt`, `Rank` the order in which `findReceiptPath` searches.

### ReceiptStore
`files` is the file in each folder, `lock` the holder of the flock, `pc`,
`call`, `path`, `buf` the locals of each process. The actions follow
`UpdateReceipt` and `MoveReceipt`: `Lock` (`lockReceipt`), `Load` (find, read,
callback, validate), `Refuse` (every error return before the write),
`WriteUpdate`, or `WriteMove` then `Remove`, and `Unlock` (the deferred unlock).
`WriteFails` and `RemoveFails` are I/O errors, `Crash` is a kill: the kernel
drops the flock and the files stay. A write is one step because
`writeFileAtomically` renames a temporary file.

When a move takes effect depends on its direction. A forward move
(`unread` to `active`) puts the new file behind the old one in the search order,
so the store goes on finding the old one and the move takes effect at the
removal. A backward move (`active` to `unread`) takes effect at the write. The
refinement mapping `receipt <- Held` (what `findReceiptPath` would find) gets
this right without a case distinction.

### ReceiptReader
`ReadReceipt` as its four globs and the open, one step each, beside
`ReceiptStore`. `ReadNotStale` says that a successful read never returns an
older revision than the store held when the read began. Nothing stronger about
the folder holds: an unlocked read can see a move's destination before the move
takes effect. `NotFoundMeansMoved` says that a failing read was crossed by a
move. With a kill inside a move the first of these is false, because the second
copy that the kill left shows up again later; the run therefore has no faults,
and `receipt_store_crash` covers the kills.

### TaskLifecycle
One task's receipt, its claim, and processes that run `read`, `task accept`,
`task done`, `down` and the reroute of a blocked task, each with one step per
store call. `Start` picks the command, `Die` ends it anywhere. Errors
are the code's: a store call that is refused makes the command return. Rerouting a task that is
already done or dead suspends nothing and still routes a replacement, as in
`suspendTaskReceiptForReroute`; `rerouted` therefore records only the reroutes
that did suspend the receipt. The review handoff is a single step.

### MessageLog, MessagePublish
A sender allocates a number under `sequence.lock` (`Lock`, `ReadSeq`,
`WriteSeq` or `WriteSeqFails`, `Unlock` or `UnlockFailed`), stages both files,
renames the directory, creates the receipt and returns. `WriteSeqFails` can
leave either the old or the new number on disk: the directory sync may fail after the rename. `Die` is a kill
or an I/O error elsewhere. A name collision in `messages/` is an error in the
code; it cannot happen because of `SequenceUnique`. `MessageLog` is the
abstract view: messages are added, never changed or removed, and a number
belongs to one message.

### NotifyDaemon
The daemon is one goroutine, so its program is a `pc` and a `job`; between any
two of its steps messages arrive, agents read, panes change, time passes and
the daemon is killed. `Sweep`/`SweepNext` is `fullSweep`, `HandleEvent` is
`handleFSEvent`, `TryNotify`, `Notify`, `Type`, `Record` and `Defer` are the parts
of `tryNotify`; `ProbeStep` is `GenericAdapter.Probe`, run twice because
`Notify` probes again. Time is what the code compares: `due` (next retry in the
past or not) and `quiet` (quiet period over or not). `Record` and `Defer` rename
a file inside the directory the daemon watches, so both raise an event
(`Signal`). So does an update by a command: `Update` is the one that `read` or a reroute
makes before `Leave` moves the receipt away, and a command may be killed between the two. Two assumptions are made about data: a changed pane never returns to exactly
the captured lines of the last snapshot, and the tmux client does not fail
except on a dead pane.

### RunRouting
The tasks of one run: `key` is the duplicate key in each task document,
`messages` and `receipt` what the owner's inbox has of it. `RouteChildTask` and
`AddChildTask` are sequences of steps: `Lock` (`LockRunRoute`), the scan of
`findActiveDuplicateTask` one receipt at a time (`ScanSkips`, `ScanFinds`,
`ScanMisses`, `ScanEnds`), which a route runs twice, `Select`, then `CreateTask`,
`CreateMessage`, `CreateReceipt` and `Dispatch`; an `AddChildTask` without
routing metadata neither locks nor scans. `Suspend` and `Restore` are the two
halves of `suspendTaskReceiptForReroute`, which run outside the lock:
`RerouteBlockerTask` routes the same key again, `CreatePartialReplanTask` any key.
Each half is one step here and several in `TaskLifecycle`. `Fail` is an I/O
error before or after the effect of a step, so the same key can be locked, half
created and given up at every point; `Kill` ends the process instead. Also a
receipt that is moved while `loadTaskReceiptState` looks for it is reported as
missing; this is one of the errors of `Fail`. Which owner is selected, and
whether one is found, is left open. `restored` is a history variable: the
tasks that a failed reroute reopened.

### RunDocs
`Requests` is what `RouteChildTask` may be asked for, any set of class, domain and review
flag. The documents of one run are functions from the task they are named after:
`cases`, `replans`, `handoffs`, beside `task` (class, domain, review required) and
`receipt` of each task. `CreateTask` writes the document under the route lock (`RouteLocked`),
`Deliver` the message and the receipt, `CreationFails` is an error before or after that
receipt; `RouteTask`, `DeliverTask` and `TaskFails` are `run route-task`, and the other two modules
use the same three for replacements and reviews. The validators are operators (`ValidCase`, `ValidReplan`,
`ValidHandoff`), and so are the two computations over the files: `LoadRunGraph`,
which rejects the whole run when a task has no message or no receipt, when a link does not
resolve or when a replan and its case disagree, and the rows and status of `BuildRunSummary`. `work` is a history variable: which
added task a task continues, and which command routed it. `disturbed`, `reopened`,
`abandoned` and `halfMade` remember the events that the code does not recover from, so that
the properties can say exactly what is promised without them. Message and
owner fields of the documents are left out: each follows from the task it
belongs to.

### BlockerCase
`TaskBlock` is `task wait` and `task block` up to the read of the receipt,
`FindCase` the lookup by current task, then `Suspend`, the route of the replacement,
and `Persist`. The route is `RouteReplacement` (its document) and `DeliverReplacement`
(its receipt); it fails with nothing written in `RouteFails`, or with a replacement that
is half made or complete in `ReplacementFails`, and either way `Restore` puts back the
receipt of a task it suspended. `BlockerResolve` starts from an escalated case
and goes the same way for `manual_reroute`, and through `CreatePartialReplan` for
`partial_replan`; `ReloadCase` and `WriteCase` are the two halves of
`UpdateBlockerCase`, which takes no lock. What is written comes from the copy in
`job`, never from the file at that moment, as in the code. `Kinds` is the set of declared
kinds an instance uses: each action of the policy tables has one.

### ReviewHandoff
`TaskDone` completes a task; for an implementation that requires a review
`CheckHandoff`, `RouteReview`, `DeliverReview` and `CreateReviewHandoff` follow, with
`UpsertFailedReviewHandoff` on every error; after an error behind the review's document
(`ReviewFails`) the failed handoff does not name it. `review respond` is `ReviewRespond`,
`FindHandoff`, `Reply`, `Complete`, `Respond`. Two branches cannot be reached
because a task is completed once: an existing handoff in `CheckHandoff` and in
`CreateReviewHandoff`. They are modelled because the code has them, and
`CoordinationProofs` proves them unreachable.

### Coordination
Both families of commands and `run route-task` on one run. A process is killed between
any two steps, also inside the creation of a task; an I/O error that ends a command at once is
the same thing to the documents, and one that it still reacts to is an action of its
own. A task whose creation was cut short enters `halfMade` and stays without a receipt for
good: every later scan that meets its key fails, and so does `LoadRunGraph`. The tasks of
`run add-task` have no class and no domains: they are nobody's duplicate, cannot be
rerouted and have no review. The model leaves them out, although they can wait, be escalated and
be replanned, and with them the dependencies between tasks, which only they have (the
graph refuses a dependency on a task that is not there, and `run add-task` does not check it).

### OwnerSelection, Targets
`Ranked` is the order that `rankCandidates` sorts into, written as the one sequence
of the candidates that is so ordered. `Select` is the loop of
`adaptiveRoutingExplanation` over it, as a recursive function, and `Preferred` what
the loop is for. `Targets` has a state file per
target; every command rewrites it whole under the target's lock, so each
`Upsert` is one step and each command several. `HeartbeatExpires` is time passing:
`Effective` applies it when a state is read. `Filter` looks at one candidate's target
after the other, `EnableTarget`, `EnableReports`, `ListInbox`, `PendingEntry` are
`EnableTarget` and `dispatchPendingForTarget`, `RunCommand`, `WriteRecord`,
`WriteOutcome` are `dispatchNonLocalTask`, for a route and for an enable. The
processes work on different runs, so that no route lock orders them. `Remember`
adds history variables to each step: which targets were blocked all the time,
or at some time, while a route looked for an owner, and which work an enable found.
Scores are chosen freely: the preference file may hold any row. A killed process
leaves its dispatch command running, and nobody records how it ends.

## 3. What TLC checks

| Run | Instance | Shows |
|---|---|---|
| `receipt_store` | 2 writers, 1 lock-free reader, 2 updates, no fault | `NoLostUpdate`, `OneCopyAtRest`, `ImplementsAtomicReceipt`; for the reader `ReadNotStale` and `NotFoundMeansMoved` |
| `receipt_store_crash` | 2 processes, 2 faults, fair | `ReceiptNeverLost` with kills and failed removals anywhere; `CallsReturn` |
| `task_lifecycle` | 3 processes, 4 commands of 5 kinds, 1 kill | `CompletedOnce`, `ReroutedStaysDead` |
| `message_publish` | 3 senders, 2 kills or I/O errors, fair | `SequenceUnique`, `MessageBeforeReceipt`, `ImplementsMessageLog`, and `SendsReturn`: every send ends |
| `notify_daemon` | 2 messages for 1 pane, 1 pane change, 1 fault | `QuietBetweenNotifications` |
| `notify_daemon_live` | 2 messages for 2 panes, 1 fault, fair | `UnreadIsNotified` |
| `notify_daemon_retry` | 1 message, unready pane | **violated**: `RetryWaits` |
| `run_routing` | 2 processes, 2 tasks, an exclusive and a fan-out key, 1 kill or error, fair | `ExclusiveUnlessRestored`, `TaskBehindReceipt`, `SuspendedStaysDead`, `LostTaskBlocksKey`, `RerouteKeepsWork`, `RoutesReturn` |
| `coordination` | 2 processes, 4 tasks, 5 commands, 1 kill or error | `LinksResolve`, `CeilingKept`, `OneHolder`, `AttemptsRecorded`, `RunLoads`, `OpenWorkIsShown`, `PendingIsAnswerable`, `CompletedIsReviewed`, `AnswerStands` |
| `coordination_graph` | 1 process, 5 commands, no kill | **violated**: `Reconstructible` |
| `coordination_rows` | 1 process, 5 commands, no kill | **violated**: `OneRowPerWork` |
| `targets` | 2 processes, 3 agents on 2 targets, 2 tasks, 3 commands, 1 kill | `BlockedIsNotRouted`, `RejectedForCause`, `ChosenIsPreferred`, `PlacedIsRecorded`, `DispatchIsFinal`, `EnableTriesAll` |

Every safety property of these runs is also a theorem (section 4), so that a run shows
it on an instance that a reader can follow and the proof for all of them. The type
invariants of the store, sending, routing and a coordinator run, the exclusion of
the receipt lock (`LockExclusive`), `SentIsDelivered` and `UsesTheStore` are theorems
that no run repeats. `MCReceiptReader` runs the whole of `ReceiptStore`,
because a reader changes none of its variables.

### Bounds, and why they are enough
- *Processes*. Two suffice for a race on a lock and on a receipt; three let one
  process go through a whole call while two others are inside theirs. For
  safety the theorems cover every number; liveness depends on the instances.
- `MaxUpdates`, `MaxSeq`. They only stop new updates and sends; a lost update needs
  two, a duplicate number two.
- `MaxCommands` = 4. A task is read, then completed, suspended or requeued, with
  one more command racing: every command can meet every other one.
- `MaxFaults`, `MaxDeaths`. One kill leaves a mess; the second can hit the call that
  comes upon it.
- `MaxChanges` counts pane changes not caused by the daemon and redeliveries. Typing
  changes the pane too and is not bounded.
- `MaxTasks`. Two tasks are what exclusivity is about: one that is open, suspended or
  half created, and a second one that is routed against it.
- *Coordination*. The shortest way to the ceiling and beyond is add, block
  (reroute), block (escalate), resolve (reroute by hand), block: five commands
  and three tasks. The fourth task makes room for a second work or a review beside it. One
  ceiling of 1 reaches both sides of the comparison, and one exclusive class besides
  a fan-out one makes a replacement collide with other work or not. `MCRequests` has
both review flags for implementations and one for research and reviews, where the flag matters only
through a replan; the theorems are for every set of requests. `wait` stands for the
  kinds that route nothing, `reroute_needed` for those that do; it escalates at the ceiling, so
  the other kinds lead to no other step. `coordination_graph` uses
  `human_decision` where a case must escalate at once.
- *Targets*. A command, or a heartbeat, is counted in `MaxCommands`: three are a
  route beside a disable and an enable, or two routes and a heartbeat. Two
  agents behind one target and one beside it make a filter that loses some
  candidates, all or none; agent 2 is the baseline, so a score can change the choice.
- Deadlock checking is off in the runs that end when their bounds are used
  up: publishing, task commands, coordination and targets.

### Fairness
- *Store, senders and routes*: a process inside the lock does a few file operations and
  waits for nothing (weak fairness); the kernel hands a released flock to a
  waiter, so no waiter is passed over for ever (strong fairness of `Lock`). No
  call has to be started. For routes this includes that the operator's dispatch
  command returns: it runs under the route lock, and a command that itself
  routes a task in the run would wait for its own parent.
- *Daemon*: its steps are one goroutine that waits for nothing else, and someone
  restarts a dead daemon (weak fairness). `select` in `Daemon.Run` picks at
  random among the ready cases and the watcher delivers in order, so neither
  the sweep ticker nor an event is starved (strong fairness). Time passes. Agents, users and
  senders are not assumed to do anything, and kills end because `MaxFaults` is
  finite. `UnreadIsNotified` has the condition the code needs: from some time on the
  message stays unread and its pane shows the prompt. Its run has one message for each
  pane: of two messages for one pane the first can be typed again and again, and
  each time the quiet period of the second starts over.

### Where code and documents disagree
Three runs state what a document or a comment says and show a behaviour of the
code that contradicts it; `PROJECT.json` quotes both sides.

1. Deferring a notification is itself a file event, and the event path ignores
   `next_retry_at` (`notify_daemon_retry`).
2. The replacement of a partial replan waits or blocks: `prepareBlockerCase` clears the
   resolution of its case, the replan record needs it, and from then on
   `LoadRunGraph` rejects the run (`coordination_graph`). In the model there are two more
   ways to such a run, and `RunLoads` says that there is no other: a replan that was
   interrupted or is not over, and a task without a receipt, because its
   creation is under way or was cut short.
3. After a second reroute of one work the task in the middle is neither source nor current
   task, and gets a row of its own in the summary (`coordination_rows`).

Four more are visible in the models, and properties are stated around them:

- `MoveReceipt` is write, then remove. A kill in between leaves two files for
  good, and later moves work on the first one found.
- `down` clears the claim and moves the receipt in two locked calls; an accept
  in between is requeued with its claim.
- `task done` sets `done_at` and moves in two calls; killed in between, the
  receipt stays active with `done_at`, and `down` fails on it.
- A reroute suspends its task before it takes the route lock and restores it
  after the lock is gone. A route of the same key in between makes the reroute
  fail as a duplicate, and the restore leaves two open tasks of one exclusive
  key; so does an error after the replacement was created.
  `ExclusiveUnlessRestored` says that nothing else breaks the policy.

What overlapping or killed commands do to a case or a target has no rule in the documents
that a run could check, but a team should know of it. Two blocker commands at once: both
suspend, both route, and one attempt is lost; `disturbed` marks such a work. A kill
between `CreatePartialReplan` and `UpdateBlockerCase`: the run cannot be loaded
any more. A kill or an error between a task's document and its receipt, in a route, a reroute,
a replan, a review or `run add-task`: likewise, and for an exclusive key no other
task can be routed. A review task that is itself rerouted: its handoff stays pending for good. After an
automatic reroute the case stays active, so the summary says "blocked" even
when the replacement is done. A finishing dispatch or a heartbeat overwrites `disabled`
with `ready` or `degraded`, and the reason stays in the file. A route and an enable that
dispatch one task at once run its command twice. `run add-task` does not look
at the owner's target.

Three more: no code moves a message without a
receipt to `messages/orphaned/`, as DESIGN.md 3.6 has it; no code reads
`max_retries`, so a message that stays unread in a ready pane is typed again and
again; and `task done` completes a task that was read but never accepted,
while DESIGN.md 7.9 wants the claim.

## 4. What is proved

Every safety invariant and action property that a run checks, and the three refinements,
for every set of processes and every bound, from the named
assumptions on the constants (the absent values are not processes or receipts;
the bounds are naturals; the agents are finitely many positive numbers). Each
inductive invariant was checked by TLC on an instance before it was proved.

**`ReceiptStoreProofs`.** The inductive invariant `IInv` joins the type invariant
to what each process knows at its step: the lock holder is exactly the process
in a critical step (`HolderInv`); a process at `write` has the outcome of its
call on a file that is still there (`WriteInv`); a process at `remove` has
already put its copy in the destination (`RemoveInv`). `LockExclusive` alone is
not inductive: nothing would tie the critical process to the value of `lock`,
and `ReceiptNeverLost` needs `RemoveInv` to know that the removal takes away one
of two files. `TypeCorrect`, `LockExclusion` and `NeverLost` follow with any
number of faults. `NoUpdateLost`, `OneCopy` and `Refinement` assume
`MaxFaults = 0`, as they must: one kill inside a move leaves two files. For
them the invariant also says how many files there are at each step of a move
and what they contain. `Refinement` maps every step to a step of
`AtomicReceipt` or a stutter: `WriteUpdate` to `Update`, and a move to its write
or its removal according to its direction.

The reader is proved in the same module. `ReadersChangeNothing` says that readers
without a lock leave the store's behaviours as they were, so that all of the above holds
beside any number of them. For `NotFoundForCause` the invariant says what a search
knows while nothing crossed it (`SearchInv`): no folder before the one it is at holds
a copy, the folder whose glob matched still does, and the store is not empty if it was
not. It holds with any number of kills. `ReadsAreFresh` assumes `MaxFaults = 0` and
uses that then every copy carries every update.

**`TaskLifecycleProofs`.** That a task is completed once is a race of every command
with every other, and `CompletedOnce` does not say who has won it: the
invariant adds that one process at most is between the move to `done/` and its event
and that the event is not logged yet (`CompletedInv`). In the same way a
receipt that a reroute suspended belongs to one process, which alone can revive it,
and no replacement was routed as long as it can (`SuspendedInv`). Proved:
`CompletesOnce`, `ReroutedIsDead`, and `CommandsUseTheStore`: the commands implement
`AtomicReceipt`, so they take no folder edge other than those that `ReceiptStore` was
checked and proved for. (`Delivered` and `SavedJob` are what makes the last one hold: no
command runs before the receipt is there, and a suspend only moves back to the folder it
moved from.)

**`MessagePublishProofs`.** `SeqInv` says that every number returned so far is at
most `next-seq` and that the process inside `AllocateSeq` holds a newer one;
`FlightInv` that each sender past `AllocateSeq` owns its number alone;
`MessageInv` what its staging directory holds at each step and that published
messages are complete and have a number that was returned; `ReceiptInv` that receipts
come after messages and returns after receipts. Uniqueness is not inductive by
itself: it needs the bound by the number on disk, through failed writes too.
Proved: `TypeCorrect`, `UniqueNumbers`, `CanonicalFirst`, `Delivered` and
`Refinement` (sending implements `MessageLog`), with any number of faults.

**`RunRoutingProofs`.** The duplicate policy needs to know what a command has seen
while it held the lock: `ScanInv` says that behind its scan, and during the
creation, every task of its exclusive key is done, dead or restored. No other
command can add a task of that key, because the type invariant ties the lock to the
step; a completion or a suspension only closes tasks; only a restore opens one
again, and it enters `restored`. `MineInv` gives each half-created task to one
command and says which of its parts are there, `CallInv` that a scan starts at
the first task. Proved, with any number of processes, keys, tasks, kills and
errors: `TypeCorrect`, `DuplicatePolicy`, `WrittenInOrder`, `SuspensionOwned`, and the
action properties `NoDuplicateOfLostTask` and `NoWorkLost`.

**`CoordinationProofs`.** `LinksResolve` is not inductive: a case that resolves is
written from the copy a command took some steps ago, so the copies have to be
as good as the files. `IInv` says so part by part. `CasesInv`: every case is valid and
names tasks that exist. `BlockerJobs`: the same of the copies and of the tasks a
blocker command has routed at each of its steps, and that whoever resolves a case still finds one.
`ReplansInv`: no replacement belongs to two replans, counting the ones being
recorded. `HandoffsInv`: handoffs resolve, and an answered one has a completed
review. `HandoffJobs`: one command at a time hands off a task, because only one completed
it, and nobody else creates its handoff. `ResponseJobs`: a response has sent its reply, and one
command at a time has completed the review, whose handoff is not answered yet.
`SuspendedInv` is what makes both last: a restore reopens only a receipt that its own
command suspended, never one that is done. `WorkInv` types the history. `CreationInv` is about the
route lock: one process at most is between a task's document and its receipt, and a task without
a receipt is the one it is creating or is in `halfMade`.
Proved, for any processes, domains, kinds, ceiling, tasks and kills: `TypeCorrect`,
`LinksAlwaysResolve`, and the action property `AnswersStand`.

Reviews need a second invariant on top, `ReviewsInv`: a routed review belongs to one
command and then to one handoff; a pending handoff's review is open or being
answered unless it was abandoned; and a task that is done is handed off, abandoned, or
still in the hands of the command that completed it. `PendingAnswerable` and
`CompletedReviewed` follow. `CompletedIsReviewed` holds of disturbed works too, so it
excepts none.

**`WorkProofs`.** The ceiling is a statement about the tasks of a work, but the code
compares a number in a document that several commands copy, change and write back. The
invariant `WorksInv` is the bookkeeping between the two. `LineageInv` holds of every
work: a case, a replan and whatever a command has read or made belong to one work;
and a task that a route or a review is still creating is the first of a work that no case and no
command knows (`FreshInv`). `WorkFine`
holds of every work that is not disturbed. Between commands its case lists and counts
exactly its reroutes and its only open task is the current one (`Books`,
`Holder`); at each step of the one command on it (`Alone`) the same is true but for the
replacement that the command has made and not recorded yet, its copy is the file
(`AtWork`), and an open replan is being recorded by a command or agrees with its case
(`ReplanKept`). The counts are cardinalities of sets of tasks, so the steps rest on
`FiniteSetTheorems`. Proved, for any processes, kinds, ceiling and number of tasks:
`CeilingIsKept`, `OneHolderPerWork`, `AttemptsAreRecorded`, `RunsLoad`, `OpenWorkShown`.
The exceptions stay in the statements: two blocker commands that overlap on one work, or a
command that is killed or fails behind its replacement's document, lose an attempt for good.
`RunsLoad` says: while no task is being created and none was left half made, and once every
replan is recorded in its case, `LoadRunGraph` accepts the run, unless the work of a replan was
disturbed or blocked again. Its first half, that each task has its receipt, is `CreationInv`;
the others are `LinksResolve` and `ReplanKept`.

**`NotifyDaemonProofs`.** `TypedAfterQuiet` depends on a probe one step before
the keys are typed, and on a clock that sweeps, events, health checks and restarts
reset. What all of them keep is `WatchedWhenQuiet`: a clock that has run out while the snapshot is
still what the pane shows has watched the pane for a whole quiet period;
`ReadyWasWatched` carries it over the last step.

**`TargetsProofs`.** First the selection, as a statement about data: `RankedRanks` shows that
any finite set of candidates has the ranking that `Ranked` chooses (a candidate's rank is
the number of those before it, which is a bijection), `Known` is the invariant of the loop of
`adaptiveRoutingExplanation`, and `SelectPrefers` concludes that the loop returns
the unique best match or else the first candidate, for every set of candidates and every
score. Induction over the rounds is by the least round that would break it. Then the system:
`Base` says which job fits which step and which record belongs to which task;
`RoutesInv` what a route has learnt: a target that was blocked all the time is blocked,
a blocked one was blocked at some time, and each candidate is still to be looked at, kept, or
had a blocked target; `OwedInv` that work an enable still owes is unread, not dispatched
and ahead of it in its walk through the inboxes. Proved: `TypeCorrect`,
`BlockedGetsNothing`, `OwnerIsPreferred`, `PlacedWorkIsRecorded`, and the action
properties `RefusedForCause`, `DispatchedStays` and `EnableTriesEverything`.

**Only model-checked**: liveness (`CallsReturn`, `SendsReturn`, `RoutesReturn`,
`UnreadIsNotified`), because the prover does not do fairness and ENABLED; and the three
violations, which are counterexamples.

## 5. What is not modelled

Left out on purpose:
the views (`inbox`, `status`, `next`, `run timeline`, `log`), which only read;
the tasks of `run add-task` and their dependencies, in `Coordination`; a change of the documents while
`LoadRunGraph`, which takes no lock, reads them; `up` and `init`, which run before everything else; the tmux client and
configuration parsing, which are I/O and text; the daemon's heartbeat, pid, log
and observed-state files, which no other modelled component reads; the heartbeat log of a target, which
is written and never read; how preferences are computed from completed runs
(`BuildAdaptiveRoutingPreferences`): its result is any score in `Targets`; body
hashes, which stand for "both files are complete"; and the wording of messages.

## 6. Plan

Done: the store, sending, task commands, daemon, routing, blockers, review,
run graph and summary, owner selection and targets. Next, in order of importance:

1. An abstract run in which a work has one holder and a count, implemented by
   `Coordination` as long as its commands do not overlap: `WorksInv` is most of what the
   refinement needs.
2. Which steps make the fair ones possible: for each liveness property the invariant that
   some fair action is enabled, as far as it can be stated without ENABLED.
3. The preferences: evidence of completed runs, and two completions that write
   the file at once.
4. `Run`, which creates a run's document and its root message, and the timeline.

## 7. Running it

`tlc -config X.cfg M` checks one configuration with the module the table in
`PROJECT.json` names, `tlapm M.tla` the proofs of a module.
