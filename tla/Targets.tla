------------------------------- MODULE Targets -------------------------------
(***************************************************************************)
(* Execution targets: internal/session/target.go and                       *)
(* internal/mailbox/target_store.go with the routes of                     *)
(* internal/session/run.go that depend on them.  The operator disables and *)
(* enables targets, workers report heartbeats that expire, and a task      *)
(* whose owner is bound to a target without a pane is handed over by a     *)
(* command that its record in dispatches/ tells about.  Each file is       *)
(* rewritten under the target's lock, in one step here; the calls that     *)
(* rewrite several files, or read them and rewrite them later, are not     *)
(* atomic, and any of them may run at the same time.                       *)
(*                                                                         *)
(* The processes work on different runs, so the route lock and the         *)
(* duplicate policy (RunRouting) do not order them; a task's document,     *)
(* message and receipt appear together here.                               *)
(***************************************************************************)
EXTENDS OwnerSelection

CONSTANTS
  Procs,       \* processes that run commands
  Targets,     \* configured execution targets, the implicit local one included
  PaneBacked,  \* targets whose agents sit in a pane
  Local,       \* the implicit target: ready until somebody says otherwise
  Commanded,   \* targets with a dispatch command
  Timed,       \* targets with a heartbeat timeout
  Bound,       \* the target of each agent
  Requests,    \* the routes: class, domains, override (0 for none)
  Scores,      \* total scores of a preference row
  MaxTasks,    \* bound: tasks
  MaxCommands, \* bound: commands started
  MaxKills     \* bound: processes killed

ASSUME TargetsAssumption ==
    /\ PaneBacked \subseteq Targets
    /\ Commanded \subseteq Targets \ PaneBacked
    /\ Timed \subseteq Targets
    /\ Local \in PaneBacked
    /\ Bound \in [Agents -> Targets]
    /\ \A r \in Requests : r.override \in Agents \cup {0}
    /\ Scores \subseteq Int
    /\ MaxTasks \in Nat /\ MaxCommands \in Nat /\ MaxKills \in Nat

Tasks == 1..MaxTasks

VARIABLES
  availability, \* of each target's state file
  heartbeat,    \* its last_heartbeat_at: none, fresh or expired
  explained,    \* targets whose disabled_reason is set
  owner,        \* owner of each task, 0 before it is created
  unread,       \* tasks whose message is in the owner's inbox/unread
  record,       \* status of each task's dispatch record
  pc,
  job,          \* what each process works on
  shut,         \* history: targets blocked ever since a process began
  troubled,     \* history: targets blocked at some time since it began
  owed,         \* history: work an enable found waiting and nobody has handed over
  commands,
  kills

files == <<availability, heartbeat, explained, owner, unread, record>>
history == <<shut, troubled, owed>>
vars == <<files, pc, job, history, commands, kills>>

Availabilities == {"unknown", "ready", "degraded", "offline", "disabled"}

Routing == {"candidates", "select"}
Dispatching == {"command", "record", "state"}
Steps == {"idle", "create", "disabled", "enabled", "inbox", "entry"} \cup Routing \cup Dispatching

NoRequest == [class |-> "none", domains |-> {}, override |-> 0]

\* call: the command; request, fit and score: of a route, with the candidates it
\* keeps; agent: the owner of a new task, or the one whose inbox an enable is
\* at; todo: the candidates or the entries still to look at; target, task and
\* result: of a dispatch.
NoJob == [call |-> "none", request |-> NoRequest, todo |-> {}, fit |-> {}, score |-> <<>>,
          agent |-> 0, target |-> Local, task |-> 0, result |-> "none"]

Created == {t \in Tasks : owner[t] # 0}

Expired(t) == t \in Timed /\ heartbeat[t] = "expired"

\* effectiveTargetAvailability
Effective(t) ==
    IF availability[t] # "disabled" /\ Expired(t) THEN "offline" ELSE availability[t]

BlocksRouting(t) == Effective(t) \in {"offline", "disabled"}

Blocked == {t \in Targets : BlocksRouting(t)}

TypeOK ==
    /\ availability \in [Targets -> Availabilities]
    /\ heartbeat \in [Targets -> {"none", "fresh", "expired"}]
    /\ explained \subseteq Targets
    /\ owner \in [Tasks -> Agents \cup {0}]
    /\ unread \subseteq Created
    /\ record \in [Tasks -> {"none", "pending", "failed", "dispatched"}]
    /\ pc \in [Procs -> Steps]
    /\ \A p \in Procs :
         /\ job[p].call \in {"none", "route", "add", "enable", "disable"}
         /\ job[p].call = "none" <=> pc[p] = "idle"
         /\ job[p].fit \subseteq Allowed
         /\ job[p].task \in Created \cup {0}
         /\ pc[p] \in Dispatching => job[p].task # 0
    /\ \A t \in Tasks : record[t] # "none" => Bound[owner[t]] \notin PaneBacked
    /\ commands \in 0..MaxCommands
    /\ kills \in 0..MaxKills

\* DefaultTargetState for the targets, nothing routed.
Init ==
    /\ availability = [t \in Targets |-> IF t = Local THEN "ready" ELSE "unknown"]
    /\ heartbeat = [t \in Targets |-> "none"]
    /\ explained = {}
    /\ owner = [t \in Tasks |-> 0]
    /\ unread = {}
    /\ record = [t \in Tasks |-> "none"]
    /\ pc = [p \in Procs |-> "idle"]
    /\ job = [p \in Procs |-> NoJob]
    /\ shut = [p \in Procs |-> {}]
    /\ troubled = [p \in Procs |-> {}]
    /\ owed = [p \in Procs |-> {}]
    /\ commands = 0
    /\ kills = 0

-----------------------------------------------------------------------------
Goto(p, from, to) == pc[p] = from /\ pc' = [pc EXCEPT ![p] = to]

Return(p) == pc' = [pc EXCEPT ![p] = "idle"] /\ job' = [job EXCEPT ![p] = NoJob]

Begin(p, call, to) ==
    /\ Goto(p, "idle", to)
    /\ commands < MaxCommands
    /\ commands' = commands + 1
    /\ UNCHANGED kills

\* UpsertTargetState: the state under the target's lock; reason says what
\* becomes of disabled_reason.
Upsert(t, a, h, reason) ==
    /\ availability' = [availability EXCEPT ![t] = a]
    /\ heartbeat' = [heartbeat EXCEPT ![t] = h]
    /\ explained' = reason

\* RecordTargetHeartbeat: only a disabled target keeps its reason.
RecordHeartbeat(t, a) ==
    Upsert(t, a, "fresh", IF a = "disabled" THEN explained ELSE explained \ {t})

-----------------------------------------------------------------------------
(***************************************************************************)
(* The operator's and the workers' commands.                               *)
(***************************************************************************)
TargetHeartbeat(t, a) ==
    /\ commands < MaxCommands
    /\ commands' = commands + 1
    /\ RecordHeartbeat(t, a)
    /\ UNCHANGED <<owner, unread, record, pc, job, kills>>

\* time.Since(last_heartbeat_at) exceeds the timeout.
HeartbeatExpires(t) ==
    /\ t \in Timed
    /\ heartbeat[t] = "fresh"
    /\ heartbeat' = [heartbeat EXCEPT ![t] = "expired"]
    /\ UNCHANGED <<availability, explained, owner, unread, record, pc, job, commands, kills>>

DisableTarget(p, t) ==
    /\ Begin(p, "disable", "disabled")
    /\ job' = [job EXCEPT ![p] = [NoJob EXCEPT !.call = "disable", !.target = t]]
    /\ Upsert(t, "disabled", heartbeat[t], explained \cup {t})
    /\ UNCHANGED <<owner, unread, record>>

\* The heartbeat that repeats what the first step recorded.
DisableReports(p) ==
    /\ pc[p] = "disabled"
    /\ RecordHeartbeat(job[p].target, "disabled")
    /\ Return(p)
    /\ UNCHANGED <<owner, unread, record, commands, kills>>

EnableTarget(p, t) ==
    /\ Begin(p, "enable", "enabled")
    /\ job' = [job EXCEPT ![p] = [NoJob EXCEPT !.call = "enable", !.target = t]]
    /\ Upsert(t, "ready", heartbeat[t], explained \ {t})
    /\ UNCHANGED <<owner, unread, record>>

EnableReports(p) ==
    /\ Goto(p, "enabled", "inbox")
    /\ RecordHeartbeat(job[p].target, "ready")
    /\ UNCHANGED <<owner, unread, record, job, commands, kills>>

-----------------------------------------------------------------------------
(***************************************************************************)
(* dispatchPendingForTarget: one agent after the other, and one entry of   *)
(* its inbox after the other as os.ReadDir saw them.  An agent without a   *)
(* binding is not bound to "local" here, so that target has none.          *)
(***************************************************************************)
AgentsLeft(p) == {a \in Agents : a > job[p].agent /\ Bound[a] = job[p].target /\ Bound[a] # Local}

ListInbox(p) ==
    /\ Goto(p, "inbox", "entry")
    /\ \E a \in AgentsLeft(p) :
         /\ \A b \in AgentsLeft(p) : a <= b
         /\ job' = [job EXCEPT ![p].agent = a, ![p].todo = {t \in unread : owner[t] = a}]
    /\ UNCHANGED <<files, commands, kills>>

EnableReturns(p) ==
    /\ pc[p] = "inbox"
    /\ AgentsLeft(p) = {}
    /\ Return(p)
    /\ UNCHANGED <<files, commands, kills>>

InboxDone(p) ==
    /\ Goto(p, "entry", "inbox")
    /\ job[p].todo = {}
    /\ UNCHANGED <<files, job, commands, kills>>

\* The message in the inbox is all that an agent in a pane needs.
HasPane_Ignored(target) == FALSE

HasPane(target) == target \in PaneBacked

\* A target with a pane has nothing to dispatch; the others run their command,
\* or record that there is none.
StartDispatch(p) ==
    IF HasPane(job[p].target)
    THEN "entry"
    ELSE IF job[p].target \in Commanded THEN "command" ELSE "record"

\* The record is read, and the dispatch starts unless it says dispatched.
PendingEntry_Failed(p, t) ==
    /\ t \in job[p].todo
    /\ \A s \in job[p].todo : t <= s
    /\ IF record[t] \in {"dispatched", "failed"}
       THEN /\ Goto(p, "entry", "entry")
            /\ job' = [job EXCEPT ![p].todo = @ \ {t}]
       ELSE /\ Goto(p, "entry", StartDispatch(p))
            /\ job' = [job EXCEPT ![p].todo = @ \ {t}, ![p].task = t, ![p].result = "pending"]
    /\ UNCHANGED <<files, commands, kills>>

PendingEntry_Any(p, t) ==
    /\ t \in job[p].todo
    /\ \A s \in job[p].todo : t <= s
    /\ Goto(p, "entry", StartDispatch(p))
    /\ job' = [job EXCEPT ![p].todo = @ \ {t}, ![p].task = t, ![p].result = "pending"]
    /\ UNCHANGED <<files, commands, kills>>

PendingEntry(p, t) ==
    /\ t \in job[p].todo
    /\ \A s \in job[p].todo : t <= s
    /\ IF record[t] = "dispatched"
       THEN /\ Goto(p, "entry", "entry")
            /\ job' = [job EXCEPT ![p].todo = @ \ {t}]
       ELSE /\ Goto(p, "entry", StartDispatch(p))
            /\ job' = [job EXCEPT ![p].todo = @ \ {t}, ![p].task = t, ![p].result = "pending"]
    /\ UNCHANGED <<files, commands, kills>>

\* The dispatch of job[p].task is over.
DispatchEnds(p) ==
    IF job[p].call = "enable"
    THEN /\ pc' = [pc EXCEPT ![p] = "entry"]
         /\ job' = [job EXCEPT ![p].task = 0, ![p].result = "none"]
    ELSE Return(p)

-----------------------------------------------------------------------------
(***************************************************************************)
(* dispatchNonLocalTask.                                                   *)
(***************************************************************************)
RunCommand_NoRecord(p, ok) ==
    /\ pc[p] = "command"
    /\ IF ok
       THEN /\ pc' = [pc EXCEPT ![p] = "record"]
            /\ job' = [job EXCEPT ![p].result = "dispatched"]
       ELSE DispatchEnds(p)
    /\ UNCHANGED <<files, commands, kills>>

\* The dispatch command ends, with or without an error.
RunCommand(p, ok) ==
    /\ Goto(p, "command", "record")
    /\ job' = [job EXCEPT ![p].result = IF ok THEN "dispatched" ELSE "failed"]
    /\ UNCHANGED <<files, commands, kills>>

\* WriteTargetDispatch.
WriteRecord(p) ==
    /\ pc[p] = "record"
    /\ record' = [record EXCEPT ![job[p].task] = job[p].result]
    /\ IF job[p].result = "pending"
       THEN DispatchEnds(p)
       ELSE pc' = [pc EXCEPT ![p] = "state"] /\ UNCHANGED job
    /\ UNCHANGED <<availability, heartbeat, explained, owner, unread, commands, kills>>

\* The outcome of the command is the target's new availability, whatever it was
\* before; a reason for disabling it stays in the file.
WriteOutcome(p) ==
    /\ pc[p] = "state"
    /\ Upsert(job[p].target, IF job[p].result = "failed" THEN "degraded" ELSE "ready",
              heartbeat[job[p].target], explained)
    /\ DispatchEnds(p)
    /\ UNCHANGED <<owner, unread, record, commands, kills>>

-----------------------------------------------------------------------------
(***************************************************************************)
(* RouteChildTask and AddChildTask.                                        *)
(***************************************************************************)
RouteChildTask(p, r) ==
    /\ Begin(p, "route", "candidates")
    /\ job' = [job EXCEPT ![p] = [NoJob EXCEPT !.call = "route", !.request = r,
                                 !.todo = DomainCandidates(r.class, r.domains)]]
    /\ UNCHANGED <<files>>

\* AddChildTask names its owner and does not look at targets.
AddChildTask(p, a) ==
    /\ Begin(p, "add", "create")
    /\ job' = [job EXCEPT ![p] = [NoJob EXCEPT !.call = "add", !.agent = a]]
    /\ UNCHANGED <<files>>

\* filterCandidatesByTargetAvailability, one target state after the other.
Filter_Recorded(p, a) ==
    /\ Goto(p, "candidates", "candidates")
    /\ a \in job[p].todo
    /\ \A b \in job[p].todo : a <= b
    /\ job' = [job EXCEPT ![p].todo = @ \ {a},
                         ![p].fit = IF availability[Bound[a]] \in {"offline", "disabled"}
                                    THEN @ ELSE @ \cup {a}]
    /\ UNCHANGED <<files, commands, kills>>

Filter_Degraded(p, a) ==
    /\ Goto(p, "candidates", "candidates")
    /\ a \in job[p].todo
    /\ \A b \in job[p].todo : a <= b
    /\ job' = [job EXCEPT ![p].todo = @ \ {a},
                         ![p].fit = IF Effective(Bound[a]) \in {"offline", "disabled", "degraded"}
                                    THEN @ ELSE @ \cup {a}]
    /\ UNCHANGED <<files, commands, kills>>

Filter(p, a) ==
    /\ Goto(p, "candidates", "candidates")
    /\ a \in job[p].todo
    /\ \A b \in job[p].todo : a <= b
    /\ job' = [job EXCEPT ![p].todo = @ \ {a},
                         ![p].fit = IF BlocksRouting(Bound[a]) THEN @ ELSE @ \cup {a}]
    /\ UNCHANGED <<files, commands, kills>>

FilterEnds(p) ==
    /\ Goto(p, "candidates", "select")
    /\ job[p].todo = {}
    /\ UNCHANGED <<files, job, commands, kills>>

\* The preference file may hold any row for any of them, or none.
SelectOwner(p) ==
    /\ Goto(p, "select", "create")
    /\ job[p].request.override = 0
    /\ job[p].fit # {}
    /\ \E score \in [job[p].fit -> Scores \cup {Unscored}] :
         job' = [job EXCEPT ![p].score = score, ![p].agent = Select(job[p].fit, score)]
    /\ UNCHANGED <<files, commands, kills>>

\* routeChildTaskOverrideSelection: class and domains are not asked for.
OverrideFits(p) ==
    /\ job[p].request.override \in Allowed
    /\ ~BlocksRouting(Bound[job[p].request.override])

OverrideOwner(p) ==
    /\ Goto(p, "select", "create")
    /\ job[p].request.override # 0
    /\ OverrideFits(p)
    /\ job' = [job EXCEPT ![p].agent = job[p].request.override]
    /\ UNCHANGED <<files, commands, kills>>

RejectRoute(p) ==
    /\ pc[p] = "select"
    /\ IF job[p].request.override = 0 THEN job[p].fit = {} ELSE ~OverrideFits(p)
    /\ Return(p)
    /\ UNCHANGED <<files, commands, kills>>

\* addChildTaskWithResolvedOwner up to the dispatch of the task.
CreateTask(p) ==
    /\ pc[p] = "create"
    /\ \E t \in Tasks \ Created :
         /\ t - 1 \in Created \cup {0}
         /\ owner' = [owner EXCEPT ![t] = job[p].agent]
         /\ unread' = unread \cup {t}
         /\ LET target == Bound[job[p].agent] IN
            IF HasPane(target)
            THEN Return(p)
            ELSE /\ pc' = [pc EXCEPT ![p] = IF target \in Commanded THEN "command" ELSE "record"]
                 /\ job' = [job EXCEPT ![p] = [NoJob EXCEPT !.call = job[p].call, !.target = target,
                                              !.task = t, !.result = "pending"]]
    /\ UNCHANGED <<availability, heartbeat, explained, record, commands, kills>>

\* Some write of the creation fails; always at the bound.
CreateTaskFails(p) ==
    /\ pc[p] = "create"
    /\ Created = Tasks
    /\ Return(p)
    /\ UNCHANGED <<files, commands, kills>>

-----------------------------------------------------------------------------
\* read moves a message out of unread/, down moves it back.
Read(t) ==
    /\ t \in unread
    /\ unread' = unread \ {t}
    /\ UNCHANGED <<availability, heartbeat, explained, owner, record, pc, job, commands, kills>>

Requeue(t) ==
    /\ t \in Created \ unread
    /\ unread' = unread \cup {t}
    /\ UNCHANGED <<availability, heartbeat, explained, owner, record, pc, job, commands, kills>>

\* Its dispatch command goes on, and nobody records the outcome.
Kill(p) ==
    /\ pc[p] # "idle"
    /\ kills < MaxKills
    /\ kills' = kills + 1
    /\ Return(p)
    /\ UNCHANGED <<files, commands>>

-----------------------------------------------------------------------------
Dispatch(p) ==
    \/ \E ok \in BOOLEAN : RunCommand(p, ok)
    \/ WriteRecord(p) \/ WriteOutcome(p)

Enable(p) ==
    \/ \E t \in Targets : EnableTarget(p, t)
    \/ EnableReports(p) \/ ListInbox(p) \/ InboxDone(p) \/ EnableReturns(p)
    \/ \E t \in Tasks : PendingEntry(p, t)

Route(p) ==
    \/ \E r \in Requests : RouteChildTask(p, r)
    \/ \E a \in Allowed : AddChildTask(p, a)
    \/ \E a \in Allowed : Filter(p, a)
    \/ FilterEnds(p) \/ SelectOwner(p) \/ OverrideOwner(p) \/ RejectRoute(p)
    \/ CreateTask(p) \/ CreateTaskFails(p)

\* What the properties need to remember.
Choosing == {"candidates", "select", "create"}

Waiting(t) == {m \in unread : Bound[owner[m]] = t /\ record[m] # "dispatched"}

Remember ==
    /\ shut' = [p \in Procs |->
                  IF job'[p].call # "route" \/ pc'[p] \notin Choosing THEN {}
                  ELSE IF pc[p] = "idle" THEN Blocked' ELSE shut[p] \cap Blocked']
    /\ troubled' = [p \in Procs |->
                      IF job'[p].call # "route" \/ pc'[p] \notin Choosing THEN {}
                      ELSE IF pc[p] = "idle" THEN Blocked' ELSE troubled[p] \cup Blocked']
    /\ owed' = [p \in Procs |->
                  IF job'[p].call # "enable" \/ job'[p].target \in PaneBacked THEN {}
                  ELSE IF pc[p] = "idle" THEN Waiting(job'[p].target)
                  ELSE {m \in owed[p] \cap unread' :
                          record'[m] # "dispatched" /\ ~(pc[p] = "record" /\ job[p].task = m /\ pc'[p] # "record")}]

Step ==
    \/ \E t \in Targets : HeartbeatExpires(t)
    \/ \E t \in Targets, a \in Availabilities : TargetHeartbeat(t, a)
    \/ \E t \in Tasks : Read(t) \/ Requeue(t)
    \/ \E p \in Procs :
         \/ \E t \in Targets : DisableTarget(p, t)
         \/ DisableReports(p)
         \/ Enable(p) \/ Route(p) \/ Dispatch(p) \/ Kill(p)

Next == Step /\ Remember

Spec == Init /\ [][Next]_vars

-----------------------------------------------------------------------------
(***************************************************************************)
(* Properties.                                                             *)
(***************************************************************************)
\* 12-CONTEXT.md, "Disabled or offline targets must be excluded at route time":
\* a target that was blocked all the time a route looked for an owner does not
\* get the task, whatever happens to the others while the candidates are
\* filtered one by one.
BlockedIsNotRouted ==
    \A p \in Procs : job[p].call = "route" /\ pc[p] = "create"
                        => Bound[job[p].agent] \notin shut[p]

\* A route is rejected for want of a candidate, or because each of them had a
\* target that was blocked at some time while it looked: a degraded or silent
\* one is no reason.
RejectedForCause ==
    [][\A p \in Procs :
         pc[p] = "select" /\ pc'[p] = "idle" /\ kills' = kills =>
             LET r == job[p].request
                 wanted == IF r.override # 0 THEN {r.override} \cap Allowed
                           ELSE DomainCandidates(r.class, r.domains)
             IN  \A a \in wanted : Bound[a] \in troubled[p]]_vars

\* Adaptive routing changes the owner only for a unique best match of the
\* preference file, and otherwise the first candidate by route_priority and
\* configuration order gets the task.
ChosenIsPreferred ==
    \A p \in Procs :
        job[p].call = "route" /\ pc[p] = "create" /\ job[p].request.override = 0
            => Preferred(job[p].fit, job[p].score, job[p].agent)

\* A task given to a target without a pane is either in the hands of a process
\* that dispatches it or has a record the operator can see, unless that process
\* was killed, also if the target was disabled in between.
PlacedIsRecorded ==
    kills = 0 => \A t \in Created : \/ Bound[owner[t]] \in PaneBacked
                                     \/ record[t] # "none"
                                     \/ \E p \in Procs : job[p].task = t

\* Enabling a target "redispatches unread pending work only": once a task is
\* dispatched and nobody else is dispatching it too, no later command runs it
\* again or takes the record back.
DispatchIsFinal ==
    [][\A t \in Tasks :
         record[t] = "dispatched" /\ (\A p \in Procs : job[p].task # t)
             => record'[t] = "dispatched" /\ (\A p \in Procs : job'[p].task # t)]_vars

\* All the work that waited for a target when it was enabled, on whichever of
\* its agents and whether its command had failed or never run, is tried again
\* before enable returns, unless it was read or dispatched in the meantime.
EnableTriesAll ==
    [][\A p \in Procs :
         job[p].call = "enable" /\ pc'[p] = "idle" /\ kills' = kills => owed[p] = {}]_vars
=============================================================================
