------------------------------ MODULE RunDocs ------------------------------
(***************************************************************************)
(* The documents of one coordinator run (internal/protocol/coordinator.go, *)
(* internal/mailbox/coordinator_store.go) and the two views computed from  *)
(* them: LoadRunGraph of run_rebuild.go, which accepts or rejects the      *)
(* whole run, and BuildRunSummary of run_summary.go.                       *)
(*                                                                         *)
(* A task is a document first and then a message and its owner's receipt;  *)
(* it stays without them when its creation is cut short.  RunRouting takes *)
(* the creation further apart.  The owner of a task follows from it, and a *)
(* receipt is "open" in unread/ and active/.  Documents about a task are   *)
(* files named after it, written whole and without a lock.                 *)
(***************************************************************************)
EXTENDS Naturals, FiniteSets

CONSTANTS
  Procs,          \* processes that run commands on this run
  Domains,        \* routing domains
  Requests,       \* what RouteChildTask is asked for: class, domain, review
  FanoutClasses,  \* routing.fanout_task_classes
  Kinds,          \* the wait kinds and block kinds that are declared
  MaxReroutes,    \* blockers.max_reroutes_default
  MaxTasks,       \* bound: tasks of the run
  MaxCommands,    \* bound: commands
  MaxKills        \* bound: commands killed, or ended by an I/O error

\* WaitKind and BlockKind; the two wait kinds differ only in name, and so do
\* human_decision and unsupported.
WaitKinds == {"wait"}
BlockKinds == {"agent_clarification", "reroute_needed", "human_decision"}
AllKinds == WaitKinds \cup BlockKinds

ASSUME RunDocsAssumption ==
    /\ Kinds \subseteq AllKinds
    /\ MaxReroutes \in Nat
    /\ MaxTasks \in Nat
    /\ MaxCommands \in Nat
    /\ MaxKills \in Nat

Tasks == 1..MaxTasks

VARIABLES
  made,        \* the tasks 1..made have a document
  task,        \* what each was routed for
  receipt,     \* the state of its receipt, "none" until it is delivered
  cases,       \* blockers/<task>.yaml
  replans,     \* replans/<task>.yaml
  handoffs,    \* reviews/<task>.yaml
  replies,     \* review responses sent for each review task
  pc,          \* the step each process is at
  job,         \* what its command read and made so far
  work,        \* history: the added task each task continues, and how it came
  disturbed,   \* history: works on which two blocker commands overlapped, or
               \* one was killed or failed once it had created its replacement
  reopened,    \* history: works that were blocked again after a replan
  abandoned,   \* history: reviews that end without an answer, and tasks that
               \* end without their review
  halfMade,    \* history: tasks whose creation was cut short before the receipt
  commands,
  kills

docs == <<made, task, receipt, cases, replans, handoffs, replies>>
history == <<work, disturbed, reopened, abandoned, halfMade>>
bounds == <<commands, kills>>
vars == <<docs, pc, job, history, bounds>>

-----------------------------------------------------------------------------
(***************************************************************************)
(* The documents.                                                          *)
(***************************************************************************)
Classes == {"implementation", "research", "review"}
BlockerActions == {"watch", "clarification_request", "reroute", "escalate"}
BlockerStatuses == {"active", "escalated", "resolved"}
ResolutionActions == {"manual_reroute", "partial_replan", "clarify", "dismiss"}
HandoffStatuses == {"pending", "responded", "handoff_failed"}
Outcomes == {"approved", "changes_requested"}

TaskDoc == [class : Classes, domain : Domains, review : BOOLEAN]
ResolutionDoc == [action : ResolutionActions, created : 0..MaxTasks]
NoResolution == [action |-> "none", created |-> 0]

ASSUME RequestsAssumption == Requests \subseteq TaskDoc

CaseDoc ==
    [current : Tasks, kind : Kinds, action : BlockerActions, status : BlockerStatuses,
     count : Nat, recommended : {"none", "manual_reroute", "clarify"},
     resolution : ResolutionDoc \cup {NoResolution}, attempts : SUBSET Tasks]
ReplanDoc == [superseded : Tasks, replacement : Tasks]
HandoffDoc ==
    [review : 0..MaxTasks, status : HandoffStatuses,
     outcome : Outcomes \cup {"none"}, response : Nat]

\* What a read of a document finds where there is none.
NoTask == [class |-> "none", domain |-> "none", review |-> FALSE]
NoCase == [current |-> 0, kind |-> "none", action |-> "none", status |-> "none",
           count |-> 0, recommended |-> "none", resolution |-> NoResolution,
           attempts |-> {}]
NoReplan == [superseded |-> 0, replacement |-> 0]
NoHandoff == [review |-> 0, status |-> "none", outcome |-> "none", response |-> 0]

Documents == 1..made

Open(t) == receipt[t] = "open"

\* The documents of each directory, by the task they are named after.
WithHandoff == {s \in Tasks : handoffs[s] # NoHandoff}
WithCase == {s \in Tasks : cases[s] # NoCase}
WithReplan == {s \in Tasks : replans[s] # NoReplan}

\* FindReviewHandoffByReviewTaskID, FindBlockerCaseByCurrentTaskID and
\* FindPartialReplanByReplacementTaskID; several finds are an error.
HandoffsOf(t) == {s \in WithHandoff : handoffs[s].review = t}
CasesOf(t) == {s \in WithCase : cases[s].current = t}
ReplansOf(t) == {s \in WithReplan : replans[s].replacement = t}

\* BlockerCase.Validate; every read of a case runs it.
ValidCase(c) ==
    /\ c.current # 0 /\ c.kind # "none" /\ c.action # "none"
    /\ c.status = "escalated" => c.recommended # "none"
    /\ c.status = "resolved" => c.resolution.action # "none"

\* PartialReplan.Validate.
ValidReplan(s, r) == r.replacement # 0 /\ r.replacement \notin {s, r.superseded}

\* ReviewHandoff.Validate.
ValidHandoff(h) ==
    /\ h.status \in {"pending", "responded"} => h.review # 0
    /\ h.status = "responded" => h.response # 0 /\ h.outcome # "none"

-----------------------------------------------------------------------------
(***************************************************************************)
(* LoadRunGraph reads every document and rejects the run when a task lacks *)
(* its message or receipt, when a document names something that is not     *)
(* there, or when a replan and the resolution of its case do not agree.    *)
(***************************************************************************)
TaskLoads(t) == receipt[t] # "none"

HandoffLoads(s) ==
    LET h == handoffs[s] IN
    /\ s \in Documents /\ ValidHandoff(h)
    /\ h.status # "handoff_failed" =>
         h.review \in Documents /\ task[h.review].class = "review"
    /\ h.status = "responded" => h.response \in 1..replies[h.review]

CaseLoads(s) ==
    LET c == cases[s] IN
    /\ s \in Documents /\ ValidCase(c)
    /\ c.current \in Documents
    /\ c.resolution.created \in Documents \cup {0}

ReplanLoads(s) ==
    LET r == replans[s] IN
    /\ s \in Documents /\ ValidReplan(s, r)
    /\ r.superseded \in Documents /\ r.replacement \in Documents
    /\ ReplansOf(r.replacement) = {s}

ReplanAgrees(s) ==
    cases[s].resolution = [action |-> "partial_replan", created |-> replans[s].replacement]

LoadRunGraph ==
    /\ \A t \in Documents : TaskLoads(t)
    /\ \A s \in WithHandoff : HandoffLoads(s)
    /\ \A s \in WithCase : CaseLoads(s)
    /\ \A s \in WithReplan : ReplanLoads(s) /\ ReplanAgrees(s)

-----------------------------------------------------------------------------
(***************************************************************************)
(* BuildRunSummary: one row per task that is not a review, nor the current *)
(* task of another task's case, nor the replacement of a replan; the row   *)
(* shows the task that carries on the work.                                *)
(***************************************************************************)
Moved(s) == s \in WithCase /\ cases[s].current # s

Excluded ==
    {t \in Documents : task[t].class = "review"}
    \cup {cases[s].current : s \in {s \in Documents : Moved(s)}}
    \cup {replans[s].replacement : s \in WithReplan}

Rows == Documents \ Excluded

Effective(s) ==
    IF Moved(s) THEN cases[s].current
    ELSE IF s \in WithReplan THEN replans[s].replacement ELSE s

EffectiveReview(s) ==
    IF Effective(s) \in WithHandoff THEN handoffs[Effective(s)] ELSE handoffs[s]

\* deriveRunSummaryStatus
BlockerStatus(s) ==
    IF cases[s].status = "escalated" THEN "escalated"
    ELSE IF cases[s].status # "active" THEN "none"
    ELSE IF cases[s].kind \in WaitKinds THEN "waiting" ELSE "blocked"

ReviewStatus_Pending(h) ==
    IF h.status = "pending" THEN "under_review"
    ELSE IF h.status = "handoff_failed" THEN "pending" ELSE "none"

ReviewStatus(h) ==
    IF h.status = "pending" \/ h.outcome = "changes_requested" THEN "under_review"
    ELSE IF h.status = "handoff_failed" THEN "pending" ELSE "none"

SummaryStatus(s) ==
    IF BlockerStatus(s) # "none" THEN BlockerStatus(s)
    ELSE IF ReviewStatus(EffectiveReview(s)) # "none" THEN ReviewStatus(EffectiveReview(s))
    ELSE IF receipt[Effective(s)] = "done" THEN "completed" ELSE "pending"

-----------------------------------------------------------------------------
(***************************************************************************)
(* Commands.                                                               *)
(***************************************************************************)
NoJob == [task |-> 0, kind |-> "none", source |-> 0, copy |-> NoCase,
          reloaded |-> NoCase, suspended |-> FALSE, created |-> 0]

\* Steps of RouteChildTask between the document of the new task and its
\* receipt, for run route-task, for a reroute or replan and for a review.
DeliverSteps == {"deliverTask", "deliverReplacement", "deliverReview"}
BlockerSteps == {"findCase", "suspend", "route", "deliverReplacement", "restore",
                 "persist", "createReplan", "reload", "write"}
ReviewSteps == {"checkHandoff", "routeReview", "deliverReview", "createHandoff",
                "failHandoff", "findHandoff", "reply", "complete", "respond"}

Goto(p, step, j) ==
    /\ pc' = [pc EXCEPT ![p] = step]
    /\ job' = [job EXCEPT ![p] = j]

Return(p) == Goto(p, "idle", NoJob)

Begin(p, step, j) ==
    /\ pc[p] = "idle"
    /\ commands < MaxCommands
    /\ commands' = commands + 1
    /\ Goto(p, step, j)

-----------------------------------------------------------------------------
(***************************************************************************)
(* RouteChildTask, under the run's route lock: the scan for duplicates and *)
(* the task's document in one step, then its message and receipt.  Each    *)
(* write may fail or be the last one of a process that is killed.          *)
(***************************************************************************)
RouteLocked == \E p \in Procs : pc[p] \in DeliverSteps

\* findActiveDuplicateTask stops at the first task of the class and domain
\* that is not done or dead; one without a receipt is an error.
NotDuplicate(doc) ==
    LET same(t) == task[t].class = doc.class /\ task[t].domain = doc.domain
        live == {t \in Documents : same(t) /\ receipt[t] \notin {"done", "dead"}}
    IN
    \A t \in live : /\ doc.class \in FanoutClasses
                    /\ \E first \in live : first <= t /\ Open(first)

\* CreateTask of addChildTaskWithResolvedOwner.
CreateTask(doc, of, by) ==
    /\ ~RouteLocked
    /\ made < MaxTasks
    /\ NotDuplicate(doc)
    /\ made' = made + 1
    /\ task' = [task EXCEPT ![made + 1] = doc]
    /\ work' = [work EXCEPT ![made + 1] = [of |-> of, by |-> by]]

\* createWorkflowMessage: the task reaches its owner.
Deliver(p) == receipt' = [receipt EXCEPT ![job[p].created] = "open"]

\* An I/O error ends the creation before the receipt or, in the dispatch of the
\* task, after it; what is written stays.
CreationFails(p) ==
    /\ kills < MaxKills
    /\ kills' = kills + 1
    /\ \/ halfMade' = halfMade \cup {job[p].created} /\ UNCHANGED receipt
       \/ Deliver(p) /\ UNCHANGED halfMade

\* run route-task.  What run add-task creates, in the same steps, has no class:
\* it is nobody's duplicate, is not rerouted or reviewed, and is left out.
RouteTask(p) ==
    /\ Begin(p, "deliverTask", [NoJob EXCEPT !.created = made + 1])
    /\ \E doc \in Requests : CreateTask(doc, made + 1, "add")
    /\ UNCHANGED <<receipt, cases, replans, handoffs, replies,
                   disturbed, reopened, abandoned, halfMade, kills>>

DeliverTask(p) ==
    /\ pc[p] = "deliverTask"
    /\ Deliver(p)
    /\ Return(p)
    /\ UNCHANGED <<made, task, cases, replans, handoffs, replies, history, bounds>>

TaskFails(p) ==
    /\ pc[p] = "deliverTask"
    /\ CreationFails(p)
    /\ Return(p)
    /\ UNCHANGED <<made, task, cases, replans, handoffs, replies,
                   work, disturbed, reopened, abandoned, commands>>

RouteStep(p) == RouteTask(p) \/ DeliverTask(p) \/ TaskFails(p)
=============================================================================
