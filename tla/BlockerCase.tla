---------------------------- MODULE BlockerCase ----------------------------
(***************************************************************************)
(* task wait and task block of a coordinator's task (recordCoordinator-    *)
(* Blocker of task_cmd.go) and blocker resolve (blocker_resolve.go).  Each *)
(* reads the case of the work, may suspend the task and route another one  *)
(* in its place, and writes the case from the copy it read.  A process may *)
(* be killed between any two steps.                                        *)
(***************************************************************************)
EXTENDS RunDocs

\* waitBlockerPolicy, blockBlockerPolicy and the ceiling.
SelectBlockerAction_OffByOne(kind, count) ==
    CASE kind \in WaitKinds -> "watch"
      [] kind = "agent_clarification" -> "clarification_request"
      [] kind = "reroute_needed" /\ count <= MaxReroutes -> "reroute"
      [] OTHER -> "escalate"

SelectBlockerAction(kind, count) ==
    CASE kind \in WaitKinds -> "watch"
      [] kind = "agent_clarification" -> "clarification_request"
      [] kind = "reroute_needed" /\ count < MaxReroutes -> "reroute"
      [] OTHER -> "escalate"

\* prepareBlockerCase, and what recordCoordinatorBlocker does for the action.
CurrentAfter_Kept(j, action) == j.task
CurrentAfter(j, action) == IF action = "reroute" THEN j.created ELSE j.task

StatusAfter_Kept(j, action) ==
    IF action = "escalate" THEN "escalated"
    ELSE IF j.copy # NoCase THEN j.copy.status ELSE "active"
StatusAfter(j, action) == IF action = "escalate" THEN "escalated" ELSE "active"

\* recommendedBlockerAction
Recommended(kind) == IF kind = "reroute_needed" THEN "manual_reroute" ELSE "clarify"

PreparedCase(j) ==
    LET action == SelectBlockerAction(j.kind, j.copy.count)
        rerouted == action = "reroute"
    IN
    [current |-> CurrentAfter(j, action),
     kind |-> j.kind,
     action |-> action,
     status |-> StatusAfter(j, action),
     count |-> IF rerouted THEN j.copy.count + 1 ELSE j.copy.count,
     recommended |-> IF action = "escalate" THEN Recommended(j.kind) ELSE "none",
     resolution |-> NoResolution,
     attempts |-> IF rerouted THEN j.copy.attempts \cup {j.created} ELSE j.copy.attempts]

\* The work a blocker command is about, 0 for a process at something else.
WorkOf(p) == IF pc[p] \in BlockerSteps THEN work[job[p].task].of ELSE 0

NoteOverlap(p, t) ==
    disturbed' = IF \E q \in Procs \ {p} : WorkOf(q) = work[t].of
                  THEN disturbed \cup {work[t].of} ELSE disturbed

-----------------------------------------------------------------------------
\* loadActiveTaskContext: the receipt has to be active.
TaskBlock(p, t, kind) ==
    /\ Open(t)
    /\ Begin(p, "findCase", [NoJob EXCEPT !.task = t, !.kind = kind])
    /\ NoteOverlap(p, t)
    /\ UNCHANGED <<docs, work, reopened, abandoned, halfMade, kills>>

\* loadCoordinatorTaskContext: the case whose current task this is.  Without
\* one the task is the source of a new case, with several it is an error.
FindCase(p) ==
    LET j == job[p]
        found == CasesOf(j.task)
        Continue(k) ==
            Goto(p, IF SelectBlockerAction(j.kind, k.copy.count) = "reroute"
                    THEN "suspend" ELSE "persist", k)
    IN
    /\ pc[p] = "findCase"
    /\ \/ found = {} /\ Continue([j EXCEPT !.source = j.task])
       \/ \E s \in found : found = {s} /\ Continue([j EXCEPT !.source = s, !.copy = cases[s]])
       \/ Cardinality(found) > 1 /\ Return(p)
    /\ UNCHANGED <<docs, history, bounds>>

\* Only an escalated case is resolved, and a work is replanned once.
BlockerResolve(p, s, action) ==
    /\ cases[s].status = "escalated"
    /\ action = "partial_replan" => s \notin WithReplan
    /\ Begin(p, IF action \in {"manual_reroute", "partial_replan"} THEN "suspend" ELSE "reload",
             [NoJob EXCEPT !.task = cases[s].current, !.kind = action,
                           !.source = s, !.copy = cases[s]])
    /\ NoteOverlap(p, cases[s].current)
    /\ UNCHANGED <<docs, work, reopened, abandoned, halfMade, kills>>

\* suspendTaskReceiptForReroute: a done or dead receipt is left alone.
Suspend(p) ==
    LET j == job[p] IN
    /\ pc[p] = "suspend"
    /\ receipt' = [receipt EXCEPT ![j.task] = IF @ = "open" THEN "dead" ELSE @]
    /\ Goto(p, "route", [j EXCEPT !.suspended = Open(j.task)])
    /\ abandoned' = IF Open(j.task) /\ task[j.task].class = "review"
                    THEN abandoned \cup {j.task} ELSE abandoned
    /\ UNCHANGED <<made, task, cases, replans, handoffs, replies,
                   work, disturbed, reopened, halfMade, bounds>>

\* rerouteBlockerTask routes what the source task was routed for,
\* createPartialReplanTask another class or domain, but never a review.
ReplanRequests(j) ==
    {doc \in Requests : doc.class # "review" /\ doc.review = task[j.source].review}
Replacements(j) == IF j.kind = "partial_replan" THEN ReplanRequests(j) ELSE {task[j.source]}

AfterRoute(kind) == CASE kind = "partial_replan" -> "createReplan"
                      [] kind = "manual_reroute" -> "reload"
                      [] OTHER -> "persist"

RouteReplacement(p) ==
    LET j == job[p] IN
    /\ pc[p] = "route"
    /\ \E doc \in Replacements(j) : CreateTask(doc, work[j.source].of, j.kind)
    /\ Goto(p, "deliverReplacement", [j EXCEPT !.created = made + 1])
    /\ UNCHANGED <<receipt, cases, replans, handoffs, replies,
                   disturbed, reopened, abandoned, halfMade, bounds>>

DeliverReplacement(p) ==
    /\ pc[p] = "deliverReplacement"
    /\ Deliver(p)
    /\ Goto(p, AfterRoute(job[p].kind), job[p])
    /\ UNCHANGED <<made, task, cases, replans, handoffs, replies, history, bounds>>

\* The command fails with its route, and puts back a receipt it suspended.
GiveUp(p) ==
    IF job[p].suspended THEN Goto(p, "restore", [job[p] EXCEPT !.created = 0]) ELSE Return(p)

\* RouteChildTask fails without a task: a duplicate, or no owner.
RouteFails(p) ==
    /\ pc[p] = "route"
    /\ GiveUp(p)
    /\ UNCHANGED <<docs, history, bounds>>

\* RouteChildTask fails with one: the command puts back the receipt all the
\* same, and names the replacement nowhere.
ReplacementFails(p) ==
    /\ pc[p] = "deliverReplacement"
    /\ CreationFails(p)
    /\ GiveUp(p)
    /\ disturbed' = disturbed \cup {WorkOf(p)}
    /\ UNCHANGED <<made, task, cases, replans, handoffs, replies,
                   work, reopened, abandoned, commands>>

\* The restore closure of the suspension.
Restore(p) ==
    /\ pc[p] = "restore"
    /\ receipt' = [receipt EXCEPT ![job[p].task] = "open"]
    /\ Return(p)
    /\ UNCHANGED <<made, task, cases, replans, handoffs, replies, history, bounds>>

\* CreateBlockerCase
CreateRefused(j) == j.copy = NoCase /\ j.source \in WithCase

\* persistBlockerCase: create when no case was read, which fails when there
\* is one by now, else overwrite the whole document.
Persist(p) ==
    LET j == job[p]
        refused == CreateRefused(j)
    IN
    /\ pc[p] = "persist"
    /\ cases' = IF refused THEN cases ELSE [cases EXCEPT ![j.source] = PreparedCase(j)]
    /\ reopened' = IF ~refused /\ j.source \in WithReplan
                   THEN reopened \cup {j.source} ELSE reopened
    /\ Return(p)
    /\ UNCHANGED <<made, task, receipt, replans, handoffs, replies,
                   work, disturbed, abandoned, halfMade, bounds>>

\* CreatePartialReplan; when there is one by now the resolve ends here, with
\* its replacement routed.
CreatePartialReplan(p) ==
    LET j == job[p] IN
    /\ pc[p] = "createReplan"
    /\ IF j.source \notin WithReplan
       THEN /\ replans' = [replans EXCEPT ![j.source] =
                             [superseded |-> j.task, replacement |-> j.created]]
            /\ Goto(p, "reload", j)
       ELSE Return(p) /\ UNCHANGED replans
    /\ UNCHANGED <<made, task, receipt, cases, handoffs, replies, history, bounds>>

\* UpdateBlockerCase reads the case again and writes the resolution into it,
\* with the current task and the attempts of the copy read first.
ReloadCase(p) ==
    /\ pc[p] = "reload"
    /\ Goto(p, "write", [job[p] EXCEPT !.reloaded = cases[job[p].source]])
    /\ UNCHANGED <<docs, history, bounds>>

ResolvedCurrent_Copy(j) == j.copy.current
ResolvedCurrent(j) == IF j.created # 0 THEN j.created ELSE j.copy.current

ResolvedAttempts_Copy(j) == j.copy.attempts
ResolvedAttempts(j) ==
    IF j.kind = "manual_reroute" THEN j.copy.attempts \cup {j.created} ELSE j.copy.attempts

Resolution_NoTask(j) == [action |-> j.kind, created |-> 0]
Resolution(j) == [action |-> j.kind, created |-> j.created]

ResolvedCase(j) ==
    [j.reloaded EXCEPT !.status = "resolved", !.resolution = Resolution(j),
                       !.current = ResolvedCurrent(j), !.attempts = ResolvedAttempts(j)]

WriteCase(p) ==
    /\ pc[p] = "write"
    /\ cases' = [cases EXCEPT ![job[p].source] = ResolvedCase(job[p])]
    /\ Return(p)
    /\ UNCHANGED <<made, task, receipt, replans, handoffs, replies, history, bounds>>

BlockerStep(p) ==
    \/ \E t \in Documents, k \in Kinds : TaskBlock(p, t, k)
    \/ \E s \in Documents, a \in ResolutionActions : BlockerResolve(p, s, a)
    \/ FindCase(p) \/ Suspend(p)
    \/ RouteReplacement(p) \/ DeliverReplacement(p)
    \/ RouteFails(p) \/ ReplacementFails(p) \/ Restore(p)
    \/ Persist(p) \/ CreatePartialReplan(p) \/ ReloadCase(p) \/ WriteCase(p)
=============================================================================
