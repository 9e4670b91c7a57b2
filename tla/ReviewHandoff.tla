--------------------------- MODULE ReviewHandoff ---------------------------
(***************************************************************************)
(* What task done does after it completed a task that requires a review    *)
(* (createReviewHandoffAfterTaskDone of task_cmd.go), and review respond   *)
(* (review_response.go).  The completion itself is one step: TaskLifecycle *)
(* shows that only one task done gets there.                               *)
(***************************************************************************)
EXTENDS RunDocs

HandsOff(t) == task[t].class = "implementation" /\ task[t].review

TaskDone(p, t) ==
    /\ Open(t)
    /\ IF HandsOff(t) THEN Begin(p, "checkHandoff", [NoJob EXCEPT !.task = t])
       ELSE Begin(p, "idle", NoJob)
    /\ receipt' = [receipt EXCEPT ![t] = "done"]
    /\ abandoned' = IF task[t].class = "review" THEN abandoned \cup {t} ELSE abandoned
    /\ UNCHANGED <<made, task, cases, replans, handoffs, replies,
                   work, disturbed, reopened, halfMade, kills>>

CheckHandoff(p) ==
    /\ pc[p] = "checkHandoff"
    /\ IF job[p].task \in WithHandoff THEN Return(p) ELSE Goto(p, "routeReview", job[p])
    /\ UNCHANGED <<docs, history, bounds>>

\* routeReviewTask: a review of the same domains.
RouteReview(p) ==
    LET j == job[p]
        doc == [class |-> "review", domain |-> task[j.task].domain, review |-> FALSE]
    IN
    /\ pc[p] = "routeReview"
    /\ CreateTask(doc, made + 1, "review")
    /\ Goto(p, "deliverReview", [j EXCEPT !.created = made + 1])
    /\ UNCHANGED <<receipt, cases, replans, handoffs, replies,
                   disturbed, reopened, abandoned, halfMade, bounds>>

DeliverReview(p) ==
    /\ pc[p] = "deliverReview"
    /\ Deliver(p)
    /\ Goto(p, "createHandoff", job[p])
    /\ UNCHANGED <<made, task, cases, replans, handoffs, replies, history, bounds>>

RouteReviewFails(p) ==
    /\ pc[p] = "routeReview"
    /\ Goto(p, "failHandoff", job[p])
    /\ UNCHANGED <<docs, history, bounds>>

\* The handoff fails, too, and does not name the review that was created.
ReviewFails(p) ==
    /\ pc[p] = "deliverReview"
    /\ CreationFails(p)
    /\ Goto(p, "failHandoff", [job[p] EXCEPT !.created = 0])
    /\ UNCHANGED <<made, task, cases, replans, handoffs, replies,
                   work, disturbed, reopened, abandoned, commands>>

SetHandoff(s, h) ==
    /\ handoffs' = [handoffs EXCEPT ![s] = h]
    /\ UNCHANGED <<made, task, receipt, cases, replans, replies, history, bounds>>

CreateReviewHandoff(p) ==
    LET j == job[p] IN
    /\ pc[p] = "createHandoff"
    /\ IF j.task \in WithHandoff
       THEN Goto(p, "failHandoff", j) /\ UNCHANGED <<docs, history, bounds>>
       ELSE /\ SetHandoff(j.task, [NoHandoff EXCEPT !.review = j.created, !.status = "pending"])
            /\ Return(p)

\* upsertFailedReviewHandoff: an existing handoff is marked as failed, too.
UpsertFailedReviewHandoff(p) ==
    LET j == job[p] IN
    /\ pc[p] = "failHandoff"
    /\ SetHandoff(j.task, [handoffs[j.task] EXCEPT
                             !.review = IF j.created # 0 THEN j.created ELSE @,
                             !.status = "handoff_failed"])
    /\ Return(p)

-----------------------------------------------------------------------------
ReviewRespond(p, t, outcome) ==
    /\ Open(t)
    /\ task[t].class = "review"
    /\ Begin(p, "findHandoff", [NoJob EXCEPT !.task = t, !.kind = outcome])
    /\ UNCHANGED <<docs, history, kills>>

\* FindReviewHandoffByReviewTaskID: exactly one handoff, and a pending one.
FindHandoff(p) ==
    LET j == job[p]
        found == HandoffsOf(j.task)
    IN
    /\ pc[p] = "findHandoff"
    /\ IF \E s \in found : found = {s} /\ handoffs[s].status = "pending"
       THEN Goto(p, "reply", [j EXCEPT !.source = CHOOSE s \in found : TRUE])
       ELSE Return(p)
    /\ UNCHANGED <<docs, history, bounds>>

Reply(p) ==
    LET t == job[p].task IN
    /\ pc[p] = "reply"
    /\ replies' = [replies EXCEPT ![t] = @ + 1]
    /\ Goto(p, "complete", [job[p] EXCEPT !.created = replies[t] + 1])
    /\ UNCHANGED <<made, task, receipt, cases, replans, handoffs, history, bounds>>

\* MoveReceipt refuses a review that is not active any more.
Complete_Unchecked(p) ==
    LET t == job[p].task IN
    /\ pc[p] = "complete"
    /\ receipt' = [receipt EXCEPT ![t] = "done"]
    /\ Goto(p, "respond", job[p])
    /\ UNCHANGED <<made, task, cases, replans, handoffs, replies, history, bounds>>

Complete(p) ==
    LET t == job[p].task IN
    /\ pc[p] = "complete"
    /\ receipt' = [receipt EXCEPT ![t] = IF @ = "open" THEN "done" ELSE @]
    /\ IF Open(t) THEN Goto(p, "respond", job[p]) ELSE Return(p)
    /\ UNCHANGED <<made, task, cases, replans, handoffs, replies, history, bounds>>

Respond_KeepStatus(p) ==
    LET j == job[p] IN
    /\ pc[p] = "respond"
    /\ SetHandoff(j.source, [handoffs[j.source] EXCEPT
                               !.outcome = j.kind, !.response = j.created])
    /\ Return(p)

Respond(p) ==
    LET j == job[p] IN
    /\ pc[p] = "respond"
    /\ SetHandoff(j.source, [handoffs[j.source] EXCEPT
                               !.status = "responded", !.outcome = j.kind, !.response = j.created])
    /\ Return(p)

ReviewStep(p) ==
    \/ \E t \in Documents : TaskDone(p, t)
    \/ \E t \in Documents, o \in Outcomes : ReviewRespond(p, t, o)
    \/ CheckHandoff(p)
    \/ RouteReview(p) \/ DeliverReview(p) \/ RouteReviewFails(p) \/ ReviewFails(p)
    \/ CreateReviewHandoff(p) \/ UpsertFailedReviewHandoff(p)
    \/ FindHandoff(p) \/ Reply(p) \/ Complete(p) \/ Respond(p)
=============================================================================
