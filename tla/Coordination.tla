---------------------------- MODULE Coordination ----------------------------
(***************************************************************************)
(* One coordinator run: agents wait, block, complete and review tasks,     *)
(* operators resolve escalated cases, all on the documents of RunDocs, in  *)
(* commands that run beside each other and may be killed.                  *)
(***************************************************************************)
EXTENDS BlockerCase, ReviewHandoff

Init ==
    /\ made = 0
    /\ task = [t \in Tasks |-> NoTask]
    /\ receipt = [t \in Tasks |-> "none"]
    /\ cases = [t \in Tasks |-> NoCase]
    /\ replans = [t \in Tasks |-> NoReplan]
    /\ handoffs = [t \in Tasks |-> NoHandoff]
    /\ replies = [t \in Tasks |-> 0]
    /\ pc = [p \in Procs |-> "idle"]
    /\ job = [p \in Procs |-> NoJob]
    /\ work = [t \in Tasks |-> [of |-> 0, by |-> "none"]]
    /\ disturbed = {} /\ reopened = {} /\ abandoned = {} /\ halfMade = {}
    /\ commands = 0
    /\ kills = 0

\* A command dies between two of its steps.
Kill(p) ==
    LET t == job[p].task IN
    /\ pc[p] # "idle"
    /\ kills < MaxKills
    /\ kills' = kills + 1
    /\ Return(p)
    /\ disturbed' = IF pc[p] \in BlockerSteps THEN disturbed \cup {WorkOf(p)} ELSE disturbed
    /\ abandoned' = IF pc[p] \in ReviewSteps \ {"findHandoff", "reply", "complete"}
                    THEN abandoned \cup {t} ELSE abandoned
    /\ halfMade' = IF pc[p] \in DeliverSteps THEN halfMade \cup {job[p].created} ELSE halfMade
    /\ UNCHANGED <<docs, work, reopened, commands>>

Next == \E p \in Procs : RouteStep(p) \/ BlockerStep(p) \/ ReviewStep(p) \/ Kill(p)

Spec == Init /\ [][Next]_vars

-----------------------------------------------------------------------------
(***************************************************************************)
(* Properties.                                                             *)
(***************************************************************************)
JobKinds == Kinds \cup ResolutionActions \cup Outcomes \cup {"none"}
JobDoc ==
    [task : 0..MaxTasks, kind : JobKinds,
     source : 0..MaxTasks, copy : CaseDoc \cup {NoCase}, reloaded : CaseDoc \cup {NoCase},
     suspended : BOOLEAN, created : Nat]

Origins == {"none", "add", "review", "reroute_needed", "manual_reroute", "partial_replan"}

TypeOK ==
    /\ made \in 0..MaxTasks
    /\ task \in [Tasks -> TaskDoc \cup {NoTask}]
    /\ receipt \in [Tasks -> {"none", "open", "done", "dead"}]
    /\ cases \in [Tasks -> CaseDoc \cup {NoCase}]
    /\ replans \in [Tasks -> ReplanDoc \cup {NoReplan}]
    /\ handoffs \in [Tasks -> HandoffDoc \cup {NoHandoff}]
    /\ replies \in [Tasks -> Nat]
    /\ pc \in [Procs -> {"idle"} \cup DeliverSteps \cup BlockerSteps \cup ReviewSteps]
    /\ job \in [Procs -> JobDoc]
    /\ work \in [Tasks -> [of : 0..MaxTasks, by : Origins]]
    /\ \A p \in Procs : pc[p] = "idle" <=> job[p] = NoJob
    /\ \A t \in Tasks : t \in Documents <=> task[t] # NoTask
    /\ \A t \in Tasks : receipt[t] # "none" => t \in Documents
    /\ disturbed \cup reopened \cup abandoned \cup halfMade \subseteq Documents
    /\ commands \in 0..MaxCommands
    /\ kills \in 0..MaxKills

\* Whatever overlaps, fails or is killed, every handoff, case and replan passes
\* its Validate and names only tasks and replies that exist: the commands write
\* what they refer to first.
LinksResolve ==
    /\ \A s \in WithHandoff : HandoffLoads(s)
    /\ \A s \in WithCase : CaseLoads(s)
    /\ \A s \in WithReplan : ReplanLoads(s)

\* The tasks that carry on one added task.
Lineage(w) == {t \in Documents : work[t].of = w}
Works == {w \in Documents : work[w].of = w}

Busy(w) == \E p \in Procs : WorkOf(p) = w

\* 04-CONTEXT.md D-08 and D-10: reroutes are counted per original work and
\* there is none beyond the ceiling, however often the work moves between
\* owners, is escalated, rerouted by hand, replanned and blocked again.
CeilingKept ==
    \A w \in Works \ disturbed :
        Cardinality({t \in Lineage(w) : work[t].by = "reroute_needed"}) <= MaxReroutes

\* rerouteBlockerTask and createPartialReplanTask: a work has one open task,
\* and between blocker commands its case knows that task as the current one,
\* so that the next blocker finds the case.
OneHolder ==
    \A w \in Works \ disturbed : \A t \in Lineage(w) :
        Open(t) => /\ \A u \in Lineage(w) : Open(u) => u = t
                   /\ ~Busy(w) /\ w \in WithCase => cases[w].current = t

\* recordCoordinatorBlocker and BlockerResolve: between blocker commands the
\* case lists every reroute of its work, those by hand included, and counts
\* those the coordinator made.
AttemptsRecorded ==
    \A w \in Works \ disturbed :
        LET by(origins) == {t \in Lineage(w) : work[t].by \in origins} IN
        ~Busy(w) =>
            /\ cases[w].attempts = by({"reroute_needed", "manual_reroute"})
            /\ cases[w].count = Cardinality(by({"reroute_needed"}))

\* LoadRunGraph accepts the run, but while a task is being created or after the
\* creation of one was cut short, and but for replans that were interrupted,
\* are not recorded in their case yet or are of a work that was blocked again.
ReplansSettled ==
    \A s \in WithReplan : ~Busy(work[s].of) /\ work[s].of \notin disturbed \cup reopened

RunLoads == ~RouteLocked /\ halfMade = {} /\ ReplansSettled => LoadRunGraph

\* BuildRunSummary hides no work: whatever is open and not a review is shown
\* by a row, its own or that of the task it replaces.
OpenWorkIsShown ==
    LET shown == Rows \cup {Effective(s) : s \in Rows} IN
    \A t \in Documents :
        LET w == work[t].of IN
        Open(t) /\ task[w].class # "review" /\ ~Busy(w) /\ w \notin disturbed =>
            t \in shown

\* A handoff that waits for its review can still be answered, unless the
\* reviewer gave up or was killed after completing the review.
PendingIsAnswerable ==
    \A s \in Documents :
        LET r == handoffs[s].review IN
        handoffs[s].status = "pending" /\ r \notin abandoned =>
            Open(r) \/ \E p \in Procs : pc[p] = "respond" /\ job[p].task = r

\* The summary calls a work that requires a review completed only when it was
\* approved.
CompletedIsReviewed ==
    \A s \in Rows :
        LET t == Effective(s) IN
        SummaryStatus(s) = "completed" /\ HandsOff(t) =>
            \/ EffectiveReview(s).outcome = "approved"
            \/ t \in abandoned
            \/ \E p \in Procs : pc[p] \in ReviewSteps /\ job[p].task = t

\* A review is answered once: later answers and failures leave it alone.
AnswerStands ==
    [][\A s \in Tasks : handoffs[s].status = "responded" => handoffs'[s] = handoffs[s]]_vars

AtRest == \A p \in Procs : pc[p] = "idle"

\* 01-03-PLAN.md: the run can be reconstructed from disk after a restart.
Reconstructible == AtRest => LoadRunGraph

\* 05-CONTEXT.md D-09: each logical work item appears once in the summary.
OneRowPerWork ==
    AtRest => \A w \in Works :
        Cardinality({s \in Rows : work[s].of = w}) <= 1
=============================================================================
