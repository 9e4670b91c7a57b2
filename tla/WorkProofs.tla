----------------------------- MODULE WorkProofs -----------------------------
(***************************************************************************)
(* The books of a work: whoever blocks, reroutes, escalates and replans    *)
(* it, its case counts its reroutes, names its one open task and agrees    *)
(* with its replan, unless two blocker commands on it overlapped or one    *)
(* was killed or failed once it had created its replacement.  For any      *)
(* processes, domains, declared kinds and ceiling.                         *)
(***************************************************************************)
EXTENDS CoordinationProofs, FiniteSetTheorems

\* The task that a work is at, as its case says.
Current(w) == IF w \in WithCase THEN cases[w].current ELSE w

\* The tasks of a work that came in one of the ways.
By(w, origins) == {t \in Lineage(w) : work[t].by \in origins}
Automatic == {"reroute_needed"}
Attempts == {"reroute_needed", "manual_reroute"}

\* The case lists and counts the reroutes of w, but for the tasks in new.
Books(w, new) ==
    /\ cases[w].attempts = By(w, Attempts) \ new
    /\ cases[w].count = Cardinality(By(w, Automatic) \ new)
    /\ cases[w].count <= MaxReroutes

Holder(w, h) == \A t \in Lineage(w) : Open(t) => t = h

\* The replacement that a command has made and not recorded yet.
Made(j) == IF j.created = 0 THEN {} ELSE {j.created}
Holding(j) == IF j.created = 0 THEN j.task ELSE j.created

Rerouting(j) == SelectBlockerAction(j.kind, j.copy.count) = "reroute"

\* What a blocker command has read and made belongs to one work, also when
\* others overlap.
LineageJob(p) ==
    LET j == job[p] IN
    pc[p] \in BlockerSteps =>
        /\ pc[p] = "findCase" => j.copy = NoCase
        /\ pc[p] # "findCase" => work[j.source].of = WorkOf(p)
        /\ pc[p] # "findCase" /\ j.copy # NoCase => work[j.copy.current].of = WorkOf(p)
        /\ pc[p] \in {"findCase", "suspend", "route", "restore"} => j.created = 0
        /\ pc[p] \in {"suspend", "route", "deliverReplacement", "restore"} /\ j.kind = "reroute_needed" =>
             Rerouting(j)
        /\ pc[p] = "persist" => (j.created # 0 <=> Rerouting(j))
        /\ pc[p] \in {"reload", "write"} => (j.created # 0 <=> j.kind \in Moves)
        /\ j.created # 0 =>
             /\ j.created \in Documents /\ work[j.created].of # j.created
             /\ work[j.created] = [of |-> WorkOf(p), by |-> j.kind]

LineageInv ==
    /\ \A t \in Documents : work[t].of \in Works
    /\ \A s \in WithCase : work[cases[s].current].of = work[s].of
    /\ \A s \in WithReplan : work[replans[s].replacement].of # replans[s].replacement
    /\ \A p \in Procs : LineageJob(p)

\* A blocker command alone on its work.
AtWork(p, w) ==
    LET j == job[p] IN
    /\ j.task = Current(w)
    /\ Books(w, Made(j)) /\ Holder(w, Holding(j))
    /\ pc[p] # "findCase" => j.source = w /\ j.copy = cases[w]
    /\ pc[p] \in {"route", "deliverReplacement", "restore"} => \A t \in Lineage(w) : ~Open(t)
    /\ pc[p] = "write" => j.reloaded = cases[w]
    /\ j.kind \in ResolutionActions => cases[w].status = "escalated"
    /\ j.kind = "partial_replan" /\ pc[p] \notin {"reload", "write"} => w \notin WithReplan

Recording(p, w) ==
    /\ WorkOf(p) = w /\ pc[p] \in {"reload", "write"}
    /\ job[p].kind = "partial_replan" /\ job[p].created = replans[w].replacement

Alone(w) == \A p, q \in Procs : WorkOf(p) = w /\ WorkOf(q) = w => p = q

\* Case and replan of a work are those of its first task.
Rooted(w) == \A s \in WithCase \cup WithReplan : work[s].of = w => s = w

ReplanKept(w) ==
    w \in WithReplan \ reopened =>
        \/ ReplanAgrees(w) /\ cases[w].status = "resolved"
        \/ \E p \in Procs : Recording(p, w)

WorkFine(w) ==
    /\ Alone(w) /\ Rooted(w) /\ ReplanKept(w)
    /\ ~Busy(w) => Books(w, {}) /\ Holder(w, Current(w))
    /\ \A p \in Procs : WorkOf(p) = w => AtWork(p, w)

\* A task that is created aside of the blocker commands is the first of a work
\* that none of them is at.
Aloof == {"deliverTask", "deliverReview"}
Fresh(t) == Lineage(t) = {t} /\ work[t].of = t /\ t \notin WithCase /\ ~Busy(t)
FreshInv == \A p \in Procs : pc[p] \in Aloof => Fresh(job[p].created)

WorksInv == /\ CreationInv /\ LineageInv /\ FreshInv
            /\ \A w \in Works \ disturbed : WorkFine(w)
USE DEF Tasks, Documents

-----------------------------------------------------------------------------
(***************************************************************************)
(* Lineages.                                                               *)
(***************************************************************************)

\* The facts of the documents and the commands that the lineages rest on.
LEMMA DocumentFacts ==
  ASSUME IInv
  PROVE  /\ made \in 0..MaxTasks /\ MaxTasks \in Nat /\ Documents \subseteq Tasks /\ 0 \notin Documents
         /\ \A s \in WithCase : s \in Documents /\ cases[s].current \in Documents /\ cases[s] \in CaseDoc
         /\ \A s \in WithReplan : s \in Documents /\ replans[s].replacement \in Documents
         /\ \A t \in Documents : work[t].of \in Documents
<1>1. /\ made \in 0..MaxTasks /\ MaxTasks \in Nat /\ Documents \subseteq Tasks /\ 0 \notin Documents
      /\ \A t \in Documents : work[t].of \in Documents
  BY RunDocsAssumption DEF IInv, TypeOK, WorkInv
<1>2. ASSUME NEW s \in WithCase
      PROVE  s \in Documents /\ cases[s].current \in Documents /\ cases[s] \in CaseDoc
  BY DEF IInv, TypeOK, CasesInv, CaseFine, WithCase
<1>3. \A s \in WithReplan : s \in Documents /\ replans[s].replacement \in Documents
  BY DEF IInv, ReplansInv, ReplanFine
<1> QED BY <1>1, <1>2, <1>3

LEMMA CommandFacts ==
  ASSUME IInv, NEW p \in Procs, pc[p] \in BlockerSteps
  PROVE  /\ job[p] \in JobDoc /\ job[p].task \in Documents /\ WorkOf(p) = work[job[p].task].of
         /\ pc[p] # "findCase" => job[p].source \in Documents
         /\ job[p].copy # NoCase => job[p].copy.current \in Documents
BY DEF IInv, TypeOK, BlockerJobs, BlockerJob, CaseFine, WorkOf

\* Tasks are added, and keep their lineage.
TasksGrow ==
    /\ made' \in Nat /\ made <= made'
    /\ \A t \in Documents : work'[t] = work[t]

LEMMA OthersWork ==
  ASSUME IInv, NEW p \in Procs, NEW step, NEW j, Goto(p, step, j), TasksGrow,
         NEW q \in Procs \ {p}
  PROVE  /\ pc'[q] = pc[q] /\ job'[q] = job[q] /\ WorkOf(q)' = WorkOf(q)
<1>1. pc'[q] = pc[q] /\ job'[q] = job[q]
  BY DEF Goto, IInv, TypeOK
<1>2. CASE pc[q] \in BlockerSteps
  <2>1. work'[job[q].task] = work[job[q].task]
    BY <1>2, CommandFacts DEF TasksGrow
  <2> QED BY <1>1, <2>1 DEF WorkOf
<1>3. CASE pc[q] \notin BlockerSteps
  BY <1>1, <1>3 DEF WorkOf
<1> QED BY <1>1, <1>2, <1>3

LEMMA OthersLineage ==
  ASSUME IInv, LineageInv, NEW p \in Procs, NEW step, NEW j, Goto(p, step, j), TasksGrow,
         NEW q \in Procs \ {p}
  PROVE  LineageJob(q)'
<1>1. pc'[q] = pc[q] /\ job'[q] = job[q] /\ WorkOf(q)' = WorkOf(q)
  BY OthersWork
<1>2. SUFFICES ASSUME pc[q] \in BlockerSteps PROVE LineageJob(q)'
  BY <1>1 DEF LineageJob
<1>3. LineageJob(q)
  BY DEF LineageInv
<1>4. /\ pc[q] # "findCase" => work'[job[q].source] = work[job[q].source]
      /\ job[q].copy # NoCase => work'[job[q].copy.current] = work[job[q].copy.current]
      /\ job[q].created \in Documents =>
           work'[job[q].created] = work[job[q].created] /\ job[q].created \in Documents'
  BY <1>2, CommandFacts, DocumentFacts DEF TasksGrow
<1> QED BY <1>1, <1>2, <1>3, <1>4 DEF LineageJob, Rerouting

\* A step of one process keeps the lineages when what it writes does.
LEMMA LineageStep ==
  ASSUME IInv, LineageInv, NEW p \in Procs, NEW step, NEW j, Goto(p, step, j), TasksGrow,
         \A t \in Documents' \ Documents : work'[t].of = t \/ work'[t].of \in Works,
         \A s \in WithCase' :
            \/ s \in WithCase /\ cases'[s] = cases[s]
            \/ work'[cases'[s].current].of = work'[s].of,
         \A s \in WithReplan' :
            \/ s \in WithReplan /\ replans'[s] = replans[s]
            \/ work'[replans'[s].replacement].of # replans'[s].replacement,
         LineageJob(p)'
  PROVE  LineageInv'
<1>1. made \in Nat /\ Documents \subseteq Documents'
  BY DocumentFacts DEF TasksGrow
<1>2. Works \subseteq Works'
  BY <1>1 DEF Works, TasksGrow
<1>3. ASSUME NEW t \in Documents'
      PROVE  work'[t].of \in Works'
  <2>1. CASE t \in Documents
    BY <1>2, <2>1 DEF LineageInv, TasksGrow
  <2>2. CASE t \notin Documents
    BY <1>2, <1>3, <2>2 DEF Works
  <2> QED BY <2>1, <2>2
<1>4. ASSUME NEW s \in WithCase'
      PROVE  work'[cases'[s].current].of = work'[s].of
  BY <1>4, DocumentFacts DEF LineageInv, TasksGrow
<1>5. ASSUME NEW s \in WithReplan'
      PROVE  work'[replans'[s].replacement].of # replans'[s].replacement
  BY <1>5, DocumentFacts DEF LineageInv, TasksGrow
<1>6. \A q \in Procs : LineageJob(q)'
  BY OthersLineage
<1> QED BY <1>3, <1>4, <1>5, <1>6 DEF LineageInv

\* A step that changes neither tasks, cases nor replans.
LEMMA LineageReading ==
  ASSUME IInv, LineageInv, NEW p \in Procs, NEW step, NEW j, Goto(p, step, j),
         UNCHANGED <<made, work, cases, replans>>, LineageJob(p)'
  PROVE  LineageInv' /\ TasksGrow
<1>1. TasksGrow
  BY DocumentFacts DEF TasksGrow
<1> QED BY <1>1, LineageStep DEF WithCase, WithReplan

\* A process that is not at a blocker command.
LEMMA OutsideLineage ==
  ASSUME IInv, NEW p \in Procs, NEW step, NEW j, Goto(p, step, j), step \notin BlockerSteps
  PROVE  pc'[p] = step /\ job'[p] = j /\ LineageJob(p)' /\ WorkOf(p)' = 0
<1>1. pc'[p] = step /\ job'[p] = j
  BY DEF Goto, IInv, TypeOK
<1> QED BY <1>1 DEF LineageJob, WorkOf

LEMMA AtStep ==
  ASSUME IInv, NEW p \in Procs, NEW step, NEW j, Goto(p, step, j), step \in BlockerSteps,
         j.task \in Documents, TasksGrow
  PROVE  /\ pc'[p] = step /\ job'[p] = j /\ WorkOf(p)' = work[j.task].of
         /\ pc[p] \in BlockerSteps /\ j.task = job[p].task => WorkOf(p)' = WorkOf(p)
<1>1. pc'[p] = step /\ job'[p] = j
  BY DEF Goto, IInv, TypeOK
<1> QED BY <1>1 DEF WorkOf, TasksGrow

LEMMA CreateTaskFacts ==
  ASSUME IInv, NEW doc, NEW of, NEW by, CreateTask(doc, of, by)
  PROVE  /\ TasksGrow /\ Documents' = Documents \cup {made + 1}
         /\ made + 1 \notin Documents /\ made + 1 # 0 /\ receipt[made + 1] = "none"
         /\ work'[made + 1] = [of |-> of, by |-> by]
<1>1. made \in 0..MaxTasks /\ made < MaxTasks /\ MaxTasks \in Nat /\ made' = made + 1
  BY DocumentFacts DEF CreateTask
<1>2. /\ made + 1 \in Tasks /\ made + 1 \notin Documents /\ made + 1 # 0
      /\ Documents' = Documents \cup {made + 1} /\ made' \in Nat /\ made <= made'
  BY <1>1
<1>3. DOMAIN work = Tasks /\ receipt[made + 1] = "none"
  BY <1>2 DEF IInv, TypeOK
<1>4. /\ work'[made + 1] = [of |-> of, by |-> by]
      /\ \A t \in Documents : work'[t] = work[t]
  BY <1>2, <1>3 DEF CreateTask
<1> QED BY <1>2, <1>3, <1>4 DEF TasksGrow

\* A command goes on with the same locals, but for what a later step reads
\* or makes.
LEMMA GoesOn ==
  ASSUME IInv, LineageInv, NEW p \in Procs, pc[p] \in BlockerSteps, NEW step \in BlockerSteps, NEW j,
         Goto(p, step, j), UNCHANGED <<made, work, cases, replans>>,
         j.task = job[p].task, j.kind = job[p].kind, j.source = job[p].source,
         j.copy = job[p].copy, j.created = job[p].created,
         <<pc[p], step>> \in {<<"suspend", "route">>, <<"reload", "write">>}
  PROVE  LineageInv'
<1>1. TasksGrow
  BY DocumentFacts DEF TasksGrow
<1>2. LineageJob(p) /\ job[p].task \in Documents
  BY CommandFacts DEF LineageInv
<1>3. pc'[p] = step /\ job'[p] = j /\ WorkOf(p)' = WorkOf(p)
  BY <1>1, <1>2, AtStep
<1>4. \/ pc[p] = "suspend" /\ step = "route"
      \/ pc[p] = "reload" /\ step = "write"
  OBVIOUS
<1>5. LineageJob(p)'
  BY <1>2, <1>3, <1>4 DEF LineageJob, Rerouting
<1> QED BY <1>5, LineageReading

LEMMA TaskBlockLineage ==
  ASSUME IInv, LineageInv, NEW p \in Procs, NEW t \in Documents, NEW kind \in Kinds,
         TaskBlock(p, t, kind)
  PROVE  LineageInv'
<1>1. PICK j : j = [NoJob EXCEPT !.task = t, !.kind = kind]
  OBVIOUS
<1>2. Goto(p, "findCase", j) /\ UNCHANGED <<made, work, cases, replans>>
  BY <1>1 DEF TaskBlock, Begin, docs
<1>3. pc'[p] = "findCase" /\ job'[p] = j
  BY <1>2 DEF Goto, IInv, TypeOK
<1>4. j.created = 0 /\ j.copy = NoCase
  BY <1>1 DEF NoJob
<1>5. LineageJob(p)'
  BY <1>3, <1>4 DEF LineageJob
<1> QED BY <1>2, <1>5, LineageReading

LEMMA FindCaseLineage ==
  ASSUME IInv, LineageInv, NEW p \in Procs, FindCase(p)
  PROVE  LineageInv'
<1> DEFINE t == job[p].task
           Continue(k) ==
              Goto(p, IF SelectBlockerAction(job[p].kind, k.copy.count) = "reroute"
                      THEN "suspend" ELSE "persist", k)
<1>1. /\ pc[p] = "findCase" /\ UNCHANGED <<made, work, cases, replans>>
  BY DEF FindCase, docs, history
<1>2. /\ job[p] \in JobDoc /\ t \in Documents /\ WorkOf(p) = work[t].of
      /\ job[p].created = 0 /\ job[p].copy = NoCase
  BY <1>1, CommandFacts DEF BlockerSteps, LineageInv, LineageJob
<1>3. TasksGrow
  BY <1>1, DocumentFacts DEF TasksGrow
<1>4. ASSUME NEW s, NEW c, NEW j, j = [job[p] EXCEPT !.source = s, !.copy = c], Continue(j),
             work[s].of = work[t].of, c # NoCase => work[c.current].of = work[t].of
      PROVE  LineageInv'
  <2>1. /\ j.task = t /\ j.kind = job[p].kind /\ j.source = s /\ j.copy = c /\ j.created = 0
    BY <1>2, <1>4 DEF JobDoc
  <2>2. PICK step \in {"suspend", "persist"} :
          Goto(p, step, j) /\ (step = "suspend" <=> Rerouting(j))
    BY <1>4, <2>1 DEF Rerouting
  <2>3. pc'[p] = step /\ job'[p] = j /\ WorkOf(p)' = work[t].of
    BY <1>2, <1>3, <2>1, <2>2, AtStep DEF BlockerSteps
  <2>4. work'[s] = work[s] /\ work'[c.current] = work[c.current]
    BY <1>1
  <2>5. LineageJob(p)'
    BY <1>4, <2>1, <2>2, <2>3, <2>4 DEF LineageJob, Rerouting
  <2> QED BY <1>1, <2>2, <2>5, LineageReading
<1>5. CASE Continue([job[p] EXCEPT !.source = t])
  <2>1. PICK j : j = [job[p] EXCEPT !.source = t]
    OBVIOUS
  <2>2. j = [job[p] EXCEPT !.source = t, !.copy = NoCase]
    BY <1>2, <2>1 DEF JobDoc
  <2> QED BY <1>4, <1>5, <2>1, <2>2
<1>6. ASSUME NEW s \in CasesOf(t), Continue([job[p] EXCEPT !.source = s, !.copy = cases[s]])
      PROVE  LineageInv'
  <2>1. work[s].of = work[t].of /\ work[cases[s].current].of = work[t].of
    BY <1>6 DEF CasesOf, LineageInv
  <2>2. PICK j : j = [job[p] EXCEPT !.source = s, !.copy = cases[s]]
    OBVIOUS
  <2> QED BY <1>4, <1>6, <2>1, <2>2
<1>7. CASE Return(p)
  BY <1>1, <1>7, OutsideLineage, LineageReading DEF Return, BlockerSteps
<1> QED BY <1>5, <1>6, <1>7 DEF FindCase

LEMMA BlockerResolveLineage ==
  ASSUME IInv, LineageInv, NEW p \in Procs, NEW s \in Documents, NEW action \in ResolutionActions,
         BlockerResolve(p, s, action)
  PROVE  LineageInv'
<1> DEFINE step == IF action \in {"manual_reroute", "partial_replan"} THEN "suspend" ELSE "reload"
<1>1. PICK j : j = [NoJob EXCEPT !.task = cases[s].current, !.kind = action,
                                 !.source = s, !.copy = cases[s]]
  OBVIOUS
<1>2. /\ j.task = cases[s].current /\ j.kind = action /\ j.source = s /\ j.copy = cases[s]
      /\ j.created = 0
  BY <1>1 DEF NoJob
<1>3. Goto(p, step, j) /\ UNCHANGED <<made, work, cases, replans>>
  BY <1>1 DEF BlockerResolve, Begin, docs
<1>4. TasksGrow
  BY <1>3, DocumentFacts DEF TasksGrow
<1>5. s \in WithCase /\ j.task \in Documents /\ work[j.task].of = work[s].of
  <2>1. s \in WithCase
    BY DocumentFacts DEF BlockerResolve, WithCase, NoCase
  <2> QED BY <1>2, <2>1, DocumentFacts DEF LineageInv
<1>6. pc'[p] = step /\ job'[p] = j /\ WorkOf(p)' = work[s].of
  BY <1>3, <1>4, <1>5, AtStep DEF BlockerSteps
<1>7. LineageJob(p)'
  BY <1>2, <1>3, <1>5, <1>6 DEF LineageJob, ResolutionActions, Moves
<1> QED BY <1>3, <1>7, LineageReading

LEMMA SuspendLineage ==
  ASSUME IInv, LineageInv, NEW p \in Procs, Suspend(p)
  PROVE  LineageInv'
<1>1. PICK j : j = [job[p] EXCEPT !.suspended = Open(job[p].task)]
  OBVIOUS
<1>2. pc[p] = "suspend" /\ Goto(p, "route", j) /\ UNCHANGED <<made, work, cases, replans>>
  BY <1>1 DEF Suspend
<1>3. /\ j.task = job[p].task /\ j.kind = job[p].kind /\ j.source = job[p].source
      /\ j.copy = job[p].copy /\ j.created = job[p].created
  BY <1>1, <1>2, CommandFacts DEF JobDoc, BlockerSteps
<1> QED BY <1>2, <1>3, GoesOn DEF BlockerSteps

\* The failed route names no replacement, and a suspended receipt is put back.
LEMMA GiveUpFacts ==
  ASSUME IInv, LineageInv, NEW p \in Procs, pc[p] \in {"route", "deliverReplacement"}, GiveUp(p),
         UNCHANGED <<made, work, cases, replans>>
  PROVE  /\ LineageInv' /\ TasksGrow
         /\ \E step, j :
              /\ step \in {"idle", "restore"} /\ Goto(p, step, j) /\ pc'[p] = step /\ job'[p] = j
              /\ step = "idle" => WorkOf(p)' = 0
              /\ step = "restore" =>
                   /\ WorkOf(p)' = WorkOf(p) /\ j.created = 0
                   /\ j.task = job[p].task /\ j.kind = job[p].kind /\ j.source = job[p].source
                   /\ j.copy = job[p].copy
<1>1. TasksGrow /\ pc[p] \in BlockerSteps
  BY DocumentFacts DEF TasksGrow, BlockerSteps
<1>2. CASE job[p].suspended
  <2>1. PICK j : j = [job[p] EXCEPT !.created = 0]
    OBVIOUS
  <2>2. /\ j.task = job[p].task /\ j.kind = job[p].kind /\ j.source = job[p].source
        /\ j.copy = job[p].copy /\ j.created = 0 /\ j.task \in Documents
    BY <1>1, <2>1, CommandFacts DEF JobDoc
  <2>3. Goto(p, "restore", j)
    BY <1>2, <2>1 DEF GiveUp
  <2>4. pc'[p] = "restore" /\ job'[p] = j /\ WorkOf(p)' = WorkOf(p)
    BY <1>1, <2>2, <2>3, AtStep DEF BlockerSteps
  <2>5. LineageJob(p)'
    BY <1>1, <2>2, <2>4 DEF LineageInv, LineageJob, Rerouting
  <2> QED BY <1>1, <2>2, <2>3, <2>4, <2>5, LineageReading
<1>3. CASE ~job[p].suspended
  <2>1. Goto(p, "idle", NoJob)
    BY <1>3 DEF GiveUp, Return
  <2>2. pc'[p] = "idle" /\ job'[p] = NoJob /\ LineageJob(p)' /\ WorkOf(p)' = 0
    BY <2>1, OutsideLineage DEF BlockerSteps
  <2> QED BY <1>1, <2>1, <2>2, LineageReading
<1> QED BY <1>2, <1>3

LEMMA RouteFailsLineage ==
  ASSUME IInv, LineageInv, NEW p \in Procs, RouteFails(p) \/ ReplacementFails(p)
  PROVE  LineageInv'
<1>1. /\ pc[p] \in {"route", "deliverReplacement"} /\ GiveUp(p)
      /\ UNCHANGED <<made, work, cases, replans>>
  BY DEF RouteFails, ReplacementFails, docs, history
<1> QED BY <1>1, GiveUpFacts

LEMMA RestoreLineage ==
  ASSUME IInv, LineageInv, NEW p \in Procs, Restore(p)
  PROVE  LineageInv'
<1>1. Return(p) /\ UNCHANGED <<made, work, cases, replans>>
  BY DEF Restore, history
<1> QED BY <1>1, OutsideLineage, LineageReading DEF Return, BlockerSteps

LEMMA ReloadCaseLineage ==
  ASSUME IInv, LineageInv, NEW p \in Procs, ReloadCase(p)
  PROVE  LineageInv'
<1>1. PICK j : j = [job[p] EXCEPT !.reloaded = cases[job[p].source]]
  OBVIOUS
<1>2. pc[p] = "reload" /\ Goto(p, "write", j) /\ UNCHANGED <<made, work, cases, replans>>
  BY <1>1 DEF ReloadCase, docs, history
<1>3. /\ j.task = job[p].task /\ j.kind = job[p].kind /\ j.source = job[p].source
      /\ j.copy = job[p].copy /\ j.created = job[p].created
  BY <1>1, <1>2, CommandFacts DEF JobDoc, BlockerSteps
<1> QED BY <1>2, <1>3, GoesOn DEF BlockerSteps

\* The replacement carries on the work of the source.
LEMMA RouteReplacementFacts ==
  ASSUME IInv, LineageInv, NEW p \in Procs, RouteReplacement(p)
  PROVE  /\ pc[p] = "route" /\ pc[p] \in BlockerSteps
         /\ job[p].task \in Documents /\ job[p].source \in Documents /\ job[p].created = 0
         /\ \E doc : CreateTask(doc, WorkOf(p), job[p].kind)
         /\ Goto(p, "deliverReplacement", job'[p]) /\ pc'[p] = "deliverReplacement"
         /\ WorkOf(p)' = WorkOf(p)
         /\ job'[p].task = job[p].task /\ job'[p].kind = job[p].kind
         /\ job'[p].source = job[p].source /\ job'[p].copy = job[p].copy
         /\ job'[p].created = made + 1
<1>1. pc[p] = "route" /\ pc[p] \in BlockerSteps /\ "deliverReplacement" \in BlockerSteps
  BY DEF RouteReplacement, BlockerSteps
<1>2. /\ job[p] \in JobDoc /\ job[p].task \in Documents /\ job[p].source \in Documents
      /\ work[job[p].source].of = WorkOf(p) /\ job[p].created = 0
  BY <1>1, CommandFacts DEF LineageInv, LineageJob
<1>3. PICK doc : CreateTask(doc, WorkOf(p), job[p].kind)
  BY <1>2 DEF RouteReplacement
<1>4. PICK j : j = [job[p] EXCEPT !.created = made + 1]
  OBVIOUS
<1>5. /\ j.task = job[p].task /\ j.kind = job[p].kind
      /\ j.source = job[p].source /\ j.copy = job[p].copy /\ j.created = made + 1
  BY <1>2, <1>4 DEF JobDoc
<1>6. Goto(p, "deliverReplacement", j)
  BY <1>4 DEF RouteReplacement
<1>7. TasksGrow
  BY <1>3, CreateTaskFacts
<1>8. pc'[p] = "deliverReplacement" /\ job'[p] = j /\ WorkOf(p)' = WorkOf(p)
  BY <1>1, <1>2, <1>5, <1>6, <1>7, AtStep
<1> QED BY <1>1, <1>2, <1>3, <1>5, <1>6, <1>8

LEMMA RouteReplacementLineage ==
  ASSUME IInv, LineageInv, NEW p \in Procs, RouteReplacement(p)
  PROVE  LineageInv'
<1>1. PICK doc : CreateTask(doc, WorkOf(p), job[p].kind)
  BY RouteReplacementFacts
<1>2. PICK j : j = job'[p]
  OBVIOUS
<1>3. /\ TasksGrow /\ Documents' = Documents \cup {made + 1}
      /\ made + 1 \notin Documents /\ made + 1 # 0
      /\ work'[made + 1] = [of |-> WorkOf(p), by |-> job[p].kind]
  BY <1>1, CreateTaskFacts
<1>4. /\ pc[p] = "route" /\ pc[p] \in BlockerSteps /\ job[p].source \in Documents
      /\ Goto(p, "deliverReplacement", j) /\ pc'[p] = "deliverReplacement"
      /\ WorkOf(p)' = WorkOf(p)
      /\ j.kind = job[p].kind /\ j.source = job[p].source
      /\ j.copy = job[p].copy /\ j.created = made + 1
  BY <1>2, RouteReplacementFacts
<1>5. /\ WorkOf(p) \in Works /\ WorkOf(p) \in Documents
      /\ job[p].copy # NoCase => job[p].copy.current \in Documents
      /\ LineageJob(p)
  BY <1>4, CommandFacts DEF LineageInv, Works
<1>6. LineageJob(p)'
  <2>1. work'[job[p].source] = work[job[p].source]
    BY <1>3, <1>4 DEF TasksGrow
  <2>2. job[p].copy # NoCase => work'[job[p].copy.current] = work[job[p].copy.current]
    BY <1>3, <1>5 DEF TasksGrow
  <2>3. WorkOf(p) # made + 1
    BY <1>3, <1>5
  <2> QED BY <1>2, <1>3, <1>4, <1>5, <2>1, <2>2, <2>3 DEF LineageJob, Rerouting
<1>7. cases' = cases /\ replans' = replans
  BY DEF RouteReplacement
<1> QED BY <1>3, <1>4, <1>5, <1>6, <1>7, LineageStep DEF WithCase, WithReplan

LEMMA DeliverReplacementFacts ==
  ASSUME IInv, LineageInv, NEW p \in Procs, DeliverReplacement(p)
  PROVE  /\ pc[p] = "deliverReplacement" /\ pc[p] \in BlockerSteps
         /\ job[p].task \in Documents /\ job[p].created \in Documents /\ job[p].created # 0
         /\ UNCHANGED <<made, work, cases, replans, disturbed, reopened>> /\ TasksGrow
         /\ \E step \in {"persist", "createReplan", "reload"} :
              /\ Goto(p, step, job[p]) /\ pc'[p] = step
              /\ step = "persist" => job[p].kind = "reroute_needed"
              /\ step = "createReplan" <=> job[p].kind = "partial_replan"
              /\ step = "reload" => job[p].kind = "manual_reroute"
         /\ job'[p] = job[p] /\ WorkOf(p)' = WorkOf(p)
<1>1. /\ pc[p] = "deliverReplacement" /\ pc[p] \in BlockerSteps
      /\ UNCHANGED <<made, work, cases, replans, disturbed, reopened>>
  BY DEF DeliverReplacement, BlockerSteps, history
<1>2. BlockerJob(p) /\ job[p].task \in Documents
  BY <1>1, CommandFacts DEF IInv, BlockerJobs
<1>3. /\ job[p].created \in Documents /\ job[p].created # 0
      /\ job[p].kind \in {"reroute_needed", "manual_reroute", "partial_replan"}
  BY <1>1, <1>2, DocumentFacts DEF BlockerJob, Moves, Replacing
<1>4. PICK step \in {"persist", "createReplan", "reload"} :
        /\ step = AfterRoute(job[p].kind) /\ Goto(p, step, job[p])
        /\ step = "persist" => job[p].kind = "reroute_needed"
        /\ step = "createReplan" <=> job[p].kind = "partial_replan"
        /\ step = "reload" => job[p].kind = "manual_reroute"
  BY <1>3 DEF DeliverReplacement, AfterRoute
<1>5. TasksGrow
  BY <1>1, DocumentFacts DEF TasksGrow
<1>6. pc'[p] = step /\ job'[p] = job[p] /\ WorkOf(p)' = WorkOf(p)
  <2>1. PICK j : j = job[p]
    OBVIOUS
  <2> QED BY <1>1, <1>2, <1>4, <1>5, <2>1, AtStep DEF BlockerSteps
<1> QED BY <1>1, <1>2, <1>3, <1>4, <1>5, <1>6

LEMMA DeliverReplacementLineage ==
  ASSUME IInv, LineageInv, NEW p \in Procs, DeliverReplacement(p)
  PROVE  LineageInv'
<1>1. PICK step \in {"persist", "createReplan", "reload"} :
        /\ Goto(p, step, job[p]) /\ pc'[p] = step
        /\ step = "persist" => job[p].kind = "reroute_needed"
        /\ step = "createReplan" <=> job[p].kind = "partial_replan"
        /\ step = "reload" => job[p].kind = "manual_reroute"
  BY DeliverReplacementFacts
<1>2. /\ pc[p] = "deliverReplacement" /\ pc[p] \in BlockerSteps /\ job[p].created # 0
      /\ UNCHANGED <<made, work, cases, replans>>
      /\ job'[p] = job[p] /\ WorkOf(p)' = WorkOf(p)
  BY DeliverReplacementFacts
<1>3. LineageJob(p)
  BY DEF LineageInv
<1>4. LineageJob(p)'
  BY <1>1, <1>2, <1>3 DEF LineageJob, Rerouting, Moves
<1>5. PICK j : j = job[p]
  OBVIOUS
<1> QED BY <1>1, <1>2, <1>4, <1>5, LineageReading

\* A command ends, and only p's own case or replan was written.
LEMMA ReturnsWriting ==
  ASSUME IInv, LineageInv, NEW p \in Procs, Return(p), UNCHANGED <<made, work, replans>>,
         NEW s \in Documents, NEW c, cases' = [cases EXCEPT ![s] = c],
         work[c.current].of = work[s].of
  PROVE  LineageInv'
<1>1. TasksGrow
  BY DocumentFacts DEF TasksGrow
<1>2. LineageJob(p)'
  BY OutsideLineage DEF Return, BlockerSteps
<1>3. ASSUME NEW u \in WithCase'
      PROVE  \/ u \in WithCase /\ cases'[u] = cases[u]
             \/ work'[cases'[u].current].of = work'[u].of
  <2>1. CASE u = s
    <3>1. cases'[s] = c
      BY DocumentFacts DEF IInv, TypeOK
    <3> QED BY <2>1, <3>1
  <2>2. CASE u # s
    <3>1. cases'[u] = cases[u]
      BY <2>2, <1>3 DEF WithCase, IInv, TypeOK
    <3> QED BY <1>3, <3>1 DEF WithCase
  <2> QED BY <2>1, <2>2
<1>4. WithReplan' = WithReplan
  BY DEF WithReplan
<1> QED BY <1>1, <1>2, <1>3, <1>4, LineageStep DEF Return

LEMMA MadeFacts ==
  ASSUME LineageInv, NEW p \in Procs, pc[p] \in BlockerSteps, job[p].created # 0
  PROVE  /\ job[p].created \in Documents /\ work[job[p].created].of # job[p].created
         /\ work[job[p].created].of = WorkOf(p) /\ work[job[p].created].by = job[p].kind
<1>1. LineageJob(p)
  BY DEF LineageInv
<1>2. /\ job[p].created \in Documents /\ work[job[p].created].of # job[p].created
      /\ work[job[p].created] = [of |-> WorkOf(p), by |-> job[p].kind]
  BY <1>1 DEF LineageJob
<1> QED BY <1>2

LEMMA PersistFacts ==
  ASSUME IInv, LineageInv, NEW p \in Procs, Persist(p)
  PROVE  /\ pc[p] = "persist" /\ job[p] \in JobDoc /\ job[p].source \in Documents
         /\ work[job[p].source].of = WorkOf(p)
         /\ PreparedCase(job[p]).current = Holding(job[p])
         /\ work[Holding(job[p])].of = WorkOf(p)
<1>1. pc[p] = "persist"
  BY DEF Persist
<1>2. /\ job[p] \in JobDoc /\ job[p].source \in Documents /\ WorkOf(p) = work[job[p].task].of
      /\ work[job[p].source].of = WorkOf(p) /\ (job[p].created # 0 <=> Rerouting(job[p]))
      /\ job[p].created # 0 => work[job[p].created].of = WorkOf(p)
  BY <1>1, CommandFacts, MadeFacts DEF BlockerSteps, LineageInv, LineageJob
<1> QED BY <1>1, <1>2 DEF PreparedCase, CurrentAfter, Holding, Rerouting

LEMMA PersistLineage ==
  ASSUME IInv, LineageInv, NEW p \in Procs, Persist(p)
  PROVE  LineageInv'
<1>1. Return(p) /\ UNCHANGED <<made, work, replans>>
  BY DEF Persist
<1>2. CASE cases' = cases
  BY <1>1, <1>2, OutsideLineage, LineageReading DEF Return, BlockerSteps
<1>3. CASE cases' = [cases EXCEPT ![job[p].source] = PreparedCase(job[p])]
  <2>1. PICK s, c : s = job[p].source /\ c = PreparedCase(job[p])
    OBVIOUS
  <2> QED BY <1>1, <1>3, <2>1, PersistFacts, ReturnsWriting
<1> QED BY <1>2, <1>3 DEF Persist

LEMMA WriteCaseFacts ==
  ASSUME IInv, LineageInv, NEW p \in Procs, WriteCase(p)
  PROVE  /\ pc[p] = "write" /\ job[p] \in JobDoc /\ job[p].source \in Documents
         /\ work[job[p].source].of = WorkOf(p)
         /\ job[p].copy \in CaseDoc /\ job[p].reloaded \in CaseDoc
         /\ LET c == ResolvedCase(job[p]) IN
            /\ c.current = ResolvedCurrent(job[p]) /\ c.status = "resolved"
            /\ c.resolution = Resolution(job[p]) /\ c.attempts = ResolvedAttempts(job[p])
            /\ c.count = job[p].reloaded.count
         /\ work[ResolvedCurrent(job[p])].of = WorkOf(p)
<1>1. pc[p] = "write" /\ pc[p] \in BlockerSteps
  BY DEF WriteCase, BlockerSteps
<1>2. /\ job[p] \in JobDoc /\ job[p].source \in Documents
      /\ work[job[p].source].of = WorkOf(p)
      /\ job[p].copy # NoCase => work[job[p].copy.current].of = WorkOf(p)
      /\ job[p].created # 0 => work[job[p].created].of = WorkOf(p)
  BY <1>1, CommandFacts, MadeFacts DEF LineageInv, LineageJob
<1>3. job[p].copy # NoCase /\ job[p].reloaded # NoCase
  BY <1>1 DEF IInv, BlockerJobs, BlockerJob
<1>4. job[p].copy \in CaseDoc /\ job[p].reloaded \in CaseDoc
  BY <1>2, <1>3 DEF JobDoc
<1>5. PICK c : c = ResolvedCase(job[p])
  OBVIOUS
<1>6. /\ c.current = ResolvedCurrent(job[p]) /\ c.status = "resolved"
      /\ c.resolution = Resolution(job[p]) /\ c.attempts = ResolvedAttempts(job[p])
      /\ c.count = job[p].reloaded.count
  BY <1>4, <1>5 DEF ResolvedCase, CaseDoc
<1> QED BY <1>1, <1>2, <1>3, <1>4, <1>5, <1>6 DEF ResolvedCurrent

LEMMA WriteCaseLineage ==
  ASSUME IInv, LineageInv, NEW p \in Procs, WriteCase(p)
  PROVE  LineageInv'
<1>1. PICK s, c : s = job[p].source /\ c = ResolvedCase(job[p])
  OBVIOUS
<1>2. /\ Return(p) /\ UNCHANGED <<made, work, replans>> /\ cases' = [cases EXCEPT ![s] = c]
  BY <1>1 DEF WriteCase, history
<1>3. s \in Documents /\ work[c.current].of = work[s].of
  BY <1>1, WriteCaseFacts
<1> QED BY <1>2, <1>3, ReturnsWriting

LEMMA CreatePartialReplanLineage ==
  ASSUME IInv, LineageInv, NEW p \in Procs, CreatePartialReplan(p)
  PROVE  LineageInv'
<1>1. pc[p] = "createReplan" /\ pc[p] \in BlockerSteps /\ UNCHANGED <<made, work, cases>>
  BY DEF CreatePartialReplan, BlockerSteps, history
<1>2. TasksGrow /\ WithCase' = WithCase
  BY <1>1, DocumentFacts DEF TasksGrow, WithCase
<1>3. CASE Return(p) /\ UNCHANGED replans
  BY <1>1, <1>3, OutsideLineage, LineageReading DEF Return, BlockerSteps
<1>4. CASE job[p].source \notin WithReplan
  <2>1. PICK j, s, r : j = job[p] /\ s = job[p].source
                       /\ r = [superseded |-> j.task, replacement |-> j.created]
    OBVIOUS
  <2>2. replans' = [replans EXCEPT ![s] = r] /\ Goto(p, "reload", j)
    BY <1>4, <2>1 DEF CreatePartialReplan
  <2>3. /\ s \in Documents /\ j.kind = "partial_replan" /\ j.created # 0
        /\ LineageJob(p) /\ j.task \in Documents
    BY <1>1, <2>1, CommandFacts, DocumentFacts
       DEF IInv, BlockerJobs, BlockerJob, Replacing, LineageInv
  <2>4. /\ replans'[s] = r /\ \A u \in Tasks \ {s} : replans'[u] = replans[u]
    BY <2>2, <2>3, DocumentFacts DEF IInv, TypeOK
  <2>5. pc'[p] = "reload" /\ job'[p] = j /\ WorkOf(p)' = WorkOf(p)
    BY <1>1, <1>2, <2>1, <2>2, <2>3, AtStep DEF BlockerSteps
  <2>6. LineageJob(p)'
    BY <1>1, <2>1, <2>3, <2>5 DEF LineageJob, Moves
  <2>7. ASSUME NEW u \in WithReplan'
        PROVE  \/ u \in WithReplan /\ replans'[u] = replans[u]
               \/ work'[replans'[u].replacement].of # replans'[u].replacement
    <3>1. CASE u = s
      BY <1>1, <2>1, <2>3, <2>4, <3>1 DEF LineageJob
    <3>2. CASE u # s
      BY <2>4, <2>7, <3>2 DEF WithReplan
    <3> QED BY <3>1, <3>2
  <2> QED BY <1>1, <1>2, <2>2, <2>6, <2>7, LineageStep
<1> QED BY <1>3, <1>4 DEF CreatePartialReplan

\* A step that is none of a blocker command: tasks that it adds begin works of
\* their own and reroute nothing, and it opens no receipt but that of its task.
Aside(p) ==
    /\ pc[p] \notin BlockerSteps
    /\ \E step, j : /\ Goto(p, step, j) /\ step \notin BlockerSteps
                    /\ step \in Aloof => j.created \in Documents' \ Documents
    /\ UNCHANGED <<cases, replans, disturbed, reopened>>
    /\ TasksGrow
    /\ \A t \in Documents :
         Open(t)' => Open(t) \/ (pc[p] \in Aloof /\ t = job[p].created)
    /\ \A t \in Documents' \ Documents : work'[t].of = t /\ work'[t].by \notin Attempts

LEMMA ReceiptsOnly ==
  ASSUME IInv, UNCHANGED <<made, work, cases, replans, disturbed, reopened>>,
         NEW p \in Procs, NEW step, NEW j, Goto(p, step, j), step \notin BlockerSteps \cup Aloof,
         pc[p] \notin BlockerSteps,
         \A t \in Documents : Open(t)' => Open(t) \/ (pc[p] \in Aloof /\ t = job[p].created)
  PROVE  Aside(p)
<1>1. TasksGrow
  BY DocumentFacts DEF TasksGrow
<1> QED BY <1>1 DEF Aside

LEMMA AddingAside ==
  ASSUME IInv, NEW doc, NEW by \in {"add", "review"}, CreateTask(doc, made + 1, by),
         UNCHANGED <<receipt, cases, replans, disturbed, reopened>>,
         NEW p \in Procs, NEW step, NEW j, Goto(p, step, j), step \notin BlockerSteps,
         pc[p] \notin BlockerSteps, j.created = made + 1
  PROVE  Aside(p)
<1>1. PICK of : of = made + 1
  OBVIOUS
<1>2. /\ TasksGrow /\ Documents' = Documents \cup {made + 1} /\ made + 1 \notin Documents
      /\ work'[made + 1] = [of |-> made + 1, by |-> by]
  BY <1>1, CreateTaskFacts
<1>3. \A t \in Documents' \ Documents : work'[t].of = t /\ work'[t].by \notin Attempts
  BY <1>2 DEF Attempts
<1> QED BY <1>2, <1>3 DEF Aside, Open

\* The creation of a task ends with its receipt, or without.
LEMMA DeliverFacts ==
  ASSUME IInv, CreationInv, NEW p \in Procs, Creating(p), Deliver(p) \/ UNCHANGED receipt
  PROVE  /\ job[p].created \in Documents /\ ~Open(job[p].created)
         /\ \A t \in Documents : Open(t)' => Open(t) \/ t = job[p].created
<1>1. job[p].created \in Documents /\ receipt[job[p].created] = "none"
  BY DEF CreationInv
<1>2. DOMAIN receipt = Tasks /\ Documents \subseteq Tasks
  BY DocumentFacts DEF IInv, TypeOK
<1> QED BY <1>1, <1>2 DEF Deliver, Open

LEMMA DeliveringAside ==
  ASSUME IInv, CreationInv, NEW p \in Procs, pc[p] \in Aloof, Deliver(p) \/ UNCHANGED receipt,
         UNCHANGED <<made, work, cases, replans, disturbed, reopened>>,
         NEW step, NEW j, Goto(p, step, j), step \notin BlockerSteps \cup Aloof
  PROVE  Aside(p)
<1>1. Creating(p) /\ pc[p] \notin BlockerSteps
  BY DEF Aloof, Creating, DeliverSteps, BlockerSteps
<1>2. \A t \in Documents : Open(t)' => Open(t) \/ t = job[p].created
  BY <1>1, DeliverFacts
<1> QED BY <1>1, <1>2, ReceiptsOnly

LEMMA AsideSteps ==
  ASSUME IInv, CreationInv, NEW p \in Procs, RouteStep(p) \/ ReviewStep(p)
  PROVE  Aside(p)
<1> DEFINE Elsewhere(step) == step \notin BlockerSteps
           Settled(step) == step \notin BlockerSteps \cup Aloof
<1>1. CASE RouteTask(p)
  <2>1. PICK j : j = [NoJob EXCEPT !.created = made + 1]
    OBVIOUS
  <2>2. /\ Goto(p, "deliverTask", j) /\ Elsewhere("deliverTask") /\ Elsewhere(pc[p])
        /\ j.created = made + 1
    BY <1>1, <2>1 DEF RouteTask, Begin, BlockerSteps, NoJob
  <2>3. PICK doc : CreateTask(doc, made + 1, "add")
    BY <1>1 DEF RouteTask
  <2> QED BY <1>1, <2>2, <2>3, AddingAside DEF RouteTask
<1>2. CASE RouteReview(p)
  <2>1. PICK j : j = [job[p] EXCEPT !.created = made + 1]
    OBVIOUS
  <2>2. /\ Goto(p, "deliverReview", j) /\ Elsewhere("deliverReview") /\ Elsewhere(pc[p])
        /\ j.created = made + 1
    BY <1>2, <2>1 DEF RouteReview, BlockerSteps, IInv, TypeOK, JobDoc
  <2>3. PICK doc : CreateTask(doc, made + 1, "review")
    BY <1>2 DEF RouteReview
  <2> QED BY <1>2, <2>2, <2>3, AddingAside DEF RouteReview
<1>3. CASE DeliverTask(p) \/ TaskFails(p) \/ DeliverReview(p) \/ ReviewFails(p)
  <2>1. /\ pc[p] \in Aloof /\ (Deliver(p) \/ UNCHANGED receipt)
        /\ UNCHANGED <<made, work, cases, replans, disturbed, reopened>>
    BY <1>3 DEF DeliverTask, TaskFails, DeliverReview, ReviewFails, CreationFails, Aloof, history
  <2>2. PICK step, j : Goto(p, step, j) /\ Settled(step)
    BY <1>3 DEF DeliverTask, TaskFails, DeliverReview, ReviewFails, Return, BlockerSteps, Aloof
  <2> QED BY <2>1, <2>2, DeliveringAside
<1>4. ASSUME NEW t \in Documents, TaskDone(p, t)
      PROVE  Aside(p)
  <2>1. PICK step, j : Goto(p, step, j) /\ Settled(step) /\ Elsewhere(pc[p])
    BY <1>4 DEF TaskDone, Begin, BlockerSteps, Aloof
  <2>2. \A u \in Documents : Open(u)' => Open(u)
    BY <1>4, DocumentFacts DEF TaskDone, Open, IInv, TypeOK
  <2> QED BY <1>4, <2>1, <2>2, ReceiptsOnly DEF TaskDone
<1>5. CASE Complete(p)
  <2>1. PICK step, j : Goto(p, step, j) /\ Settled(step) /\ Elsewhere(pc[p])
    BY <1>5 DEF Complete, Return, BlockerSteps, Aloof
  <2>2. \A u \in Documents : Open(u)' => Open(u)
    BY <1>5, DocumentFacts DEF Complete, Open, IInv, TypeOK
  <2> QED BY <1>5, <2>1, <2>2, ReceiptsOnly DEF Complete, history
<1>6. CASE /\ \E step, j : Goto(p, step, j) /\ Settled(step)
           /\ Elsewhere(pc[p])
           /\ UNCHANGED <<made, receipt, cases, replans, work, disturbed, reopened>>
  <2>1. PICK step, j : Goto(p, step, j) /\ Settled(step)
    BY <1>6
  <2>2. \A u \in Documents : Open(u)' => Open(u)
    BY <1>6 DEF Open
  <2> QED BY <1>6, <2>1, <2>2, ReceiptsOnly
<1>7. ASSUME \/ \E t \in Documents, o \in Outcomes : ReviewRespond(p, t, o)
             \/ CheckHandoff(p) \/ RouteReviewFails(p) \/ CreateReviewHandoff(p)
             \/ UpsertFailedReviewHandoff(p) \/ FindHandoff(p) \/ Reply(p) \/ Respond(p)
      PROVE  Aside(p)
  <2>1. Elsewhere(pc[p]) /\ UNCHANGED <<made, receipt, cases, replans, work, disturbed, reopened>>
    BY <1>7 DEF ReviewRespond, Begin, CheckHandoff, RouteReviewFails, CreateReviewHandoff,
       UpsertFailedReviewHandoff, FindHandoff, Reply, Respond, SetHandoff, BlockerSteps, docs, history
  <2>2. \E step, j : Goto(p, step, j) /\ Settled(step)
    <3>1. CASE \E t \in Documents, o \in Outcomes : ReviewRespond(p, t, o)
      BY <3>1 DEF ReviewRespond, Begin, BlockerSteps, Aloof
    <3>2. CASE CheckHandoff(p) \/ RouteReviewFails(p)
      BY <3>2 DEF CheckHandoff, RouteReviewFails, Return, BlockerSteps, Aloof
    <3>3. CASE CreateReviewHandoff(p) \/ UpsertFailedReviewHandoff(p)
      BY <3>3 DEF CreateReviewHandoff, UpsertFailedReviewHandoff, Return, BlockerSteps, Aloof
    <3>4. CASE FindHandoff(p)
      BY <3>4 DEF FindHandoff, Return, BlockerSteps, Aloof
    <3>5. CASE Reply(p) \/ Respond(p)
      BY <3>5 DEF Reply, Respond, Return, BlockerSteps, Aloof
    <3> QED BY <1>7, <3>1, <3>2, <3>3, <3>4, <3>5
  <2> QED BY <1>6, <2>1, <2>2
<1> QED BY <1>1, <1>2, <1>3, <1>4, <1>5, <1>7 DEF RouteStep, ReviewStep

LEMMA AsideLineage ==
  ASSUME IInv, LineageInv, NEW p \in Procs, Aside(p)
  PROVE  LineageInv'
<1>1. PICK step, j : Goto(p, step, j) /\ step \notin BlockerSteps
  BY DEF Aside
<1>2. LineageJob(p)'
  BY <1>1, OutsideLineage
<1> QED BY <1>1, <1>2, LineageStep DEF Aside, WithCase, WithReplan

LEMMA KillLineage ==
  ASSUME IInv, LineageInv, NEW p \in Procs, Kill(p)
  PROVE  LineageInv'
<1>1. Return(p) /\ UNCHANGED <<made, work, cases, replans>>
  BY DEF Kill, docs
<1> QED BY <1>1, OutsideLineage, LineageReading DEF Return, BlockerSteps

LEMMA NextLineage ==
  ASSUME IInv, CreationInv, LineageInv, Next
  PROVE  LineageInv'
<1>1. PICK p \in Procs : RouteStep(p) \/ BlockerStep(p) \/ ReviewStep(p) \/ Kill(p)
  BY DEF Next
<1>2. CASE RouteStep(p) \/ ReviewStep(p)
  BY <1>2, AsideSteps, AsideLineage
<1>3. CASE BlockerStep(p)
  BY <1>3, TaskBlockLineage, BlockerResolveLineage, FindCaseLineage, SuspendLineage,
     RouteReplacementLineage, DeliverReplacementLineage, RouteFailsLineage, RestoreLineage,
     PersistLineage, CreatePartialReplanLineage, ReloadCaseLineage, WriteCaseLineage
     DEF BlockerStep
<1> QED BY <1>1, <1>2, <1>3, KillLineage

-----------------------------------------------------------------------------
(***************************************************************************)
(* Tasks that are created aside of the blocker commands.                   *)
(***************************************************************************)

\* Nobody comes to a work whose first task has no receipt yet.
LEMMA FreshStep ==
  ASSUME IInv, CreationInv, LineageInv, FreshInv, NEW p \in Procs, NEW step, NEW j,
         Goto(p, step, j), TasksGrow,
         \A t \in Documents' \ Documents : work'[t].of \in {t, WorkOf(p)},
         \A s \in WithCase' : s \in WithCase \/ (s \in Documents /\ work[s].of = WorkOf(p)),
         \/ WorkOf(p)' \in {0, WorkOf(p)}
         \/ \E t \in Documents : work[t].of = WorkOf(p)' /\ (Open(t) \/ t \in WithCase),
         step \in Aloof =>
            j.created \in Documents' \ Documents /\ work'[j.created].of = j.created
  PROVE  FreshInv'
<1> SUFFICES ASSUME NEW q \in Procs, pc'[q] \in Aloof PROVE Fresh(job[q].created)'
  BY DEF FreshInv
<1>1. PICK c : c = job'[q].created
  OBVIOUS
<1>2. pc'[p] = step /\ job'[p] = j
  BY DEF Goto, IInv, TypeOK
<1>3. \A x \in Procs \ {p} : pc'[x] = pc[x] /\ job'[x] = job[x] /\ WorkOf(x)' = WorkOf(x)
  BY OthersWork
<1>4. /\ \A x \in Procs : WorkOf(x) \in Documents \cup {0}
      /\ \A t \in Documents : work[t].of \in Documents /\ work'[t] = work[t] /\ t \in Documents'
      /\ 0 \notin Documents' /\ WithCase \subseteq Documents
  <2>1. \A x \in Procs : WorkOf(x) \in Documents \cup {0}
    BY CommandFacts, DocumentFacts DEF WorkOf
  <2>2. \A t \in Documents : work[t].of \in Documents /\ work'[t] = work[t] /\ t \in Documents'
    BY DocumentFacts DEF TasksGrow
  <2> QED BY <2>1, <2>2, DocumentFacts DEF TasksGrow
<1>5. c \in Documents' /\ work'[c].of = c /\ c \notin WithCase'
      /\ (\A t \in Documents' : work'[t].of = c => t = c) /\ \A x \in Procs : WorkOf(x)' # c
  <2>1. CASE q = p
    <3>1. c \in Documents' /\ c \notin Documents /\ work'[c].of = c
      BY <1>1, <1>2, <2>1
    <3>2. WorkOf(p)' # c
      BY <1>4, <3>1
    <3> QED BY <1>3, <1>4, <3>1, <3>2
  <2>2. CASE q # p
    <3>1. /\ pc[q] \in Aloof /\ job[q].created = c
      BY <1>1, <1>3, <2>2
    <3>2. c \in Documents /\ receipt[c] = "none" /\ Fresh(c)
      BY <3>1 DEF CreationInv, FreshInv, Creating, DeliverSteps, Aloof
    <3>3. /\ \A t \in Documents : work[t].of = c => t = c
          /\ work[c].of = c /\ c \notin WithCase /\ \A x \in Procs : WorkOf(x) # c
      BY <3>2 DEF Fresh, Lineage, Busy
    <3>4. WorkOf(p)' # c
      BY <1>4, <3>2, <3>3 DEF Open
    <3>5. c \notin WithCase'
      BY <3>3
    <3> QED BY <1>3, <1>4, <3>2, <3>3, <3>4, <3>5
  <2> QED BY <2>1, <2>2
<1>6. Fresh(c)'
  BY <1>5 DEF Fresh, Lineage, Busy
<1> QED BY <1>1, <1>6 DEF Fresh, Lineage, Busy

LEMMA AsideFresh ==
  ASSUME IInv, CreationInv, LineageInv, FreshInv, NEW p \in Procs, Aside(p)
  PROVE  FreshInv'
<1>1. PICK step, j : /\ Goto(p, step, j) /\ step \notin BlockerSteps
                     /\ step \in Aloof => j.created \in Documents' \ Documents
  BY DEF Aside
<1>2. WithCase' = WithCase /\ WorkOf(p)' = 0
  BY <1>1, OutsideLineage DEF Aside, WithCase
<1> QED BY <1>1, <1>2, FreshStep DEF Aside

\* A blocker command stays at its work.
LEMMA BlockerFresh ==
  ASSUME IInv, CreationInv, LineageInv, FreshInv, NEW p \in Procs, BlockerStep(p) \/ Kill(p)
  PROVE  FreshInv'
<1>1. ASSUME NEW step \in BlockerSteps \cup {"idle"}, NEW j, Goto(p, step, j), TasksGrow,
             \A t \in Documents' \ Documents : work'[t].of = WorkOf(p),
             \A s \in WithCase' : s \in WithCase \/ (s \in Documents /\ work[s].of = WorkOf(p)),
             step # "idle" => pc[p] \in BlockerSteps /\ j.task = job[p].task
      PROVE  FreshInv'
  <2>1. step \notin Aloof
    BY <1>1 DEF BlockerSteps, Aloof
  <2>2. WorkOf(p)' \in {0, WorkOf(p)}
    BY <1>1, AtStep, CommandFacts, OutsideLineage DEF BlockerSteps
  <2> QED BY <1>1, <2>1, <2>2, FreshStep
<1>2. ASSUME NEW step \in BlockerSteps \cup {"idle"}, NEW j, Goto(p, step, j),
             UNCHANGED <<made, work, cases>>,
             step # "idle" => pc[p] \in BlockerSteps /\ j.task = job[p].task
      PROVE  FreshInv'
  <2>1. TasksGrow /\ WithCase' = WithCase
    BY <1>2, DocumentFacts DEF TasksGrow, WithCase
  <2> QED BY <1>1, <1>2, <2>1
<1>3. ASSUME NEW step \in BlockerSteps, NEW j, Goto(p, step, j), UNCHANGED <<made, work, cases>>,
             NEW t \in Documents, j.task \in Documents, work[j.task].of = work[t].of,
             Open(t) \/ t \in WithCase
      PROVE  FreshInv'
  <2>1. TasksGrow /\ WithCase' = WithCase
    BY <1>3, DocumentFacts DEF TasksGrow, WithCase
  <2>2. WorkOf(p)' = work[t].of
    BY <1>3, <2>1, AtStep
  <2>3. step \notin Aloof
    BY DEF BlockerSteps, Aloof
  <2> QED BY <1>3, <2>1, <2>2, <2>3, FreshStep
<1>4. ASSUME NEW t \in Documents, NEW kind \in Kinds, TaskBlock(p, t, kind)
      PROVE  FreshInv'
  <2>1. PICK j : j = [NoJob EXCEPT !.task = t, !.kind = kind]
    OBVIOUS
  <2>2. Goto(p, "findCase", j) /\ Open(t) /\ UNCHANGED <<made, work, cases>> /\ j.task = t
    BY <1>4, <2>1 DEF TaskBlock, Begin, docs, NoJob
  <2> QED BY <1>3, <2>2 DEF BlockerSteps
<1>5. ASSUME NEW s \in Documents, NEW action \in ResolutionActions, BlockerResolve(p, s, action)
      PROVE  FreshInv'
  <2>1. PICK j : j = [NoJob EXCEPT !.task = cases[s].current, !.kind = action,
                                   !.source = s, !.copy = cases[s]]
    OBVIOUS
  <2>2. PICK step \in {"suspend", "reload"} : Goto(p, step, j)
    BY <1>5, <2>1 DEF BlockerResolve, Begin
  <2>3. UNCHANGED <<made, work, cases>> /\ j.task = cases[s].current
    BY <1>5, <2>1 DEF BlockerResolve, docs, NoJob
  <2>4. s \in WithCase
    BY <1>5, DocumentFacts DEF BlockerResolve, WithCase, NoCase
  <2>5. j.task \in Documents /\ work[j.task].of = work[s].of
    BY <2>3, <2>4, DocumentFacts DEF LineageInv
  <2> QED BY <1>3, <2>2, <2>3, <2>4, <2>5 DEF BlockerSteps
<1>6. CASE RouteReplacement(p)
  <2>1. PICK doc, own, kind : own = WorkOf(p) /\ CreateTask(doc, own, kind)
    BY <1>6, RouteReplacementFacts
  <2>2. TasksGrow /\ \A t \in Documents' \ Documents : work'[t].of = WorkOf(p)
    <3>1. /\ TasksGrow /\ Documents' = Documents \cup {made + 1}
          /\ work'[made + 1] = [of |-> own, by |-> kind]
      BY <2>1, CreateTaskFacts
    <3> QED BY <2>1, <3>1
  <2>3. PICK j : j = job'[p]
    OBVIOUS
  <2>4. pc[p] \in BlockerSteps /\ Goto(p, "deliverReplacement", j) /\ j.task = job[p].task
    BY <1>6, <2>3, RouteReplacementFacts
  <2>5. WithCase' = WithCase
    BY <1>6 DEF RouteReplacement, WithCase
  <2> QED BY <1>1, <2>2, <2>4, <2>5 DEF BlockerSteps
<1>7. CASE RouteFails(p) \/ ReplacementFails(p)
  <2>1. /\ pc[p] \in {"route", "deliverReplacement"} /\ GiveUp(p)
        /\ UNCHANGED <<made, work, cases, replans>>
    BY <1>7 DEF RouteFails, ReplacementFails, docs, history
  <2>2. PICK step, j : /\ step \in {"idle", "restore"} /\ Goto(p, step, j)
                       /\ step = "restore" => j.task = job[p].task
    BY <2>1, GiveUpFacts
  <2> QED BY <1>2, <2>1, <2>2 DEF BlockerSteps
<1>8. ASSUME NEW s \in Documents, work[s].of = WorkOf(p), Return(p), UNCHANGED <<made, work>>,
             \A u \in Tasks \ {s} : cases'[u] = cases[u]
      PROVE  FreshInv'
  <2>1. TasksGrow
    BY <1>8, DocumentFacts DEF TasksGrow
  <2>2. \A u \in WithCase' : u \in WithCase \/ u = s
    BY <1>8 DEF WithCase
  <2> QED BY <1>1, <1>8, <2>1, <2>2, DocumentFacts DEF Return
<1>9. CASE Persist(p)
  BY <1>8, <1>9, PersistFacts, DocumentFacts DEF Persist, IInv, TypeOK
<1>10. CASE WriteCase(p)
  BY <1>8, <1>10, WriteCaseFacts, DocumentFacts DEF WriteCase, IInv, TypeOK, history
<1>11. CASE Suspend(p) \/ DeliverReplacement(p) \/ CreatePartialReplan(p) \/ ReloadCase(p)
            \/ FindCase(p) \/ Restore(p) \/ Kill(p)
  <2>1. UNCHANGED <<made, work, cases>> /\ (~Kill(p) => pc[p] \in BlockerSteps)
    BY <1>11 DEF Suspend, DeliverReplacement, CreatePartialReplan, ReloadCase, FindCase, Restore, Kill,
       docs, history, BlockerSteps
  <2>2. CASE Return(p)
    BY <1>2, <2>1, <2>2 DEF Return
  <2>3. ASSUME ~Return(p)
        PROVE  \E step, j : step \in BlockerSteps /\ Goto(p, step, j) /\ j.task = job[p].task
    <3>1. job[p] \in JobDoc
      BY DEF IInv, TypeOK
    <3>2. \A v, c : [job[p] EXCEPT !.source = v, !.copy = c].task = job[p].task
      BY <3>1 DEF JobDoc
    <3>3. \A v : /\ [job[p] EXCEPT !.source = v].task = job[p].task
                 /\ [job[p] EXCEPT !.suspended = v].task = job[p].task
                 /\ [job[p] EXCEPT !.reloaded = v].task = job[p].task
      BY <3>1 DEF JobDoc
    <3>4. CASE Suspend(p) \/ ReloadCase(p)
      <4>1. PICK v, c : v = Open(job[p].task) /\ c = cases[job[p].source]
        OBVIOUS
      <4>2. \/ Goto(p, "route", [job[p] EXCEPT !.suspended = v])
            \/ Goto(p, "write", [job[p] EXCEPT !.reloaded = c])
        BY <3>4, <4>1 DEF Suspend, ReloadCase
      <4> QED BY <3>3, <4>2 DEF BlockerSteps
    <3>5. CASE DeliverReplacement(p)
      BY <3>5, DeliverReplacementFacts DEF BlockerSteps
    <3>6. CASE CreatePartialReplan(p)
      BY <2>3, <3>6 DEF CreatePartialReplan, BlockerSteps
    <3>7. CASE FindCase(p)
      <4>1. PICK j : /\ j.task = job[p].task
                     /\ Goto(p, IF SelectBlockerAction(job[p].kind, j.copy.count) = "reroute"
                                THEN "suspend" ELSE "persist", j)
        <5>1. CASE CasesOf(job[p].task) = {}
          BY <2>3, <3>3, <3>7, <5>1 DEF FindCase
        <5>2. ASSUME NEW s \in CasesOf(job[p].task), CasesOf(job[p].task) = {s}
              PROVE  \E j : /\ j.task = job[p].task
                            /\ Goto(p, IF SelectBlockerAction(job[p].kind, j.copy.count) = "reroute"
                                       THEN "suspend" ELSE "persist", j)
          BY <2>3, <3>2, <3>7, <5>2 DEF FindCase
        <5> QED BY <2>3, <3>7, <5>1, <5>2 DEF FindCase
      <4>2. PICK step \in {"suspend", "persist"} : Goto(p, step, j)
        BY <4>1
      <4> QED BY <4>1, <4>2 DEF BlockerSteps
    <3>8. CASE Restore(p) \/ Kill(p)
      BY <2>3, <3>8 DEF Restore, Kill
    <3> QED BY <1>11, <3>4, <3>5, <3>6, <3>7, <3>8
  <2>4. CASE ~Return(p)
    <3>1. PICK step, j : step \in BlockerSteps /\ Goto(p, step, j) /\ j.task = job[p].task
      BY <2>3, <2>4
    <3>2. ~Kill(p)
      BY <2>4 DEF Kill
    <3> QED BY <1>2, <2>1, <3>1, <3>2
  <2> QED BY <2>2, <2>4
<1> QED BY <1>4, <1>5, <1>6, <1>7, <1>9, <1>10, <1>11 DEF BlockerStep

-----------------------------------------------------------------------------
(***************************************************************************)
(* Works that a step leaves alone.                                         *)
(***************************************************************************)

\* Nothing is opened, made or recorded for w.
Still(w) ==
    /\ Lineage(w)' = Lineage(w)
    /\ \A t \in Lineage(w) : work'[t] = work[t] /\ (Open(t)' => Open(t))
    /\ cases'[w] = cases[w] /\ replans'[w] = replans[w]
    /\ \A s \in (WithCase \cup WithReplan)' :
         work'[s].of = w => s \in WithCase \cup WithReplan /\ work[s].of = w

LEMMA StillFacts ==
  ASSUME NEW w \in Tasks, Still(w)
  PROVE  /\ Current(w)' = Current(w)
         /\ \A new : Books(w, new) => Books(w, new)'
         /\ \A h : Holder(w, h) => Holder(w, h)'
         /\ (\A t \in Lineage(w) : ~Open(t)) => (\A t \in Lineage(w) : ~Open(t))'
         /\ Rooted(w) => Rooted(w)'
         /\ w \in WithReplan' <=> w \in WithReplan
<1>1. Current(w)' = Current(w) /\ (w \in WithReplan' <=> w \in WithReplan)
  BY DEF Still, Current, WithCase, WithReplan
<1>2. \A origins : By(w, origins)' = By(w, origins)
  BY DEF Still, By
<1>3. \A new : Books(w, new) => Books(w, new)'
  BY <1>2 DEF Still, Books
<1>4. \A h : Holder(w, h) => Holder(w, h)'
  BY DEF Still, Holder
<1>5. (\A t \in Lineage(w) : ~Open(t)) => (\A t \in Lineage(w) : ~Open(t))'
  BY DEF Still
<1>6. Rooted(w) => Rooted(w)'
  BY DEF Still, Rooted
<1> QED BY <1>1, <1>3, <1>4, <1>5, <1>6

\* A step for the work own leaves the others alone.
StepFor(p, own) ==
    /\ TasksGrow
    /\ WorkOf(p) \in {0, own} /\ WorkOf(p)' \in {0, own}
    /\ \A t \in Documents' \ Documents : work'[t].of = own
    /\ \A t \in Documents : work[t].of # own => (Open(t)' => Open(t))
    /\ \A s \in Tasks :
         \/ s \in Documents /\ work[s].of = own
         \/ cases'[s] = cases[s] /\ replans'[s] = replans[s]
    /\ reopened \subseteq reopened'

LEMMA StepForStill ==
  ASSUME IInv, NEW p \in Procs, NEW own, StepFor(p, own), NEW w \in Works, w # own
  PROVE  Still(w)
<1>1. made \in Nat /\ Documents \subseteq Documents' /\ w \in Tasks /\ work[w].of = w
  BY DocumentFacts DEF StepFor, TasksGrow, Works
<1>2. Lineage(w)' = Lineage(w)
  BY <1>1 DEF Lineage, StepFor, TasksGrow
<1>3. \A t \in Lineage(w) : work'[t] = work[t] /\ (Open(t)' => Open(t))
  BY DEF Lineage, StepFor, TasksGrow
<1>4. cases'[w] = cases[w] /\ replans'[w] = replans[w]
  BY <1>1 DEF StepFor
<1>5. ASSUME NEW s \in (WithCase \cup WithReplan)', work'[s].of = w
      PROVE  s \in WithCase \cup WithReplan /\ work[s].of = w
  <2>1. s \in Tasks
    BY <1>5 DEF WithCase, WithReplan
  <2>2. cases'[s] = cases[s] /\ replans'[s] = replans[s]
    BY <1>5, <2>1 DEF StepFor, TasksGrow
  <2>3. s \in WithCase \cup WithReplan
    BY <2>1, <2>2 DEF WithCase, WithReplan
  <2> QED BY <1>5, <2>3, DocumentFacts DEF StepFor, TasksGrow
<1> QED BY <1>2, <1>3, <1>4, <1>5 DEF Still

\* A work that is still, and not the one of p, stays fine.
LEMMA OtherWork ==
  ASSUME IInv, NEW p \in Procs, NEW step, NEW j, Goto(p, step, j), TasksGrow,
         NEW w \in Works, WorkFine(w), Still(w), WorkOf(p) # w, WorkOf(p)' # w,
         reopened \subseteq reopened'
  PROVE  WorkFine(w)'
<1>1. w \in Tasks
  BY DocumentFacts DEF Works
<1>2. \A q \in Procs : WorkOf(q)' = w <=> WorkOf(q) = w
  BY OthersWork
<1>3. \A q \in Procs : WorkOf(q) = w => pc'[q] = pc[q] /\ job'[q] = job[q]
  BY OthersWork
<1>4. Alone(w)' /\ (Busy(w)' <=> Busy(w))
  BY <1>2 DEF WorkFine, Alone, Busy
<1>5. Rooted(w)'
  BY <1>1, StillFacts DEF WorkFine
<1>6. ReplanKept(w)'
  <2>1. SUFFICES ASSUME w \in WithReplan' \ reopened' PROVE ReplanKept(w)'
    BY DEF ReplanKept
  <2>2. w \in WithReplan \ reopened
    BY <1>1, <2>1, StillFacts
  <2>3. CASE ReplanAgrees(w) /\ cases[w].status = "resolved"
    BY <2>3 DEF Still, ReplanAgrees, ReplanKept
  <2>4. ASSUME NEW q \in Procs, Recording(q, w)
        PROVE  Recording(q, w)'
    BY <1>2, <1>3, <2>4 DEF Recording, Still
  <2> QED BY <2>2, <2>3, <2>4 DEF WorkFine, ReplanKept
<1>7. ~Busy(w)' => Books(w, {})' /\ Holder(w, Current(w))'
  <2>1. PICK h : h = Current(w)
    OBVIOUS
  <2>2. SUFFICES ASSUME ~Busy(w)' PROVE Books(w, {})' /\ Holder(w, Current(w))'
    OBVIOUS
  <2>3. Books(w, {})' /\ Holder(w, h)' /\ h = Current(w)'
    BY <1>1, <1>4, <2>1, <2>2, StillFacts DEF WorkFine
  <2> QED BY <2>3 DEF Holder
<1>8. ASSUME NEW q \in Procs, WorkOf(q)' = w
      PROVE  AtWork(q, w)'
  <2>1. pc'[q] = pc[q] /\ job'[q] = job[q] /\ AtWork(q, w)
    BY <1>2, <1>3, <1>8 DEF WorkFine
  <2>2. PICK k : k = job[q]
    OBVIOUS
  <2>3. Books(w, Made(k))' /\ Holder(w, Holding(k))'
    BY <1>1, <2>1, <2>2, StillFacts DEF AtWork, Made, Holding
  <2>4. Books(w, Made(job[q]))' /\ Holder(w, Holding(job[q]))'
    BY <2>1, <2>2, <2>3 DEF Books, Holder, Made, Holding
  <2> QED BY <1>1, <2>1, <2>4, StillFacts DEF AtWork, Still
<1> QED BY <1>4, <1>5, <1>6, <1>7, <1>8 DEF WorkFine

\* So a step for own keeps every work fine if it keeps own fine.
LEMMA StepForWorks ==
  ASSUME IInv, WorksInv, NEW p \in Procs, NEW step, NEW j, Goto(p, step, j),
         NEW own \in Documents, StepFor(p, own), disturbed \subseteq disturbed',
         own \in Works \ disturbed' => WorkFine(own)'
  PROVE  \A w \in Works' \ disturbed' : WorkFine(w)'
<1> SUFFICES ASSUME NEW w \in Works' \ disturbed' PROVE WorkFine(w)'
  OBVIOUS
<1>1. w \in Works
  BY DocumentFacts DEF Works, StepFor, TasksGrow
<1>2. CASE w = own
  BY <1>1, <1>2
<1>3. CASE w # own
  <2>1. Still(w) /\ w # 0
    BY <1>1, <1>3, StepForStill, DocumentFacts DEF Works
  <2> QED BY <1>1, <1>3, <2>1, OtherWork DEF WorksInv, StepFor
<1> QED BY <1>2, <1>3

-----------------------------------------------------------------------------
(***************************************************************************)
(* The work of a blocker command.                                          *)
(***************************************************************************)
LEMMA KindsApart == Kinds \cap ResolutionActions = {} /\ "partial_replan" \notin Kinds
BY RunDocsAssumption DEF AllKinds, WaitKinds, BlockKinds, ResolutionActions

\* A command on an undisturbed work is alone, and the work is fine.
LEMMA OwnFacts ==
  ASSUME IInv, WorksInv, NEW p \in Procs, pc[p] \in BlockerSteps
  PROVE  /\ WorkOf(p) \in Works /\ WorkOf(p) \in Documents /\ work[WorkOf(p)].of = WorkOf(p)
         /\ job[p].task \in Lineage(WorkOf(p))
         /\ WorkOf(p) \notin disturbed =>
              /\ Rooted(WorkOf(p)) /\ ReplanKept(WorkOf(p)) /\ AtWork(p, WorkOf(p))
              /\ \A q \in Procs \ {p} : WorkOf(q) # WorkOf(p)
<1>1. job[p].task \in Documents /\ WorkOf(p) = work[job[p].task].of
  BY CommandFacts
<1>2. WorkOf(p) \in Works
  BY <1>1 DEF WorksInv, LineageInv
<1> QED BY <1>1, <1>2 DEF WorksInv, WorkFine, Alone, Works, Lineage

LEMMA OwnAtWork ==
  ASSUME IInv, NEW p \in Procs, NEW step, NEW j, Goto(p, step, j), TasksGrow,
         NEW w, \A q \in Procs \ {p} : WorkOf(q) # w, WorkOf(p)' = w,
         AtWork(p, w)', Rooted(w)', ReplanKept(w)'
  PROVE  WorkFine(w)'
<1>1. \A q \in Procs : WorkOf(q)' = w <=> q = p
  BY OthersWork
<1> QED BY <1>1 DEF WorkFine, Alone, Busy

LEMMA OwnLeft ==
  ASSUME IInv, NEW p \in Procs, NEW step, NEW j, Goto(p, step, j), TasksGrow,
         NEW w, \A q \in Procs \ {p} : WorkOf(q) # w, WorkOf(p)' # w,
         Books(w, {})', Holder(w, Current(w))', Rooted(w)', ReplanKept(w)'
  PROVE  WorkFine(w)'
<1>1. \A q \in Procs : WorkOf(q)' # w
  BY OthersWork
<1> QED BY <1>1 DEF WorkFine, Alone, Busy

\* Case and replan of w are not written.
LEMMA RecordsKeep ==
  ASSUME IInv, NEW p \in Procs, NEW w, TasksGrow, UNCHANGED <<cases, replans, reopened>>,
         Rooted(w), ReplanKept(w), \A q \in Procs \ {p} : WorkOf(q) # w,
         Recording(p, w) => Recording(p, w)'
  PROVE  Rooted(w)' /\ ReplanKept(w)' /\ (w \in WithReplan' <=> w \in WithReplan)
<1>1. WithCase' = WithCase /\ WithReplan' = WithReplan
  BY DEF WithCase, WithReplan
<1>2. Rooted(w)'
  BY <1>1, DocumentFacts DEF Rooted, TasksGrow
<1>3. ReplanKept(w)'
  BY <1>1 DEF ReplanKept, ReplanAgrees, Recording
<1> QED BY <1>1, <1>2, <1>3

\* A command reads on.
LEMMA OwnReads ==
  ASSUME IInv, WorksInv, NEW p \in Procs, NEW step \in BlockerSteps, NEW j, Goto(p, step, j),
         UNCHANGED <<made, work, receipt, cases, replans, disturbed, reopened>>,
         NEW own \in Documents, WorkOf(p) \in {0, own}, WorkOf(p)' = own,
         own \in Works \ disturbed =>
            /\ \A q \in Procs \ {p} : WorkOf(q) # own
            /\ Rooted(own) /\ ReplanKept(own)
            /\ Recording(p, own) => Recording(p, own)'
            /\ AtWork(p, own)'
  PROVE  \A w \in Works' \ disturbed' : WorkFine(w)'
<1>1. TasksGrow /\ StepFor(p, own)
  BY DocumentFacts DEF StepFor, TasksGrow, Open
<1>2. ASSUME own \in Works \ disturbed
      PROVE  WorkFine(own)'
  BY <1>1, <1>2, RecordsKeep, OwnAtWork
<1> QED BY <1>1, <1>2, StepForWorks

\* Nothing that AtWork reads of the documents has changed.
LEMMA AtWorkReads ==
  ASSUME UNCHANGED <<made, work, receipt, cases, replans>>, NEW w
  PROVE  /\ Current(w)' = Current(w) /\ Lineage(w)' = Lineage(w)
         /\ \A new : Books(w, new) => Books(w, new)'
         /\ \A h : Holder(w, h) => Holder(w, h)'
         /\ \A t : Open(t)' <=> Open(t)
         /\ w \in WithReplan' <=> w \in WithReplan
BY DEF Current, Lineage, Books, By, Holder, WithCase, WithReplan, Open

LEMMA TaskBlockWorks ==
  ASSUME IInv, WorksInv, NEW p \in Procs, NEW t \in Documents, NEW kind \in Kinds,
         TaskBlock(p, t, kind)
  PROVE  \A w \in Works' \ disturbed' : WorkFine(w)'
<1>1. PICK j : j = [NoJob EXCEPT !.task = t, !.kind = kind]
  OBVIOUS
<1>2. /\ Goto(p, "findCase", j) /\ pc[p] = "idle" /\ Open(t)
      /\ UNCHANGED <<made, work, receipt, cases, replans, reopened>>
  BY <1>1 DEF TaskBlock, Begin, docs
<1>3. j.task = t /\ j.kind = kind /\ j.created = 0
  BY <1>1 DEF NoJob
<1>4. TasksGrow
  BY <1>2, DocumentFacts DEF TasksGrow
<1>5. PICK own : own = work[t].of
  OBVIOUS
<1>6. own \in Documents /\ own \in Works /\ t \in Lineage(own)
  BY <1>5, DocumentFacts DEF WorksInv, LineageInv, Lineage
<1>7. pc'[p] = "findCase" /\ job'[p] = j /\ WorkOf(p)' = own /\ WorkOf(p) = 0
  BY <1>2, <1>3, <1>4, <1>5, AtStep DEF BlockerSteps, WorkOf
<1>8. StepFor(p, own) /\ disturbed \subseteq disturbed'
  BY <1>2, <1>4, <1>7 DEF StepFor, Open, TaskBlock, NoteOverlap
<1>9. ASSUME own \notin disturbed'
      PROVE  WorkFine(own)'
  <2>1. \A q \in Procs \ {p} : WorkOf(q) # own
    BY <1>5, <1>9 DEF TaskBlock, NoteOverlap
  <2>2. ~Busy(own)
    BY <1>6, <1>7, <2>1 DEF Busy
  <2>3. /\ Rooted(own) /\ ReplanKept(own) /\ Books(own, {}) /\ Holder(own, Current(own))
    BY <1>6, <1>8, <1>9, <2>2 DEF WorksInv, WorkFine
  <2>4. t = Current(own)
    BY <1>2, <1>6, <2>3 DEF Holder
  <2>5. PICK h : h = Current(own)
    OBVIOUS
  <2>6. Books(own, {})' /\ Holder(own, h)' /\ Current(own)' = h
    BY <1>2, <2>3, <2>5, AtWorkReads
  <2>7. Books(own, Made(job[p]))' /\ Holder(own, Holding(job[p]))'
    BY <1>3, <1>7, <2>4, <2>5, <2>6 DEF Books, Holder, Made, Holding
  <2>8. AtWork(p, own)'
    BY <1>3, <1>7, <2>4, <2>5, <2>6, <2>7, KindsApart DEF AtWork
  <2>9. Rooted(own)' /\ ReplanKept(own)'
    BY <1>2, <1>4, <1>6, <1>7, <2>1, <2>3, RecordsKeep DEF Recording
  <2> QED BY <1>2, <1>4, <1>7, <2>1, <2>8, <2>9, OwnAtWork
<1> QED BY <1>2, <1>6, <1>8, <1>9, StepForWorks

LEMMA BlockerResolveWorks ==
  ASSUME IInv, WorksInv, NEW p \in Procs, NEW s \in Documents, NEW action \in ResolutionActions,
         BlockerResolve(p, s, action)
  PROVE  \A w \in Works' \ disturbed' : WorkFine(w)'
<1>1. PICK j : j = [NoJob EXCEPT !.task = cases[s].current, !.kind = action,
                                 !.source = s, !.copy = cases[s]]
  OBVIOUS
<1>2. PICK step \in {"suspend", "reload"} :
         /\ Goto(p, step, j) /\ (action \in Moves <=> step = "suspend")
  BY <1>1 DEF BlockerResolve, Begin, Moves
<1>3. /\ pc[p] = "idle" /\ cases[s].status = "escalated"
      /\ action = "partial_replan" => s \notin WithReplan
      /\ UNCHANGED <<made, work, receipt, cases, replans, reopened>>
  BY DEF BlockerResolve, Begin, docs
<1>4. /\ j.task = cases[s].current /\ j.kind = action /\ j.source = s /\ j.copy = cases[s]
      /\ j.created = 0
  BY <1>1 DEF NoJob
<1>5. TasksGrow
  BY <1>3, DocumentFacts DEF TasksGrow
<1>6. PICK own : own = work[j.task].of
  OBVIOUS
<1>7. /\ s \in WithCase /\ j.task \in Documents /\ own = work[s].of
      /\ own \in Documents /\ own \in Works
  <2>1. s \in WithCase
    BY <1>3, DocumentFacts DEF WithCase, NoCase
  <2> QED BY <1>4, <1>6, <2>1, DocumentFacts DEF WorksInv, LineageInv
<1>8. pc'[p] = step /\ job'[p] = j /\ WorkOf(p)' = own /\ WorkOf(p) = 0
  <2>1. step \in BlockerSteps /\ pc[p] \notin BlockerSteps
    BY <1>3 DEF BlockerSteps
  <2>2. WorkOf(p) = 0
    BY <2>1 DEF WorkOf
  <2> QED BY <1>2, <1>5, <1>6, <1>7, <2>1, <2>2, AtStep
<1>9. StepFor(p, own) /\ disturbed \subseteq disturbed'
  BY <1>3, <1>5, <1>8 DEF StepFor, Open, BlockerResolve, NoteOverlap
<1>10. ASSUME own \notin disturbed'
       PROVE  WorkFine(own)'
  <2>1. \A q \in Procs \ {p} : WorkOf(q) # own
    BY <1>4, <1>6, <1>10 DEF BlockerResolve, NoteOverlap
  <2>2. ~Busy(own)
    BY <1>7, <1>8, <2>1 DEF Busy
  <2>3. /\ Rooted(own) /\ ReplanKept(own) /\ Books(own, {}) /\ Holder(own, Current(own))
    BY <1>7, <1>9, <1>10, <2>2 DEF WorksInv, WorkFine
  <2>4. s = own /\ j.task = Current(own)
    BY <1>4, <1>7, <2>3 DEF Rooted, Current
  <2>5. PICK h : h = Current(own)
    OBVIOUS
  <2>6. Books(own, {})' /\ Holder(own, h)' /\ Current(own)' = h
        /\ (own \in WithReplan' <=> own \in WithReplan)
    BY <1>3, <2>3, <2>5, AtWorkReads
  <2>7. Books(own, Made(job[p]))' /\ Holder(own, Holding(job[p]))'
    BY <1>4, <1>8, <2>4, <2>5, <2>6 DEF Books, Holder, Made, Holding
  <2>8. AtWork(p, own)'
    BY <1>2, <1>3, <1>4, <1>8, <2>4, <2>5, <2>6, <2>7 DEF AtWork
  <2>9. Rooted(own)' /\ ReplanKept(own)'
    BY <1>3, <1>5, <1>7, <1>8, <2>1, <2>3, RecordsKeep DEF Recording
  <2> QED BY <1>2, <1>5, <1>8, <2>1, <2>8, <2>9, OwnAtWork
<1> QED BY <1>2, <1>7, <1>9, <1>10, StepForWorks

\* The command leaves the documents as they are and returns.
LEMMA OwnReturns ==
  ASSUME IInv, WorksInv, NEW p \in Procs, pc[p] \in BlockerSteps, Return(p),
         UNCHANGED <<made, work, receipt, cases, replans, disturbed, reopened>>,
         job[p].created = 0, ~Recording(p, WorkOf(p))
  PROVE  \A w \in Works' \ disturbed' : WorkFine(w)'
<1>1. PICK own : own = WorkOf(p)
  OBVIOUS
<1>2. own \in Documents /\ own \in Works /\ own # 0
  BY <1>1, OwnFacts, DocumentFacts
<1>3. Goto(p, "idle", NoJob) /\ WorkOf(p)' = 0
  BY OutsideLineage DEF Return, BlockerSteps
<1>4. TasksGrow /\ StepFor(p, own)
  BY <1>1, <1>3, DocumentFacts DEF StepFor, TasksGrow, Open
<1>5. ASSUME own \notin disturbed
      PROVE  WorkFine(own)'
  <2>1. /\ Rooted(own) /\ ReplanKept(own) /\ AtWork(p, own)
        /\ \A q \in Procs \ {p} : WorkOf(q) # own
    BY <1>1, <1>5, OwnFacts
  <2>2. Rooted(own)' /\ ReplanKept(own)'
    BY <1>1, <1>4, <2>1, RecordsKeep
  <2>3. PICK h : h = Current(own)
    OBVIOUS
  <2>4. Books(own, {}) /\ Holder(own, h)
    BY <2>1, <2>3 DEF AtWork, Made, Holding
  <2>5. Books(own, {})' /\ Holder(own, h)' /\ Current(own)' = h
    BY <2>3, <2>4, AtWorkReads
  <2>6. Holder(own, Current(own))'
    BY <2>5 DEF Holder
  <2> QED BY <1>2, <1>3, <1>4, <2>1, <2>2, <2>5, <2>6, OwnLeft
<1> QED BY <1>2, <1>3, <1>4, <1>5, StepForWorks

LEMMA FindCaseWorks ==
  ASSUME IInv, WorksInv, NEW p \in Procs, FindCase(p)
  PROVE  \A w \in Works' \ disturbed' : WorkFine(w)'
<1> DEFINE t == job[p].task
           Continue(k) ==
              Goto(p, IF SelectBlockerAction(job[p].kind, k.copy.count) = "reroute"
                      THEN "suspend" ELSE "persist", k)
<1>1. /\ pc[p] = "findCase" /\ pc[p] \in BlockerSteps
      /\ UNCHANGED <<made, work, receipt, cases, replans, disturbed, reopened>>
  BY DEF FindCase, docs, history, BlockerSteps
<1>2. PICK own : own = WorkOf(p)
  OBVIOUS
<1>3. /\ job[p] \in JobDoc /\ t \in Documents /\ own = work[t].of /\ own \in Documents
      /\ job[p].created = 0 /\ job[p].copy = NoCase /\ job[p].kind \in Kinds
  <2>1. LineageJob(p) /\ BlockerJob(p)
    BY DEF WorksInv, LineageInv, IInv, BlockerJobs
  <2> QED BY <1>1, <1>2, <2>1, CommandFacts, OwnFacts DEF LineageJob, BlockerJob
<1>4. TasksGrow /\ ~Recording(p, own)
  BY <1>1, DocumentFacts DEF TasksGrow, Recording
<1>5. ASSUME NEW s, NEW c, NEW j, j = [job[p] EXCEPT !.source = s, !.copy = c], Continue(j),
             own \notin disturbed => s = own /\ c = cases[own]
      PROVE  \A w \in Works' \ disturbed' : WorkFine(w)'
  <2>1. /\ j.task = t /\ j.kind = job[p].kind /\ j.source = s /\ j.copy = c /\ j.created = 0
    BY <1>3, <1>5 DEF JobDoc
  <2>2. PICK step \in {"suspend", "persist"} : Goto(p, step, j)
    BY <1>5
  <2>3. step \in BlockerSteps
    BY DEF BlockerSteps
  <2>4. pc'[p] = step /\ job'[p] = j /\ WorkOf(p)' = own
    BY <1>2, <1>3, <1>4, <2>1, <2>2, <2>3, AtStep
  <2>5. ASSUME own \notin disturbed
        PROVE  AtWork(p, own)'
    <3>1. AtWork(p, own)
      BY <1>1, <1>2, <2>5, OwnFacts
    <3>2. PICK h : h = Current(own)
      OBVIOUS
    <3>3. Books(own, {}) /\ Holder(own, h) /\ t = h
      BY <1>3, <3>1, <3>2 DEF AtWork, Made, Holding
    <3>4. Books(own, {})' /\ Holder(own, h)' /\ Current(own)' = h
      BY <1>1, <3>2, <3>3, AtWorkReads
    <3>5. Books(own, Made(job[p]))' /\ Holder(own, Holding(job[p]))'
      BY <2>1, <2>4, <3>3, <3>4 DEF Books, Holder, Made, Holding
    <3> QED BY <1>1, <1>3, <1>5, <2>1, <2>4, <2>5, <3>3, <3>4, <3>5, KindsApart DEF AtWork
  <2> QED BY <1>1, <1>2, <1>3, <1>4, <2>2, <2>3, <2>4, <2>5, OwnFacts, OwnReads
<1>6. CASE CasesOf(t) = {} /\ Continue([job[p] EXCEPT !.source = t])
  <2>1. PICK j : j = [job[p] EXCEPT !.source = t]
    OBVIOUS
  <2>2. j = [job[p] EXCEPT !.source = t, !.copy = NoCase]
    BY <1>3, <2>1 DEF JobDoc
  <2>3. ASSUME own \notin disturbed
        PROVE  t = own /\ NoCase = cases[own]
    <3>1. t = Current(own)
      BY <1>1, <1>2, <2>3, OwnFacts DEF AtWork
    <3>2. own \notin WithCase
      BY <1>6, <3>1 DEF Current, CasesOf
    <3> QED BY <1>3, <3>1, <3>2, DocumentFacts DEF Current, WithCase
  <2> QED BY <1>5, <1>6, <2>1, <2>2, <2>3
<1>7. ASSUME NEW s \in CasesOf(t), Continue([job[p] EXCEPT !.source = s, !.copy = cases[s]])
      PROVE  \A w \in Works' \ disturbed' : WorkFine(w)'
  <2>1. s \in WithCase /\ work[s].of = own
    BY <1>3, <1>7 DEF CasesOf, WorksInv, LineageInv
  <2>2. own \notin disturbed => s = own
    BY <1>1, <1>2, <2>1, OwnFacts DEF Rooted
  <2>3. PICK j : j = [job[p] EXCEPT !.source = s, !.copy = cases[s]]
    OBVIOUS
  <2> QED BY <1>5, <1>7, <2>2, <2>3
<1>8. CASE Return(p)
  BY <1>1, <1>2, <1>3, <1>4, <1>8, OwnReturns
<1> QED BY <1>6, <1>7, <1>8 DEF FindCase

LEMMA ReloadCaseWorks ==
  ASSUME IInv, WorksInv, NEW p \in Procs, ReloadCase(p)
  PROVE  \A w \in Works' \ disturbed' : WorkFine(w)'
<1>1. /\ pc[p] = "reload" /\ pc[p] \in BlockerSteps /\ "write" \in BlockerSteps
      /\ UNCHANGED <<made, work, receipt, cases, replans, disturbed, reopened>>
  BY DEF ReloadCase, docs, history, BlockerSteps
<1>2. PICK own : own = WorkOf(p)
  OBVIOUS
<1>3. PICK j : j = [job[p] EXCEPT !.reloaded = cases[job[p].source]]
  OBVIOUS
<1>4. /\ j.task = job[p].task /\ j.kind = job[p].kind /\ j.source = job[p].source
      /\ j.copy = job[p].copy /\ j.created = job[p].created
      /\ j.reloaded = cases[job[p].source] /\ j.task \in Documents /\ own \in Documents
  BY <1>1, <1>2, <1>3, CommandFacts, OwnFacts DEF JobDoc
<1>5. Goto(p, "write", j)
  BY <1>3 DEF ReloadCase
<1>6. TasksGrow
  BY <1>1, DocumentFacts DEF TasksGrow
<1>7. pc'[p] = "write" /\ job'[p] = j /\ WorkOf(p)' = own
  BY <1>1, <1>2, <1>4, <1>5, <1>6, AtStep
<1>8. Recording(p, own) => Recording(p, own)'
  BY <1>1, <1>4, <1>7 DEF Recording
<1>9. ASSUME own \notin disturbed
      PROVE  AtWork(p, own)'
  <2>1. AtWork(p, own)
    BY <1>1, <1>2, <1>9, OwnFacts
  <2>2. PICK new, h : new = Made(job[p]) /\ h = Holding(job[p])
    OBVIOUS
  <2>3. Books(own, new)' /\ Holder(own, h)' /\ Current(own)' = Current(own)
    BY <1>1, <2>1, <2>2, AtWorkReads DEF AtWork
  <2>4. Books(own, Made(job[p]))' /\ Holder(own, Holding(job[p]))'
    BY <1>4, <1>7, <2>2, <2>3 DEF Books, Holder, Made, Holding
  <2> QED BY <1>1, <1>4, <1>7, <2>1, <2>3, <2>4 DEF AtWork
<1> QED BY <1>1, <1>2, <1>4, <1>5, <1>7, <1>8, <1>9, OwnFacts, OwnReads

LEMMA RouteFailsWorks ==
  ASSUME IInv, WorksInv, NEW p \in Procs, RouteFails(p)
  PROVE  \A w \in Works' \ disturbed' : WorkFine(w)'
<1>1. /\ pc[p] = "route" /\ pc[p] \in BlockerSteps /\ GiveUp(p)
      /\ UNCHANGED <<made, work, receipt, cases, replans, disturbed, reopened>>
  BY DEF RouteFails, docs, history, BlockerSteps
<1>2. PICK own, k : own = WorkOf(p) /\ k = job[p]
  OBVIOUS
<1>3. own \in Documents /\ k.created = 0 /\ ~Recording(p, own)
  BY <1>1, <1>2, OwnFacts DEF WorksInv, LineageInv, LineageJob, Recording
<1>4. PICK step, j :
        /\ step \in {"idle", "restore"} /\ Goto(p, step, j) /\ pc'[p] = step /\ job'[p] = j
        /\ step = "idle" => WorkOf(p)' = 0
        /\ step = "restore" =>
             /\ WorkOf(p)' = own /\ j.created = 0
             /\ j.task = k.task /\ j.kind = k.kind /\ j.source = k.source /\ j.copy = k.copy
  BY <1>1, <1>2, GiveUpFacts DEF WorksInv
<1>5. CASE step = "restore"
  <2>1. ASSUME own \notin disturbed
        PROVE  AtWork(p, own)'
    <3>1. AtWork(p, own)
      BY <1>1, <1>2, <2>1, OwnFacts
    <3>2. PICK new, h : new = Made(j) /\ h = Holding(j)
      OBVIOUS
    <3>3. new = Made(k) /\ h = Holding(k)
      BY <1>3, <1>4, <1>5, <3>2 DEF Made, Holding
    <3>4. Books(own, new)' /\ Holder(own, h)' /\ Current(own)' = Current(own)
          /\ Lineage(own)' = Lineage(own) /\ (\A t : Open(t)' <=> Open(t))
          /\ (own \in WithReplan' <=> own \in WithReplan)
      BY <1>1, <1>2, <3>1, <3>3, AtWorkReads DEF AtWork
    <3>5. Books(own, Made(job[p]))' /\ Holder(own, Holding(job[p]))'
      BY <1>4, <3>2, <3>4 DEF Books, Holder, Made, Holding
    <3> QED BY <1>1, <1>2, <1>4, <1>5, <3>1, <3>4, <3>5 DEF AtWork
  <2> QED BY <1>1, <1>2, <1>3, <1>4, <1>5, <2>1, OwnFacts, OwnReads DEF BlockerSteps
<1>6. CASE step = "idle"
  <2>1. Return(p)
    BY <1>1, <1>4, <1>6 DEF GiveUp, Goto, Return, IInv, TypeOK
  <2> QED BY <1>1, <1>2, <1>3, <2>1, OwnReturns
<1> QED BY <1>4, <1>5, <1>6

\* A command that fails after it created its replacement disturbs its work.
LEMMA ReplacementFailsWorks ==
  ASSUME IInv, WorksInv, NEW p \in Procs, ReplacementFails(p)
  PROVE  \A w \in Works' \ disturbed' : WorkFine(w)'
<1>1. /\ pc[p] = "deliverReplacement" /\ pc[p] \in BlockerSteps /\ Creating(p) /\ GiveUp(p)
      /\ Deliver(p) \/ UNCHANGED receipt
      /\ UNCHANGED <<made, work, cases, replans, reopened>>
      /\ disturbed' = disturbed \cup {WorkOf(p)}
  BY DEF ReplacementFails, CreationFails, BlockerSteps, Creating, DeliverSteps
<1>2. PICK own : own = WorkOf(p)
  OBVIOUS
<1>3. own \in Documents /\ TasksGrow /\ work[job[p].created].of = own
  <2>1. job[p].created # 0
    BY <1>1, DeliverFacts, DocumentFacts DEF WorksInv
  <2> QED BY <1>1, <1>2, <2>1, OwnFacts, MadeFacts, DocumentFacts DEF WorksInv, TasksGrow
<1>4. PICK step, j : Goto(p, step, j) /\ WorkOf(p)' \in {0, own}
  BY <1>1, <1>2, GiveUpFacts DEF WorksInv
<1>5. StepFor(p, own)
  <2>1. \A t \in Documents : work[t].of # own => (Open(t)' => Open(t))
    BY <1>1, <1>3, DeliverFacts DEF WorksInv
  <2> QED BY <1>1, <1>2, <1>3, <1>4, <2>1 DEF StepFor
<1> QED BY <1>1, <1>2, <1>3, <1>4, <1>5, StepForWorks

LEMMA SuspendWorks ==
  ASSUME IInv, WorksInv, NEW p \in Procs, Suspend(p)
  PROVE  \A w \in Works' \ disturbed' : WorkFine(w)'
<1>1. /\ pc[p] = "suspend" /\ pc[p] \in BlockerSteps /\ "route" \in BlockerSteps
      /\ UNCHANGED <<made, work, cases, replans, disturbed, reopened>>
  BY DEF Suspend, BlockerSteps
<1>2. PICK own : own = WorkOf(p)
  OBVIOUS
<1>3. PICK j : j = [job[p] EXCEPT !.suspended = Open(job[p].task)]
  OBVIOUS
<1>4. /\ j.task = job[p].task /\ j.kind = job[p].kind /\ j.source = job[p].source
      /\ j.copy = job[p].copy /\ j.created = job[p].created /\ j.created = 0
      /\ j.task \in Documents /\ own \in Documents
  BY <1>1, <1>2, <1>3, CommandFacts, OwnFacts DEF JobDoc, WorksInv, LineageInv, LineageJob
<1>5. Goto(p, "route", j)
  BY <1>3 DEF Suspend
<1>6. TasksGrow /\ WithCase' = WithCase /\ WithReplan' = WithReplan
  BY <1>1, DocumentFacts DEF TasksGrow, WithCase, WithReplan
<1>7. pc'[p] = "route" /\ job'[p] = j /\ WorkOf(p)' = own
  BY <1>1, <1>2, <1>4, <1>5, <1>6, AtStep
<1>8. \A t \in Documents : Open(t)' => Open(t) /\ t # j.task
  BY <1>4, DocumentFacts DEF Suspend, Open, IInv, TypeOK
<1>9. StepFor(p, own)
  BY <1>1, <1>2, <1>6, <1>7, <1>8 DEF StepFor
<1>10. ASSUME own \notin disturbed
       PROVE  WorkFine(own)'
  <2>1. /\ Rooted(own) /\ ReplanKept(own) /\ AtWork(p, own)
        /\ \A q \in Procs \ {p} : WorkOf(q) # own
    BY <1>1, <1>2, <1>10, OwnFacts
  <2>2. Rooted(own)' /\ ReplanKept(own)'
    BY <1>1, <1>6, <2>1, RecordsKeep DEF Recording
  <2>3. Lineage(own)' = Lineage(own) /\ Current(own)' = Current(own)
    BY <1>1, <1>6 DEF Lineage, Current
  <2>4. \A t \in Lineage(own) : ~Open(t)'
    BY <1>4, <1>8, <2>1 DEF AtWork, Holder, Holding, Lineage
  <2>5. Books(own, Made(job[p]))'
    BY <1>1, <1>4, <1>7, <2>1, <2>3 DEF AtWork, Books, By, Made
  <2>6. Holder(own, Holding(job[p]))'
    BY <2>3, <2>4 DEF Holder
  <2>7. AtWork(p, own)'
    BY <1>1, <1>4, <1>6, <1>7, <2>1, <2>3, <2>4, <2>5, <2>6 DEF AtWork
  <2> QED BY <1>5, <1>6, <1>7, <2>1, <2>2, <2>7, OwnAtWork
<1> QED BY <1>1, <1>4, <1>5, <1>9, <1>10, StepForWorks

LEMMA RestoreWorks ==
  ASSUME IInv, WorksInv, NEW p \in Procs, Restore(p)
  PROVE  \A w \in Works' \ disturbed' : WorkFine(w)'
<1>1. /\ pc[p] = "restore" /\ pc[p] \in BlockerSteps
      /\ UNCHANGED <<made, work, cases, replans, disturbed, reopened>>
  BY DEF Restore, history, BlockerSteps
<1>2. PICK own : own = WorkOf(p)
  OBVIOUS
<1>3. /\ job[p].task \in Documents /\ own \in Documents /\ own # 0 /\ job[p].created = 0
      /\ work[job[p].task].of = own
  BY <1>1, <1>2, CommandFacts, OwnFacts, DocumentFacts DEF WorksInv, LineageInv, LineageJob
<1>4. Goto(p, "idle", NoJob) /\ WorkOf(p)' = 0
  BY OutsideLineage DEF Restore, Return, BlockerSteps
<1>5. TasksGrow /\ WithCase' = WithCase /\ WithReplan' = WithReplan
  BY <1>1, DocumentFacts DEF TasksGrow, WithCase, WithReplan
<1>6. \A t \in Documents : Open(t)' => Open(t) \/ t = job[p].task
  BY <1>3, DocumentFacts DEF Restore, Open, IInv, TypeOK
<1>7. StepFor(p, own)
  BY <1>1, <1>2, <1>3, <1>4, <1>5, <1>6 DEF StepFor
<1>8. ASSUME own \notin disturbed
      PROVE  WorkFine(own)'
  <2>1. /\ Rooted(own) /\ ReplanKept(own) /\ AtWork(p, own)
        /\ \A q \in Procs \ {p} : WorkOf(q) # own
    BY <1>1, <1>2, <1>8, OwnFacts
  <2>2. Rooted(own)' /\ ReplanKept(own)'
    BY <1>1, <1>5, <2>1, RecordsKeep DEF Recording
  <2>3. Lineage(own)' = Lineage(own) /\ Current(own)' = Current(own)
    BY <1>1, <1>5 DEF Lineage, Current
  <2>4. Books(own, {})'
    BY <1>1, <1>3, <2>1, <2>3 DEF AtWork, Books, By, Made
  <2>5. Holder(own, Current(own))'
    BY <1>1, <1>6, <2>1, <2>3 DEF AtWork, Holder, Lineage
  <2> QED BY <1>3, <1>4, <1>5, <2>1, <2>2, <2>4, <2>5, OwnLeft
<1> QED BY <1>1, <1>3, <1>4, <1>7, <1>8, StepForWorks

LEMMA RouteReplacementWorks ==
  ASSUME IInv, WorksInv, NEW p \in Procs, RouteReplacement(p)
  PROVE  \A w \in Works' \ disturbed' : WorkFine(w)'
<1>1. PICK own, k, new : own = WorkOf(p) /\ k = job[p] /\ new = made + 1
  OBVIOUS
<1>2. PICK j : j = job'[p]
  OBVIOUS
<1>3. /\ pc[p] = "route" /\ pc[p] \in BlockerSteps /\ k.created = 0
      /\ Goto(p, "deliverReplacement", j) /\ pc'[p] = "deliverReplacement" /\ WorkOf(p)' = own
      /\ j.task = k.task /\ j.kind = k.kind /\ j.source = k.source /\ j.copy = k.copy
      /\ j.created = new
  BY <1>1, <1>2, RouteReplacementFacts DEF WorksInv
<1>4. /\ TasksGrow /\ Documents' = Documents \cup {new} /\ new \notin Documents /\ new # 0
      /\ work'[new] = [of |-> own, by |-> k.kind] /\ receipt[new] = "none"
  <2>1. PICK doc, by : CreateTask(doc, own, by) /\ by = k.kind
    BY <1>1, RouteReplacementFacts DEF WorksInv
  <2> QED BY <1>1, <2>1, CreateTaskFacts
<1>5. UNCHANGED <<receipt, cases, replans, disturbed, reopened>>
  BY DEF RouteReplacement
<1>6. own \in Documents
  BY <1>1, <1>3, OwnFacts
<1>7. StepFor(p, own)
  BY <1>1, <1>3, <1>4, <1>5 DEF StepFor, Open
<1>8. ASSUME own \notin disturbed
      PROVE  WorkFine(own)'
  <2>1. /\ Rooted(own) /\ ReplanKept(own) /\ AtWork(p, own)
        /\ \A q \in Procs \ {p} : WorkOf(q) # own
    BY <1>1, <1>3, <1>8, OwnFacts
  <2>2. Rooted(own)' /\ ReplanKept(own)' /\ (own \in WithReplan' <=> own \in WithReplan)
    BY <1>3, <1>4, <1>5, <2>1, RecordsKeep DEF Recording
  <2>3. Lineage(own)' = Lineage(own) \cup {new}
    BY <1>4 DEF Lineage, TasksGrow
  <2>4. Current(own)' = Current(own)
    BY <1>5 DEF Current, WithCase
  <2>5. \A origins : By(own, origins)' \ {new} = By(own, origins)
    BY <1>4, <2>3 DEF By, TasksGrow, Lineage
  <2>6. Books(own, {})
    BY <1>1, <1>3, <2>1 DEF AtWork, Made
  <2>7. Books(own, {new})'
    <3>1. \A origins : By(own, origins) \ {} = By(own, origins)
      OBVIOUS
    <3> QED BY <1>5, <2>5, <2>6, <3>1 DEF Books
  <2>8. Books(own, Made(job[p]))'
    BY <1>2, <1>3, <1>4, <2>7 DEF Books, Made
  <2>9. \A t \in Lineage(own)' : ~Open(t)'
    BY <1>3, <1>4, <1>5, <2>1, <2>3 DEF AtWork, Open
  <2>10. AtWork(p, own)'
    BY <1>1, <1>2, <1>3, <1>5, <2>1, <2>2, <2>4, <2>8, <2>9 DEF AtWork, Holder
  <2> QED BY <1>3, <1>4, <2>1, <2>2, <2>10, OwnAtWork
<1> QED BY <1>3, <1>5, <1>6, <1>7, <1>8, StepForWorks

LEMMA DeliverReplacementWorks ==
  ASSUME IInv, WorksInv, NEW p \in Procs, DeliverReplacement(p)
  PROVE  \A w \in Works' \ disturbed' : WorkFine(w)'
<1>1. PICK own, k : own = WorkOf(p) /\ k = job[p]
  OBVIOUS
<1>2. PICK step \in {"persist", "createReplan", "reload"} :
        /\ Goto(p, step, k) /\ pc'[p] = step
        /\ step = "createReplan" <=> k.kind = "partial_replan"
  BY <1>1, DeliverReplacementFacts DEF WorksInv
<1>3. /\ pc[p] = "deliverReplacement" /\ pc[p] \in BlockerSteps /\ Creating(p)
      /\ k.created \in Documents /\ k.created # 0 /\ TasksGrow
      /\ UNCHANGED <<made, work, cases, replans, disturbed, reopened>>
      /\ job'[p] = k /\ WorkOf(p)' = own
  BY <1>1, DeliverReplacementFacts DEF WorksInv, Creating, DeliverSteps
<1>4. own \in Documents /\ work[k.created].of = own
  BY <1>1, <1>3, OwnFacts, MadeFacts DEF WorksInv
<1>5. \A t \in Documents : Open(t)' => Open(t) \/ t = k.created
  BY <1>1, <1>3, DeliverFacts DEF WorksInv, DeliverReplacement
<1>6. StepFor(p, own)
  BY <1>1, <1>3, <1>4, <1>5 DEF StepFor
<1>7. ASSUME own \notin disturbed
      PROVE  WorkFine(own)'
  <2>1. /\ Rooted(own) /\ ReplanKept(own) /\ AtWork(p, own)
        /\ \A q \in Procs \ {p} : WorkOf(q) # own
    BY <1>1, <1>3, <1>7, OwnFacts
  <2>2. Rooted(own)' /\ ReplanKept(own)' /\ (own \in WithReplan' <=> own \in WithReplan)
    BY <1>3, <2>1, RecordsKeep DEF Recording
  <2>3. Lineage(own)' = Lineage(own) /\ Current(own)' = Current(own)
        /\ \A origins : By(own, origins)' = By(own, origins)
    BY <1>3 DEF Lineage, Current, WithCase, By
  <2>4. Books(own, Made(job[p]))'
    BY <1>1, <1>3, <2>1, <2>3 DEF AtWork, Books, Made
  <2>5. \A t \in Lineage(own) : Open(t)' => t = k.created
    BY <1>1, <1>3, <1>5, <2>1 DEF AtWork, Lineage
  <2>6. Holder(own, Holding(job[p]))'
    BY <1>3, <2>3, <2>5 DEF Holder, Holding
  <2>7. AtWork(p, own)'
    BY <1>1, <1>2, <1>3, <2>1, <2>2, <2>3, <2>4, <2>6 DEF AtWork
  <2> QED BY <1>2, <1>3, <2>1, <2>2, <2>7, OwnAtWork
<1> QED BY <1>2, <1>3, <1>4, <1>6, <1>7, StepForWorks

\* The case of own is written, with the books as they are, and the command
\* returns.
LEMMA OwnRecorded ==
  ASSUME IInv, WorksInv, NEW p \in Procs, pc[p] \in BlockerSteps, Return(p),
         UNCHANGED <<made, work, receipt, replans, disturbed>>, reopened \subseteq reopened',
         NEW own, own = WorkOf(p), NEW s \in Documents, work[s].of = own,
         NEW c, cases' = [cases EXCEPT ![s] = c],
         own \notin disturbed =>
            /\ s = own /\ c.current = Holding(job[p]) /\ c.current # 0
            /\ c.attempts = By(own, Attempts)
            /\ c.count = Cardinality(By(own, Automatic)) /\ c.count <= MaxReroutes
            /\ ReplanKept(own)'
  PROVE  \A w \in Works' \ disturbed' : WorkFine(w)'
<1>1. /\ own \in Documents /\ own \in Works /\ own # 0 /\ own \in Tasks
  BY OwnFacts, DocumentFacts
<1>2. Goto(p, "idle", NoJob) /\ WorkOf(p)' = 0
  BY OutsideLineage DEF Return, BlockerSteps
<1>3. TasksGrow /\ WithReplan' = WithReplan
  BY DocumentFacts DEF TasksGrow, WithReplan
<1>4. cases'[s] = c /\ \A u \in Tasks \ {s} : cases'[u] = cases[u]
  BY DocumentFacts DEF IInv, TypeOK
<1>5. StepFor(p, own)
  BY <1>2, <1>3, <1>4 DEF StepFor, Open
<1>6. ASSUME own \notin disturbed
      PROVE  WorkFine(own)'
  <2>1. /\ Rooted(own) /\ AtWork(p, own) /\ \A q \in Procs \ {p} : WorkOf(q) # own
    BY <1>6, OwnFacts
  <2>2. WithCase' = WithCase \cup {own} /\ cases'[own] = c
    BY <1>1, <1>4, <1>6 DEF WithCase, NoCase
  <2>3. Rooted(own)'
    BY <1>3, <2>1, <2>2 DEF Rooted
  <2>4. Lineage(own)' = Lineage(own) /\ Current(own)' = Holding(job[p])
    BY <1>6, <2>2 DEF Lineage, Current
  <2>5. Books(own, {})'
    <3>1. \A origins : By(own, origins)' = By(own, origins) /\ By(own, origins) \ {} = By(own, origins)
      BY <2>4 DEF By
    <3> QED BY <1>6, <2>2, <3>1 DEF Books
  <2>6. Holder(own, Current(own))'
    BY <2>1, <2>4 DEF AtWork, Holder, Open
  <2> QED BY <1>1, <1>2, <1>3, <1>6, <2>1, <2>3, <2>5, <2>6, OwnLeft
<1> QED BY <1>1, <1>2, <1>5, <1>6, StepForWorks

\* The replacement that is being recorded is in the books without it exactly
\* when it came by a reroute.
LEMMA NewInBooks ==
  ASSUME IInv, LineageInv, NEW p \in Procs, pc[p] \in BlockerSteps, job[p].created # 0
  PROVE  \A origins :
            /\ IsFiniteSet(By(WorkOf(p), origins) \ {job[p].created})
            /\ job[p].kind \in origins =>
                 /\ By(WorkOf(p), origins) =
                      (By(WorkOf(p), origins) \ {job[p].created}) \cup {job[p].created}
                 /\ Cardinality(By(WorkOf(p), origins)) =
                      Cardinality(By(WorkOf(p), origins) \ {job[p].created}) + 1
            /\ job[p].kind \notin origins =>
                 By(WorkOf(p), origins) \ {job[p].created} = By(WorkOf(p), origins)
<1> SUFFICES ASSUME NEW origins
             PROVE  /\ IsFiniteSet(By(WorkOf(p), origins) \ {job[p].created})
                    /\ job[p].kind \in origins =>
                         /\ By(WorkOf(p), origins) =
                              (By(WorkOf(p), origins) \ {job[p].created}) \cup {job[p].created}
                         /\ Cardinality(By(WorkOf(p), origins)) =
                              Cardinality(By(WorkOf(p), origins) \ {job[p].created}) + 1
                    /\ job[p].kind \notin origins =>
                         By(WorkOf(p), origins) \ {job[p].created} = By(WorkOf(p), origins)
  OBVIOUS
<1>1. PICK all, n : all = By(WorkOf(p), origins) /\ n = job[p].created
  OBVIOUS
<1>2. n \in all <=> job[p].kind \in origins
  BY <1>1, MadeFacts DEF By, Lineage
<1>3. IsFiniteSet(all)
  <2>1. IsFiniteSet(Tasks)
    BY FS_Interval, RunDocsAssumption
  <2>2. all \subseteq Tasks
    BY <1>1, DocumentFacts DEF By, Lineage
  <2> QED BY <2>1, <2>2, FS_Subset
<1>4. IsFiniteSet(all \ {n})
  BY <1>3, FS_RemoveElement
<1>5. n \in all => all = (all \ {n}) \cup {n} /\ Cardinality(all) = Cardinality(all \ {n}) + 1
  <2>1. Cardinality((all \ {n}) \cup {n}) = Cardinality(all \ {n}) + 1
    BY <1>4, FS_AddElement
  <2>2. n \in all => all = (all \ {n}) \cup {n}
    OBVIOUS
  <2> QED BY <2>1, <2>2
<1>6. n \notin all => all \ {n} = all
  OBVIOUS
<1> QED BY <1>1, <1>2, <1>4, <1>5, <1>6

LEMMA PersistWorks ==
  ASSUME IInv, WorksInv, NEW p \in Procs, Persist(p)
  PROVE  \A w \in Works' \ disturbed' : WorkFine(w)'
<1>1. PICK own, j, s, c : /\ own = WorkOf(p) /\ j = job[p] /\ s = job[p].source
                          /\ c = PreparedCase(job[p])
  OBVIOUS
<1>2. /\ pc[p] = "persist" /\ pc[p] \in BlockerSteps /\ Return(p)
      /\ UNCHANGED <<made, work, receipt, replans, disturbed>> /\ reopened \subseteq reopened'
  BY DEF Persist, BlockerSteps
<1>3. /\ s \in Documents /\ work[s].of = own /\ c.current = Holding(j)
      /\ j.task \in Documents /\ own \in Documents
      /\ j.created # 0 <=> Rerouting(j)
  BY <1>1, <1>2, PersistFacts, CommandFacts, OwnFacts DEF WorksInv, LineageInv, LineageJob
<1>4. ASSUME own \notin disturbed
      PROVE  /\ AtWork(p, own) /\ s = own /\ j.copy = cases[own] /\ ~CreateRefused(j)
  <2>1. AtWork(p, own)
    BY <1>1, <1>2, <1>4, OwnFacts
  <2> QED BY <1>1, <1>2, <2>1 DEF AtWork, CreateRefused, WithCase
<1>5. CASE CreateRefused(j)
  <2>1. UNCHANGED <<cases, reopened>> /\ own \in disturbed
    BY <1>1, <1>4, <1>5 DEF Persist
  <2>2. StepFor(p, own) /\ Goto(p, "idle", NoJob)
    BY <1>1, <1>2, <2>1, OutsideLineage, DocumentFacts
       DEF StepFor, TasksGrow, Open, Return, BlockerSteps
  <2> QED BY <1>2, <1>3, <2>1, <2>2, StepForWorks
<1>6. CASE ~CreateRefused(j)
  <2>1. /\ cases' = [cases EXCEPT ![s] = c]
        /\ s \in WithReplan => s \in reopened'
    BY <1>1, <1>6 DEF Persist
  <2>2. ASSUME own \notin disturbed
        PROVE  /\ c.attempts = By(own, Attempts)
               /\ c.count = Cardinality(By(own, Automatic)) /\ c.count <= MaxReroutes
    <3>1. Books(own, Made(j)) /\ j.copy = cases[own]
      BY <1>1, <1>4, <2>2 DEF AtWork
    <3>2. CASE Rerouting(j)
      <4>1. /\ c.attempts = cases[own].attempts \cup {j.created} /\ c.count = cases[own].count + 1
        BY <1>1, <3>1, <3>2 DEF PreparedCase, Rerouting
      <4>2. j.kind = "reroute_needed" /\ cases[own].count < MaxReroutes
        BY <3>1, <3>2, KindsApart DEF Rerouting, SelectBlockerAction
      <4>3. /\ cases[own].attempts = By(own, Attempts) \ {j.created}
            /\ cases[own].count = Cardinality(By(own, Automatic) \ {j.created})
        BY <1>3, <3>1, <3>2 DEF Books, Made
      <4>4. /\ By(own, Attempts) = (By(own, Attempts) \ {j.created}) \cup {j.created}
            /\ Cardinality(By(own, Automatic)) = Cardinality(By(own, Automatic) \ {j.created}) + 1
        BY <1>1, <1>2, <1>3, <3>2, <4>2, NewInBooks DEF WorksInv, Attempts, Automatic
      <4>5. cases[own].count + 1 <= MaxReroutes
        <5>1. cases[own].count \in Nat
          <6>1. IsFiniteSet(By(own, Automatic) \ {j.created})
            BY <1>1, <1>2, <1>3, <3>2, NewInBooks DEF WorksInv
          <6> QED BY <4>3, <6>1, FS_CardinalityType
        <5> QED BY <4>2, <5>1, RunDocsAssumption
      <4> QED BY <4>1, <4>3, <4>4, <4>5
    <3>3. CASE ~Rerouting(j)
      <4>1. c.attempts = cases[own].attempts /\ c.count = cases[own].count
        BY <1>1, <3>1, <3>3 DEF PreparedCase, Rerouting
      <4>2. Books(own, {})
        BY <1>3, <3>1, <3>3 DEF Made
      <4>3. \A origins : By(own, origins) \ {} = By(own, origins)
        OBVIOUS
      <4> QED BY <4>1, <4>2, <4>3 DEF Books
    <3> QED BY <3>2, <3>3
  <2>3. ASSUME own \notin disturbed
        PROVE  ReplanKept(own)'
    BY <1>2, <1>4, <2>1, <2>3 DEF ReplanKept, WithReplan
  <2>4. c.current = Holding(job[p]) /\ c.current # 0
    BY <1>1, <1>3, DocumentFacts DEF Holding
  <2> QED BY <1>1, <1>2, <1>3, <1>4, <2>1, <2>2, <2>3, <2>4, OwnRecorded
<1> QED BY <1>5, <1>6

LEMMA WriteCaseWorks ==
  ASSUME IInv, WorksInv, NEW p \in Procs, WriteCase(p)
  PROVE  \A w \in Works' \ disturbed' : WorkFine(w)'
<1>1. PICK own, j, s, c : /\ own = WorkOf(p) /\ j = job[p] /\ s = job[p].source
                          /\ c = ResolvedCase(job[p])
  OBVIOUS
<1>2. /\ pc[p] = "write" /\ pc[p] \in BlockerSteps /\ Return(p)
      /\ UNCHANGED <<made, work, receipt, replans, disturbed, reopened>>
      /\ cases' = [cases EXCEPT ![s] = c]
  BY <1>1 DEF WriteCase, BlockerSteps, history
<1>3. /\ s \in Documents /\ work[s].of = own /\ own \in Documents /\ j.task \in Documents
      /\ c.current = ResolvedCurrent(j) /\ c.status = "resolved" /\ c.resolution = Resolution(j)
      /\ c.attempts = ResolvedAttempts(j) /\ c.count = j.reloaded.count
  BY <1>1, <1>2, WriteCaseFacts, CommandFacts, OwnFacts DEF WorksInv
<1>4. /\ j.kind \in ResolutionActions /\ s \in WithCase
      /\ j.created # 0 <=> j.kind \in Moves
  <2>1. LineageJob(p) /\ BlockerJob(p)
    BY DEF WorksInv, LineageInv, IInv, BlockerJobs
  <2> QED BY <1>1, <1>2, <2>1 DEF LineageJob, BlockerJob
<1>5. ASSUME own \notin disturbed
      PROVE  /\ s = own /\ c.current = Holding(j) /\ c.current # 0
             /\ c.attempts = By(own, Attempts)
             /\ c.count = Cardinality(By(own, Automatic)) /\ c.count <= MaxReroutes
             /\ ReplanKept(own)'
  <2>1. AtWork(p, own) /\ ReplanKept(own) /\ \A q \in Procs \ {p} : WorkOf(q) # own
    BY <1>1, <1>2, <1>5, OwnFacts
  <2>2. /\ s = own /\ j.copy = cases[own] /\ j.reloaded = cases[own]
        /\ j.task = Current(own) /\ Books(own, Made(j)) /\ cases[own].status = "escalated"
    BY <1>1, <1>2, <1>4, <2>1 DEF AtWork
  <2>3. c.current = Holding(j) /\ c.current # 0
    BY <1>3, <1>4, <2>2, DocumentFacts DEF ResolvedCurrent, Holding, Current
  <2>4. \A origins : By(own, origins) \ {} = By(own, origins)
    OBVIOUS
  <2>5. /\ c.attempts = By(own, Attempts) /\ c.count = Cardinality(By(own, Automatic))
    <3>1. CASE j.created = 0
      BY <1>3, <1>4, <2>2, <2>4, <3>1 DEF Books, Made, ResolvedAttempts, Moves
    <3>2. CASE j.created # 0
      <4>1. /\ cases[own].attempts = By(own, Attempts) \ {j.created}
            /\ cases[own].count = Cardinality(By(own, Automatic) \ {j.created})
        BY <2>2, <3>2 DEF Books, Made
      <4>2. By(own, Automatic) \ {j.created} = By(own, Automatic)
        BY <1>1, <1>2, <1>4, <3>2, NewInBooks DEF WorksInv, Automatic, Moves
      <4>3. CASE j.kind = "manual_reroute"
        <5>1. By(own, Attempts) = (By(own, Attempts) \ {j.created}) \cup {j.created}
          BY <1>1, <1>2, <3>2, <4>3, NewInBooks DEF WorksInv, Attempts
        <5>2. c.attempts = cases[own].attempts \cup {j.created}
          BY <1>3, <2>2, <4>3 DEF ResolvedAttempts
        <5> QED BY <1>3, <2>2, <4>1, <4>2, <5>1, <5>2
      <4>4. CASE j.kind = "partial_replan"
        <5>1. By(own, Attempts) \ {j.created} = By(own, Attempts)
          BY <1>1, <1>2, <3>2, <4>4, NewInBooks DEF WorksInv, Attempts
        <5>2. c.attempts = cases[own].attempts
          BY <1>3, <2>2, <4>4 DEF ResolvedAttempts
        <5> QED BY <1>3, <2>2, <4>1, <4>2, <5>1, <5>2
      <4> QED BY <1>4, <3>2, <4>3, <4>4 DEF Moves
    <3> QED BY <3>1, <3>2
  <2>6. c.count <= MaxReroutes
    BY <1>3, <2>2 DEF Books
  <2>7. ReplanKept(own)'
    <3>1. SUFFICES ASSUME own \in WithReplan \ reopened PROVE ReplanKept(own)'
      BY <1>2 DEF ReplanKept, WithReplan
    <3>2. Recording(p, own)
      BY <2>1, <2>2, <3>1 DEF ReplanKept, Recording
    <3>3. cases'[own] = c
      BY <1>2, <1>3, <2>2, DocumentFacts DEF IInv, TypeOK
    <3>4. ReplanAgrees(own)' /\ cases'[own].status = "resolved"
      BY <1>1, <1>2, <1>3, <3>2, <3>3 DEF ReplanAgrees, Recording, Resolution
    <3> QED BY <3>4 DEF ReplanKept
  <2> QED BY <2>2, <2>3, <2>5, <2>6, <2>7
<1> QED BY <1>1, <1>2, <1>3, <1>5, OwnRecorded

LEMMA CreatePartialReplanWorks ==
  ASSUME IInv, WorksInv, NEW p \in Procs, CreatePartialReplan(p)
  PROVE  \A w \in Works' \ disturbed' : WorkFine(w)'
<1>1. PICK own, j, s : own = WorkOf(p) /\ j = job[p] /\ s = job[p].source
  OBVIOUS
<1>2. /\ pc[p] = "createReplan" /\ pc[p] \in BlockerSteps
      /\ UNCHANGED <<made, work, receipt, cases, disturbed, reopened>>
  BY DEF CreatePartialReplan, BlockerSteps, history
<1>3. /\ s \in Documents /\ work[s].of = own /\ own \in Documents /\ j.task \in Documents
      /\ j.kind = "partial_replan"
  <2>1. LineageJob(p) /\ BlockerJob(p)
    BY DEF WorksInv, LineageInv, IInv, BlockerJobs
  <2> QED BY <1>1, <1>2, <2>1, CommandFacts, OwnFacts DEF LineageJob, BlockerJob
<1>4. TasksGrow /\ WithCase' = WithCase
  BY <1>2, DocumentFacts DEF TasksGrow, WithCase
<1>5. ASSUME own \notin disturbed
      PROVE  /\ Rooted(own) /\ AtWork(p, own) /\ s = own /\ own \notin WithReplan
             /\ \A q \in Procs \ {p} : WorkOf(q) # own
  BY <1>1, <1>2, <1>3, <1>5, OwnFacts DEF AtWork
<1>6. CASE s \in WithReplan
  <2>1. own \in disturbed /\ Return(p) /\ UNCHANGED replans
    BY <1>1, <1>5, <1>6 DEF CreatePartialReplan
  <2>2. StepFor(p, own) /\ Goto(p, "idle", NoJob)
    BY <1>1, <1>2, <1>4, <2>1, OutsideLineage DEF StepFor, Open, Return, BlockerSteps
  <2> QED BY <1>2, <1>3, <2>1, <2>2, StepForWorks
<1>7. CASE s \notin WithReplan
  <2>1. PICK r : r = [superseded |-> j.task, replacement |-> j.created]
    OBVIOUS
  <2>2. replans' = [replans EXCEPT ![s] = r] /\ Goto(p, "reload", j)
    BY <1>1, <1>7, <2>1 DEF CreatePartialReplan
  <2>3. replans'[s] = r /\ \A u \in Tasks \ {s} : replans'[u] = replans[u]
    BY <1>3, <2>2, DocumentFacts DEF IInv, TypeOK
  <2>4. pc'[p] = "reload" /\ job'[p] = j /\ WorkOf(p)' = own
    BY <1>1, <1>2, <1>3, <1>4, <2>2, AtStep DEF BlockerSteps
  <2>5. StepFor(p, own)
    BY <1>1, <1>2, <1>3, <1>4, <2>3, <2>4 DEF StepFor, Open
  <2>6. ASSUME own \notin disturbed
        PROVE  WorkFine(own)'
    <3>1. \A u \in WithReplan' : u = own \/ u \in WithReplan
      BY <1>5, <2>3, <2>6 DEF WithReplan
    <3>2. Rooted(own)'
      BY <1>2, <1>4, <1>5, <2>6, <3>1 DEF Rooted
    <3>3. ReplanKept(own)'
      BY <1>3, <1>5, <2>1, <2>3, <2>4, <2>6 DEF ReplanKept, Recording
    <3>4. Lineage(own)' = Lineage(own) /\ Current(own)' = Current(own)
      BY <1>2, <1>4 DEF Lineage, Current
    <3>5. Books(own, Made(job[p]))' /\ Holder(own, Holding(job[p]))'
      BY <1>1, <1>2, <1>5, <2>4, <2>6, <3>4 DEF AtWork, Books, By, Made, Holder, Holding, Open
    <3>6. AtWork(p, own)'
      BY <1>1, <1>2, <1>3, <1>5, <2>4, <2>6, <3>4, <3>5 DEF AtWork
    <3> QED BY <1>4, <1>5, <2>2, <2>4, <2>6, <3>2, <3>3, <3>6, OwnAtWork
  <2> QED BY <1>2, <1>3, <2>2, <2>5, <2>6, StepForWorks
<1> QED BY <1>6, <1>7

LEMMA AsideWorks ==
  ASSUME IInv, IInv', WorksInv, NEW p \in Procs, Aside(p)
  PROVE  \A w \in Works' \ disturbed' : WorkFine(w)'
<1> SUFFICES ASSUME NEW w \in Works' \ disturbed' PROVE WorkFine(w)'
  OBVIOUS
<1>1. PICK step, j : Goto(p, step, j) /\ step \notin BlockerSteps
  BY DEF Aside
<1>2. /\ TasksGrow /\ UNCHANGED <<cases, replans, disturbed, reopened>>
      /\ WorkOf(p) = 0 /\ WorkOf(p)' = 0
      /\ WithCase' = WithCase /\ WithReplan' = WithReplan
  BY <1>1, OutsideLineage DEF Aside, WorkOf, WithCase, WithReplan
<1>3. /\ w \in Documents' /\ work'[w].of = w /\ w # 0
      /\ \A t \in Documents : work[t].of \in Documents /\ work'[t] = work[t]
      /\ \A t \in Documents' \ Documents : work'[t].of = t /\ work'[t].by \notin Attempts
  BY <1>2, DocumentFacts DEF Works, TasksGrow, Aside
<1>4. CASE w \in Documents
  <2>1. w \in Works
    BY <1>3, <1>4 DEF Works
  <2>2. Lineage(w)' = Lineage(w)
    BY <1>2, <1>3, <1>4, DocumentFacts DEF Lineage, TasksGrow
  <2>3. CASE pc[p] \in Aloof /\ w = job[p].created
    <3>1. Fresh(w) /\ WorkFine(w)
      BY <1>2, <2>1, <2>3 DEF WorksInv, FreshInv
    <3>2. /\ Lineage(w) = {w} /\ w \notin WithCase /\ \A q \in Procs : WorkOf(q) # w
          /\ Books(w, {}) /\ Rooted(w) /\ ReplanKept(w)
      BY <3>1 DEF Fresh, Busy, WorkFine
    <3>3. Rooted(w)' /\ ReplanKept(w)'
      BY <1>2, <3>2, RecordsKeep DEF Recording
    <3>4. By(w, Attempts)' = By(w, Attempts) /\ By(w, Automatic)' = By(w, Automatic)
      BY <1>3, <1>4, <2>2, <3>2 DEF By
    <3>5. Books(w, {})'
      BY <1>2, <3>2, <3>4 DEF Books
    <3>6. Holder(w, Current(w))'
      BY <1>2, <2>2, <3>2 DEF Holder, Current
    <3> QED BY <1>1, <1>2, <1>3, <3>2, <3>3, <3>5, <3>6, OwnLeft
  <2>4. CASE ~(pc[p] \in Aloof /\ w = job[p].created)
    <3>1. pc[p] \in Aloof => work[job[p].created].of = job[p].created
      BY DEF WorksInv, FreshInv, Fresh
    <3>2. \A t \in Lineage(w) : Open(t)' => Open(t)
      BY <2>4, <3>1 DEF Lineage, Aside
    <3>3. Still(w)
      BY <1>2, <1>3, <2>2, <3>2, DocumentFacts DEF Still, Lineage
    <3> QED BY <1>1, <1>2, <1>3, <2>1, <3>3, OtherWork DEF WorksInv
  <2> QED BY <2>3, <2>4
<1>5. CASE w \notin Documents
  <2>1. Lineage(w)' = {w}
    BY <1>3, <1>5, DocumentFacts DEF Lineage
  <2>2. w \notin WithCase' /\ w \notin WithReplan'
    BY <1>2, <1>5, DocumentFacts
  <2>3. Rooted(w)' /\ ReplanKept(w)'
    BY <1>2, <1>3, <1>5, <2>2, DocumentFacts DEF Rooted, ReplanKept
  <2>4. \A q \in Procs \ {p} : WorkOf(q) # w
    <3>1. \A q \in Procs : WorkOf(q) \in Documents \cup {0}
      BY CommandFacts, DocumentFacts DEF WorkOf
    <3> QED BY <1>3, <1>5, <3>1
  <2>5. cases'[w] = NoCase
    <3>1. w \in Tasks
      BY <1>3, RunDocsAssumption DEF IInv, TypeOK
    <3> QED BY <2>2, <3>1 DEF WithCase
  <2>6. By(w, Attempts)' = {} /\ By(w, Automatic)' = {}
    BY <1>3, <1>5, <2>1 DEF By, Attempts, Automatic
  <2>7. Books(w, {})'
    BY <2>5, <2>6, FS_EmptySet, RunDocsAssumption DEF Books, NoCase
  <2>8. Holder(w, Current(w))'
    BY <2>1, <2>2 DEF Holder, Current
  <2> QED BY <1>1, <1>2, <1>3, <2>3, <2>4, <2>7, <2>8, OwnLeft
<1> QED BY <1>4, <1>5

\* A killed command disturbs its work.
LEMMA KillWorks ==
  ASSUME IInv, IInv', WorksInv, NEW p \in Procs, Kill(p)
  PROVE  \A w \in Works' \ disturbed' : WorkFine(w)'
<1>1. /\ Goto(p, "idle", NoJob) /\ "idle" \notin BlockerSteps
      /\ UNCHANGED <<made, receipt, cases, replans, work, reopened>>
  BY DEF Kill, Return, docs, BlockerSteps
<1>2. CASE pc[p] \in BlockerSteps
  <2>1. PICK own : own = WorkOf(p)
    OBVIOUS
  <2>2. own \in Documents /\ own \in disturbed' /\ disturbed \subseteq disturbed'
    BY <1>2, <2>1, OwnFacts DEF Kill
  <2>3. StepFor(p, own)
    BY <1>1, <2>1, OutsideLineage, DocumentFacts DEF StepFor, TasksGrow, Open
  <2> QED BY <1>1, <2>2, <2>3, StepForWorks
<1>3. CASE pc[p] \notin BlockerSteps
  <2>1. UNCHANGED disturbed /\ "idle" \notin BlockerSteps \cup Aloof
        /\ \A t \in Documents : Open(t)' => Open(t)
    BY <1>1, <1>3 DEF Kill, Open, Aloof
  <2> QED BY <1>1, <1>3, <2>1, ReceiptsOnly, AsideWorks
<1> QED BY <1>2, <1>3

-----------------------------------------------------------------------------
(***************************************************************************)
(* The invariant.                                                          *)
(***************************************************************************)
LEMMA InitWorks == Init => WorksInv
<1> SUFFICES ASSUME Init PROVE WorksInv
  OBVIOUS
<1>1. /\ Documents = {} /\ WithCase = {} /\ WithReplan = {}
      /\ \A p \in Procs : pc[p] \notin BlockerSteps \cup Aloof
  BY DEF Init, WithCase, WithReplan, BlockerSteps, Aloof
<1> QED BY <1>1, InitCreation DEF WorksInv, LineageInv, LineageJob, FreshInv, Works

LEMMA StepWorks == IInv /\ IInv' /\ WorksInv /\ [Next]_vars => WorksInv'
<1> SUFFICES ASSUME IInv, IInv', WorksInv, [Next]_vars PROVE WorksInv'
  OBVIOUS
<1> USE DEF WorksInv
<1>0. CreationInv'
  BY StepCreation
<1>1. CASE UNCHANGED vars
  <2>1. UNCHANGED <<made, task, receipt, cases, replans, handoffs, replies, pc, job, work,
                    disturbed, reopened>>
    BY <1>1 DEF vars, docs, history
  <2>2. Works' = Works /\ \A p \in Procs : WorkOf(p)' = WorkOf(p)
    BY <2>1 DEF Works, WorkOf
  <2>3. LineageInv'
    BY <2>1, <2>2 DEF WorksInv, LineageInv, LineageJob, Rerouting, WithCase, WithReplan
  <2>4. ASSUME NEW w \in Works \ disturbed
        PROVE  WorkFine(w)'
    <3>1. WorkFine(w)
      BY <2>4 DEF WorksInv
    <3>2. Alone(w)' /\ Rooted(w)' /\ ReplanKept(w)' /\ (Busy(w)' <=> Busy(w))
      BY <2>1, <2>2, <3>1 DEF WorkFine, Alone, Rooted, ReplanKept, ReplanAgrees, Recording, Busy,
         WithCase, WithReplan
    <3>3. Current(w)' = Current(w) /\ Lineage(w)' = Lineage(w)
          /\ \A origins : By(w, origins)' = By(w, origins)
      BY <2>1 DEF Current, WithCase, Lineage, By
    <3>4. ~Busy(w)' => Books(w, {})' /\ Holder(w, Current(w))'
      BY <2>1, <3>1, <3>2, <3>3 DEF WorkFine, Books, Holder, Open
    <3>5. ASSUME NEW p \in Procs, WorkOf(p)' = w
          PROVE  AtWork(p, w)'
      <4>1. AtWork(p, w)
        BY <2>2, <3>1, <3>5 DEF WorkFine
      <4>2. Books(w, Made(job[p]))' /\ Holder(w, Holding(job[p]))'
        BY <2>1, <3>3, <4>1 DEF AtWork, Books, Holder, Open, Made, Holding
      <4> QED BY <2>1, <3>3, <4>1, <4>2 DEF AtWork, Open, WithReplan
    <3> QED BY <3>2, <3>4, <3>5 DEF WorkFine
  <2>5. FreshInv'
    BY <2>1, <2>2 DEF FreshInv, Fresh, Lineage, WithCase, Busy
  <2> QED BY <1>0, <2>1, <2>2, <2>3, <2>4, <2>5
<1>2. CASE Next
  <2>1. LineageInv'
    BY <1>2, NextLineage
  <2>2. PICK p \in Procs : RouteStep(p) \/ BlockerStep(p) \/ ReviewStep(p) \/ Kill(p)
    BY <1>2 DEF Next
  <2>3. CASE RouteStep(p) \/ ReviewStep(p)
    BY <1>0, <2>1, <2>3, AsideSteps, AsideFresh, AsideWorks
  <2>4. CASE BlockerStep(p)
    <3>1. \A w \in Works' \ disturbed' : WorkFine(w)'
      BY <2>4, TaskBlockWorks, BlockerResolveWorks, FindCaseWorks, SuspendWorks,
         RouteReplacementWorks, DeliverReplacementWorks, RouteFailsWorks, ReplacementFailsWorks,
         RestoreWorks, PersistWorks, CreatePartialReplanWorks, ReloadCaseWorks, WriteCaseWorks
         DEF BlockerStep
    <3> QED BY <1>0, <2>1, <2>4, <3>1, BlockerFresh
  <2>5. CASE Kill(p)
    BY <1>0, <2>1, <2>5, KillWorks, BlockerFresh
  <2> QED BY <2>2, <2>3, <2>4, <2>5
<1> QED BY <1>1, <1>2

\* What a command has read and made belongs to one work, and the books of
\* every undisturbed work are right, in every reachable state.
THEOREM BooksOfWorks == Spec => [](IInv /\ WorksInv)
<1>1. Init => IInv /\ WorksInv
  BY InitIInv, InitWorks
<1>2. IInv /\ WorksInv /\ [Next]_vars => IInv' /\ WorksInv'
  BY StepIInv, StepWorks DEF WorksInv
<1> QED BY <1>1, <1>2, PTL DEF Spec

-----------------------------------------------------------------------------
(***************************************************************************)
(* The properties of works.                                                *)
(***************************************************************************)

\* A busy work is at its one command, a work at rest has its books in order.
LEMMA WorkCases ==
  ASSUME IInv, WorksInv, NEW w \in Works \ disturbed
  PROVE  /\ w \in Documents /\ w # 0 /\ Rooted(w) /\ ReplanKept(w)
         /\ \/ ~Busy(w) /\ Books(w, {}) /\ Holder(w, Current(w))
            \/ \E p \in Procs : /\ pc[p] \in BlockerSteps /\ WorkOf(p) = w /\ Busy(w)
                                /\ AtWork(p, w)
<1>1. WorkFine(w) /\ w \in Documents /\ w # 0
  BY DocumentFacts DEF WorksInv, Works
<1>2. \A p \in Procs : WorkOf(p) = w => pc[p] \in BlockerSteps
  BY <1>1 DEF WorkOf
<1> QED BY <1>1, <1>2 DEF WorkFine, Busy

\* 04-CONTEXT.md D-08 and D-10: the coordinator reroutes no work more often
\* than the ceiling allows, however the work moves, for any ceiling.
THEOREM CeilingIsKept == Spec => []CeilingKept
<1>1. ASSUME IInv, WorksInv
      PROVE  CeilingKept
  <2>1. SUFFICES ASSUME NEW w \in Works \ disturbed
                 PROVE  Cardinality(By(w, Automatic)) <= MaxReroutes
    BY DEF CeilingKept, By, Automatic
  <2>2. \A origins : By(w, origins) \ {} = By(w, origins)
    OBVIOUS
  <2>3. CASE Books(w, {})
    BY <2>2, <2>3 DEF Books
  <2>4. ASSUME NEW p \in Procs, pc[p] \in BlockerSteps, WorkOf(p) = w, AtWork(p, w),
               job[p].created # 0
        PROVE  Cardinality(By(w, Automatic)) <= MaxReroutes
    <3>1. PICK j, n : j = job[p] /\ n = job[p].created
      OBVIOUS
    <3>2. /\ cases[w].count = Cardinality(By(w, Automatic) \ {n}) /\ cases[w].count <= MaxReroutes
      BY <1>1, <2>4, <3>1 DEF AtWork, Books, Made
    <3>3. CASE j.kind = "reroute_needed"
      <4>1. LineageJob(p) /\ BlockerJob(p)
        BY <1>1 DEF WorksInv, LineageInv, IInv, BlockerJobs
      <4>2. pc[p] \in {"deliverReplacement", "persist"}
        BY <2>4, <3>1, <3>3, <4>1 DEF LineageJob, BlockerJob, BlockerSteps, ResolutionActions
      <4>3. cases[w].count < MaxReroutes
        <5>1. Rerouting(j) /\ j.copy = cases[w]
          BY <2>4, <3>1, <3>3, <4>1, <4>2 DEF LineageJob, AtWork
        <5> QED BY <3>3, <5>1 DEF Rerouting, SelectBlockerAction, WaitKinds
      <4>4. Cardinality(By(w, Automatic)) = cases[w].count + 1
        BY <1>1, <2>4, <3>1, <3>2, <3>3, NewInBooks DEF WorksInv, Automatic
      <4>5. cases[w].count \in Nat
        <5>1. IsFiniteSet(By(w, Automatic) \ {n})
          BY <1>1, <2>4, <3>1, NewInBooks DEF WorksInv
        <5> QED BY <3>2, <5>1, FS_CardinalityType
      <4> QED BY <4>3, <4>4, <4>5, RunDocsAssumption
    <3>4. CASE j.kind # "reroute_needed"
      <4>1. By(w, Automatic) \ {n} = By(w, Automatic)
        BY <1>1, <2>4, <3>1, <3>4, NewInBooks DEF WorksInv, Automatic
      <4> QED BY <3>2, <4>1
    <3> QED BY <3>3, <3>4
  <2>5. ASSUME NEW p \in Procs, AtWork(p, w), job[p].created = 0
        PROVE  Books(w, {})
    BY <2>5 DEF AtWork, Made
  <2> QED BY <1>1, <2>3, <2>4, <2>5, WorkCases
<1> QED BY <1>1, BooksOfWorks, PTL

\* rerouteBlockerTask and createPartialReplanTask never leave a work with two
\* open tasks, and between blocker commands the case names the open one.
THEOREM OneHolderPerWork == Spec => []OneHolder
<1>1. ASSUME IInv, WorksInv
      PROVE  OneHolder
  <2>1. ASSUME NEW w \in Works \ disturbed, NEW t \in Lineage(w), Open(t)
        PROVE  /\ \A u \in Lineage(w) : Open(u) => u = t
               /\ ~Busy(w) /\ w \in WithCase => cases[w].current = t
    <3>1. CASE ~Busy(w) /\ Holder(w, Current(w))
      BY <2>1, <3>1 DEF Holder, Current
    <3>2. ASSUME NEW p \in Procs, Busy(w), AtWork(p, w)
          PROVE  \A u \in Lineage(w) : Open(u) => u = t
      BY <2>1, <3>2 DEF AtWork, Holder
    <3> QED BY <1>1, <3>1, <3>2, WorkCases
  <2> QED BY <2>1 DEF OneHolder
<1> QED BY <1>1, BooksOfWorks, PTL

\* recordCoordinatorBlocker and BlockerResolve leave the case with every
\* reroute of its work and the right count.
THEOREM AttemptsAreRecorded == Spec => []AttemptsRecorded
<1>1. ASSUME IInv, WorksInv
      PROVE  AttemptsRecorded
  <2>1. ASSUME NEW w \in Works \ disturbed, ~Busy(w)
        PROVE  /\ cases[w].attempts = By(w, Attempts)
               /\ cases[w].count = Cardinality(By(w, Automatic))
    <3>1. Books(w, {})
      BY <1>1, <2>1, WorkCases
    <3>2. \A origins : By(w, origins) \ {} = By(w, origins)
      OBVIOUS
    <3> QED BY <3>1, <3>2 DEF Books
  <2> QED BY <2>1 DEF AttemptsRecorded, By, Attempts, Automatic
<1> QED BY <1>1, BooksOfWorks, PTL

\* Once no task is being created or was left half made, LoadRunGraph accepts
\* every run whose replans are recorded and whose replanned works were not
\* blocked again.
THEOREM RunsLoad == Spec => []RunLoads
<1>1. ASSUME IInv, WorksInv, LinksResolve
      PROVE  RunLoads
  <2>1. SUFFICES ASSUME ~RouteLocked, halfMade = {}, ReplansSettled
                 PROVE  LoadRunGraph
    BY DEF RunLoads
  <2>2. \A t \in Documents : TaskLoads(t)
    BY <1>1, <2>1 DEF WorksInv, CreationInv, Creating, RouteLocked, TaskLoads
  <2>3. ASSUME NEW s \in WithReplan
        PROVE  ReplanAgrees(s)
    <3>1. PICK w : w = work[s].of
      OBVIOUS
    <3>2. w \in Works \ disturbed /\ ~Busy(w) /\ w \notin reopened
      BY <1>1, <2>1, <3>1, DocumentFacts DEF ReplansSettled, WorksInv, LineageInv
    <3>3. Rooted(w) /\ ReplanKept(w)
      BY <1>1, <3>2, WorkCases
    <3>4. s = w
      BY <3>1, <3>3 DEF Rooted
    <3> QED BY <3>2, <3>3, <3>4 DEF ReplanKept, Recording, Busy
  <2> QED BY <1>1, <2>2, <2>3 DEF LoadRunGraph, LinksResolve
<1> QED BY <1>1, BooksOfWorks, LinksAlwaysResolve, PTL

\* BuildRunSummary shows every open task that is not of a review.
THEOREM OpenWorkShown == Spec => []OpenWorkIsShown
<1>1. ASSUME IInv, WorksInv
      PROVE  OpenWorkIsShown
  <2>1. SUFFICES ASSUME NEW t \in Documents, Open(t), task[work[t].of].class # "review",
                        ~Busy(work[t].of), work[t].of \notin disturbed
                 PROVE  t \in Rows \cup {Effective(s) : s \in Rows}
    BY DEF OpenWorkIsShown
  <2>2. PICK w : w = work[t].of
    OBVIOUS
  <2>3. w \in Works \ disturbed /\ t \in Lineage(w) /\ work[w].of = w /\ w \in Documents
    BY <1>1, <2>1, <2>2 DEF WorksInv, LineageInv, Lineage, Works
  <2>4. Rooted(w) /\ Holder(w, Current(w))
    BY <1>1, <2>1, <2>2, <2>3, WorkCases
  <2>5. t = Current(w)
    BY <2>1, <2>3, <2>4 DEF Holder
  <2>6. w \in Rows
    <3>1. ASSUME NEW s \in Documents, Moved(s)
          PROVE  cases[s].current # w
      BY <1>1, <2>3, <2>4, <3>1 DEF Moved, WorksInv, LineageInv, Rooted
    <3>2. \A s \in WithReplan : replans[s].replacement # w
      BY <1>1, <2>3 DEF WorksInv, LineageInv
    <3> QED BY <2>1, <2>2, <2>3, <3>1, <3>2 DEF Rows, Excluded
  <2>7. CASE Moved(w)
    BY <2>5, <2>6, <2>7 DEF Effective, Moved, Current
  <2>8. CASE ~Moved(w)
    BY <2>5, <2>6, <2>8 DEF Moved, Current
  <2> QED BY <2>7, <2>8
<1> QED BY <1>1, BooksOfWorks, PTL
=============================================================================
