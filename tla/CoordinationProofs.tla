------------------------- MODULE CoordinationProofs -------------------------
(***************************************************************************)
(* The documents of a run stay well formed, their links resolve and an     *)
(* answered review stays answered, for any processes, domains, declared    *)
(* kinds, reroute ceiling, overlaps and kills.                             *)
(***************************************************************************)
EXTENDS Coordination, TLAPS

\* A case as it is on disk or in the copy of a command.
CaseFine(c) ==
    c # NoCase => /\ ValidCase(c)
                  /\ c.current \in Documents
                  /\ c.resolution.created \in Documents \cup {0}

CasesInv == \A s \in Tasks : CaseFine(cases[s]) /\ (s \in WithCase => s \in Documents)

ReplanFine(s) ==
    /\ s \in Documents /\ ValidReplan(s, replans[s])
    /\ replans[s].superseded \in Documents /\ replans[s].replacement \in Documents

\* No replacement belongs to two replans, also while it is being recorded.
Replacing == {"deliverReplacement", "createReplan"}

ReplansInv ==
    /\ \A s \in WithReplan : ReplanFine(s)
    /\ \A s, u \in WithReplan : replans[s].replacement = replans[u].replacement => s = u
    /\ \A p \in Procs, s \in WithReplan :
         pc[p] \in Replacing => replans[s].replacement # job[p].created
    /\ \A p, q \in Procs :
         pc[p] \in Replacing /\ pc[q] \in Replacing /\ p # q =>
             job[p].created # job[q].created

HandoffFine(s) ==
    /\ HandoffLoads(s)
    /\ handoffs[s].status = "responded" => receipt[handoffs[s].review] = "done"

HandoffsInv == \A s \in WithHandoff : HandoffFine(s)

WorkInv == \A t \in Documents : work[t].of \in Documents

\* What a blocker command has read and made.
Moves == {"manual_reroute", "partial_replan"}

BlockerJob(p) ==
    LET j == job[p]
        CaseKept == j.source \in WithCase /\ j.copy # NoCase
    IN
    pc[p] \in BlockerSteps =>
        /\ j.task \in Documents
        /\ CaseFine(j.copy)
        /\ pc[p] # "findCase" => j.source \in Documents
        /\ pc[p] \in {"findCase", "persist"} => j.kind \in Kinds
        /\ pc[p] \in {"suspend", "route", "deliverReplacement", "restore"} =>
             (j.kind \in Kinds /\ j.kind = "reroute_needed") \/ (j.kind \in Moves /\ CaseKept)
        /\ pc[p] = "restore" => j.suspended
        /\ pc[p] = "persist" /\ SelectBlockerAction(j.kind, j.copy.count) = "reroute" =>
             j.created \in Documents
        /\ pc[p] \in Replacing => j.created \in Documents \ {j.source, j.task}
        /\ pc[p] = "createReplan" => j.kind = "partial_replan" /\ CaseKept
        /\ pc[p] \in {"reload", "write"} =>
             /\ j.kind \in ResolutionActions /\ CaseKept
             /\ j.created \in Documents \cup {0}
             /\ j.kind = "manual_reroute" => j.created # 0
        /\ pc[p] = "write" => j.reloaded # NoCase /\ CaseFine(j.reloaded)

BlockerJobs == \A p \in Procs : BlockerJob(p)

\* A suspended receipt is dead and belongs to one command, so that no restore
\* reopens a receipt that is done.
Suspending(p) == pc[p] \in {"route", "deliverReplacement", "restore"} /\ job[p].suspended

SuspendedInv ==
    /\ \A p \in Procs : Suspending(p) => receipt[job[p].task] = "dead"
    /\ \A p, q \in Procs :
         Suspending(p) /\ Suspending(q) /\ p # q => job[p].task # job[q].task

\* The command that completed a task is alone with its handoff.
HandoffSteps ==
    {"checkHandoff", "routeReview", "deliverReview", "createHandoff", "failHandoff"}

HandoffJob(p) ==
    LET j == job[p] IN
    pc[p] \in HandoffSteps =>
        /\ j.task \in Documents /\ receipt[j.task] = "done"
        /\ pc[p] # "checkHandoff" => j.task \notin WithHandoff
        /\ j.created # 0 => j.created \in Documents /\ task[j.created].class = "review"
        /\ pc[p] \in {"deliverReview", "createHandoff"} => j.created # 0

HandoffJobs ==
    /\ \A p \in Procs : HandoffJob(p)
    /\ \A p, q \in Procs :
         pc[p] \in HandoffSteps /\ pc[q] \in HandoffSteps /\ p # q => job[p].task # job[q].task

\* A response belongs to the handoff of its review task, and one command at a
\* time has completed the review.
ResponseJob(p) ==
    LET j == job[p] IN
    /\ pc[p] = "findHandoff" => j.task \in Documents /\ j.kind \in Outcomes
    /\ pc[p] \in {"reply", "complete", "respond"} =>
         /\ j.task \in Documents /\ j.kind \in Outcomes
         /\ j.source \in WithHandoff /\ handoffs[j.source].review = j.task
         /\ task[j.task].class = "review"
    /\ pc[p] \in {"complete", "respond"} => j.created \in 1..replies[j.task]
    /\ pc[p] = "respond" =>
         receipt[j.task] = "done" /\ handoffs[j.source].status # "responded"

ResponseJobs ==
    /\ \A p \in Procs : ResponseJob(p)
    /\ \A p, q \in Procs :
         pc[p] = "respond" /\ pc[q] = "respond" /\ p # q => job[p].task # job[q].task

IInv == /\ TypeOK /\ CasesInv /\ ReplansInv /\ HandoffsInv /\ WorkInv
        /\ BlockerJobs /\ SuspendedInv /\ HandoffJobs /\ ResponseJobs

\* The route lock: one task at a time waits for its receipt, and what else has
\* none was cut short.
Creating(p) == pc[p] \in DeliverSteps

CreationInv ==
    /\ \A p \in Procs : Creating(p) =>
         job[p].created \in Documents /\ receipt[job[p].created] = "none"
    /\ \A p, q \in Procs : Creating(p) /\ Creating(q) => p = q
    /\ \A t \in Documents : receipt[t] = "none" =>
         t \in halfMade \/ \E p \in Procs : Creating(p) /\ job[p].created = t

USE DEF Tasks, Documents, Replacing

-----------------------------------------------------------------------------
(***************************************************************************)
(* What a step of one process does to the others.                          *)
(***************************************************************************)

\* Documents are only added, done tasks stay done, and p alone adds or answers
\* the handoff it is at.
Grows(p) ==
    /\ made' \in 0..MaxTasks /\ made <= made'
    /\ \A t \in Documents :
         task'[t] = task[t] /\ (receipt[t] = "done" => receipt'[t] = "done")
    /\ \A s \in WithCase : s \in WithCase'
    /\ \A s \in WithHandoff' :
         s \in WithHandoff \/ (pc[p] \in HandoffSteps /\ s = job[p].task)
    /\ \A s \in WithHandoff :
         /\ s \in WithHandoff' /\ handoffs'[s].review = handoffs[s].review
         /\ handoffs'[s].status = "responded" =>
              handoffs[s].status = "responded" \/ (pc[p] = "respond" /\ job[p].source = s)
    /\ \A t \in Tasks : replies[t] <= replies'[t] /\ replies'[t] \in Nat

\* What the other commands have read and made then stays good.
LEMMA OthersKeep ==
  ASSUME IInv, NEW p \in Procs, NEW step, NEW j, Goto(p, step, j), Grows(p)
  PROVE  \A q \in Procs \ {p} : BlockerJob(q)' /\ HandoffJob(q)' /\ ResponseJob(q)'
<1> SUFFICES ASSUME NEW q \in Procs \ {p}
             PROVE  BlockerJob(q)' /\ HandoffJob(q)' /\ ResponseJob(q)'
  OBVIOUS
<1> USE RunDocsAssumption
<1>1. pc'[q] = pc[q] /\ job'[q] = job[q] /\ Documents \subseteq Documents' /\ made \in Nat
  BY DEF Goto, IInv, TypeOK, Grows
<1>2. BlockerJob(q)'
  <2>1. CaseFine(job[q].copy) => CaseFine(job[q].copy)'
    BY <1>1 DEF CaseFine
  <2>2. CaseFine(job[q].reloaded) => CaseFine(job[q].reloaded)'
    BY <1>1 DEF CaseFine
  <2> QED BY <1>1, <2>1, <2>2 DEF IInv, BlockerJobs, BlockerJob, Grows
<1>3. HandoffJob(q)'
  BY <1>1 DEF IInv, HandoffJobs, HandoffJob, Grows
<1>4. ResponseJob(q)'
  <2>1. ResponseJob(q)
    BY DEF IInv, ResponseJobs
  <2>2. replies \in [Tasks -> Nat] /\ Documents \subseteq Tasks
    BY DEF IInv, TypeOK
  <2>3. ASSUME pc[q] \in {"reply", "complete", "respond"}
        PROVE  /\ job[q].source \in WithHandoff' /\ handoffs'[job[q].source].review = job[q].task
               /\ task'[job[q].task].class = "review"
               /\ job[q].task \in Documents'
    BY <1>1, <2>1, <2>3 DEF ResponseJob, Grows
  <2>4. ASSUME pc[q] \in {"complete", "respond"}
        PROVE  job[q].created \in 1..replies'[job[q].task]
    BY <1>1, <2>1, <2>2, <2>4 DEF ResponseJob, Grows
  <2>5. ASSUME pc[q] = "respond"
        PROVE  /\ receipt'[job[q].task] = "done"
               /\ handoffs'[job[q].source].status # "responded"
    <3>1. pc[p] = "respond" => job[p].source # job[q].source
      BY <2>1, <2>5 DEF IInv, ResponseJobs, ResponseJob
    <3> QED BY <1>1, <2>1, <2>5, <3>1 DEF ResponseJob, Grows
  <2> QED BY <1>1, <2>1, <2>3, <2>4, <2>5 DEF ResponseJob
<1> QED BY <1>2, <1>3, <1>4

\* The part of the invariant that is about the processes.
ProcessTypes ==
    /\ pc \in [Procs -> {"idle"} \cup DeliverSteps \cup BlockerSteps \cup ReviewSteps]
    /\ job \in [Procs -> JobDoc]
    /\ \A p \in Procs : pc[p] = "idle" <=> job[p] = NoJob

LEMMA ProcessesKeep ==
  ASSUME IInv, NEW p \in Procs, NEW step, NEW j, Goto(p, step, j), Grows(p),
         step \in {"idle"} \cup DeliverSteps \cup BlockerSteps \cup ReviewSteps, j \in JobDoc,
         step = "idle" <=> j = NoJob,
         BlockerJob(p)', HandoffJob(p)', ResponseJob(p)',
         \A q \in Procs \ {p} : Suspending(q) => receipt'[job[q].task] = "dead",
         Suspending(p)' =>
            /\ receipt'[j.task] = "dead"
            /\ \A q \in Procs \ {p} : Suspending(q) => job[q].task # j.task,
         step \in HandoffSteps =>
            \A q \in Procs \ {p} : pc[q] \in HandoffSteps => job[q].task # j.task,
         step = "respond" =>
            \A q \in Procs \ {p} : pc[q] = "respond" => job[q].task # j.task
  PROVE  /\ ProcessTypes' /\ BlockerJobs' /\ SuspendedInv' /\ HandoffJobs' /\ ResponseJobs'
         /\ pc'[p] = step /\ job'[p] = j
         /\ \A q \in Procs \ {p} : pc'[q] = pc[q] /\ job'[q] = job[q]
<1>1. /\ pc'[p] = step /\ job'[p] = j
      /\ \A q \in Procs \ {p} : pc'[q] = pc[q] /\ job'[q] = job[q]
  BY DEF Goto, IInv, TypeOK
<1>2. \A q \in Procs \ {p} : BlockerJob(q)' /\ HandoffJob(q)' /\ ResponseJob(q)'
  BY OthersKeep
<1>3. ProcessTypes'
  <2>1. /\ pc' \in [Procs -> {"idle"} \cup DeliverSteps \cup BlockerSteps \cup ReviewSteps]
        /\ job' \in [Procs -> JobDoc]
    BY DEF IInv, TypeOK, Goto
  <2>2. \A q \in Procs : pc'[q] = "idle" <=> job'[q] = NoJob
    BY <1>1 DEF IInv, TypeOK
  <2> QED BY <2>1, <2>2 DEF ProcessTypes
<1>4. SuspendedInv'
  BY <1>1 DEF IInv, SuspendedInv, Suspending
<1>5. HandoffJobs'
  BY <1>1, <1>2 DEF IInv, HandoffJobs
<1>6. ResponseJobs'
  BY <1>1, <1>2 DEF IInv, ResponseJobs
<1> QED BY <1>1, <1>2, <1>3, <1>4, <1>5, <1>6 DEF BlockerJobs

\* A step that reads the documents and changes none.
LEMMA ReadingStep ==
  ASSUME IInv, NEW p \in Procs, NEW step, NEW j, Goto(p, step, j),
         UNCHANGED <<docs, work>>,
         step \in {"idle"} \cup DeliverSteps \cup BlockerSteps \cup ReviewSteps, j \in JobDoc,
         step = "idle" <=> j = NoJob,
         step \notin Replacing \cup {"respond"},
         disturbed' \cup reopened' \cup abandoned' \cup halfMade' \subseteq Documents,
         commands' \in 0..MaxCommands, kills' \in 0..MaxKills,
         BlockerJob(p)', HandoffJob(p)', ResponseJob(p)',
         Suspending(p)' => Suspending(p) /\ j.task = job[p].task,
         step \in HandoffSteps => pc[p] \in HandoffSteps /\ j.task = job[p].task
  PROVE  IInv'
<1>1. UNCHANGED <<made, task, receipt, cases, replans, handoffs, replies, work>>
  BY DEF docs
<1>2. Grows(p)
  BY <1>1, RunDocsAssumption DEF IInv, TypeOK, Grows, WithHandoff, WithCase
<1>3. /\ ProcessTypes' /\ BlockerJobs' /\ SuspendedInv' /\ HandoffJobs' /\ ResponseJobs'
      /\ pc'[p] = step /\ job'[p] = j
      /\ \A q \in Procs \ {p} : pc'[q] = pc[q] /\ job'[q] = job[q]
  <2>1. \A q \in Procs \ {p} : Suspending(q) => receipt'[job[q].task] = "dead"
    BY <1>1 DEF IInv, SuspendedInv
  <2>2. Suspending(p)' => /\ receipt'[j.task] = "dead"
                          /\ \A q \in Procs \ {p} : Suspending(q) => job[q].task # j.task
    BY <1>1 DEF IInv, SuspendedInv
  <2>3. step \in HandoffSteps =>
           \A q \in Procs \ {p} : pc[q] \in HandoffSteps => job[q].task # j.task
    BY DEF IInv, HandoffJobs
  <2> QED BY <1>2, <2>1, <2>2, <2>3, ProcessesKeep
<1>4. TypeOK'
  BY <1>1, <1>3 DEF IInv, TypeOK, ProcessTypes
<1>5. CasesInv' /\ HandoffsInv' /\ WorkInv'
  BY <1>1 DEF IInv, CasesInv, CaseFine, WithCase, HandoffsInv, HandoffFine, HandoffLoads,
              WithHandoff, WorkInv
<1>6. ReplansInv'
  BY <1>1, <1>3 DEF IInv, ReplansInv, ReplanFine, WithReplan
<1> QED BY <1>3, <1>4, <1>5, <1>6 DEF IInv

LEMMA NoJobTyped == NoJob \in JobDoc
BY RunDocsAssumption DEF NoJob, JobDoc, JobKinds

LEMMA ReturnStep ==
  ASSUME IInv, NEW p \in Procs, Return(p), UNCHANGED <<docs, work>>,
         disturbed' \cup reopened' \cup abandoned' \cup halfMade' \subseteq Documents,
         commands' \in 0..MaxCommands, kills' \in 0..MaxKills
  PROVE  IInv'
<1>1. Goto(p, "idle", NoJob)
  BY DEF Return
<1>2. pc'[p] = "idle"
  BY <1>1 DEF Goto, IInv, TypeOK
<1>3. BlockerJob(p)' /\ HandoffJob(p)' /\ ResponseJob(p)' /\ ~Suspending(p)'
  BY <1>2 DEF BlockerJob, HandoffJob, ResponseJob, Suspending, BlockerSteps, HandoffSteps
<1> QED BY <1>1, <1>3, NoJobTyped, ReadingStep DEF HandoffSteps

-----------------------------------------------------------------------------
(***************************************************************************)
(* The steps that change no document.                                      *)
(***************************************************************************)

\* The works of the processes, whatever they are at.
LEMMA DocumentTasks ==
  ASSUME TypeOK
  PROVE  made \in 0..MaxTasks /\ Documents \subseteq 1..MaxTasks /\ Documents \subseteq 0..MaxTasks
BY RunDocsAssumption DEF TypeOK

LEMMA BlockerCommand ==
  ASSUME IInv, NEW p \in Procs, pc[p] \in BlockerSteps
  PROVE  /\ BlockerJob(p)
         /\ job[p] \in JobDoc /\ job[p].task \in Documents /\ CaseFine(job[p].copy)
         /\ pc[p] # "findCase" => job[p].source \in Documents
BY DEF IInv, TypeOK, BlockerJobs, BlockerJob

LEMMA WorkOfDocument ==
  ASSUME IInv, NEW p \in Procs, pc[p] \in BlockerSteps
  PROVE  job[p].task \in Documents /\ WorkOf(p) \in Documents
BY DEF IInv, BlockerJobs, BlockerJob, WorkInv, WorkOf

LEMMA NoteOverlapTyped ==
  ASSUME IInv, NEW p \in Procs, NEW t \in Documents, NoteOverlap(p, t)
  PROVE  disturbed' \subseteq Documents
BY DEF IInv, TypeOK, WorkInv, NoteOverlap

\* A new command's job.
LEMMA NewJob ==
  ASSUME TypeOK, NEW t \in Documents, NEW kind \in JobKinds
  PROVE  LET j == [NoJob EXCEPT !.task = t, !.kind = kind] IN
         j \in JobDoc /\ j # NoJob /\ j.task = t /\ j.kind = kind /\ j.copy = NoCase /\ j.created = 0
<1>1. PICK j : j = [NoJob EXCEPT !.task = t, !.kind = kind]
  OBVIOUS
<1>2. t \in 0..MaxTasks /\ t # 0
  BY RunDocsAssumption DEF TypeOK
<1>3. j \in JobDoc
  BY <1>1, <1>2, NoJobTyped DEF JobDoc
<1>4. j.task = t /\ j.kind = kind /\ j.copy = NoCase /\ j.created = 0 /\ NoJob.task = 0
  BY <1>1 DEF NoJob
<1> QED BY <1>1, <1>2, <1>3, <1>4

LEMMA TaskBlockIInv ==
  ASSUME IInv, NEW p \in Procs, NEW t \in Documents, NEW kind \in Kinds, TaskBlock(p, t, kind)
  PROVE  IInv'
<1>1. PICK j : j = [NoJob EXCEPT !.task = t, !.kind = kind]
  OBVIOUS
<1>2. /\ j \in JobDoc /\ j # NoJob /\ j.task = t /\ j.kind = kind /\ j.copy = NoCase
  BY <1>1, NewJob DEF IInv, JobKinds
<1>3. Goto(p, "findCase", j) /\ commands' \in 0..MaxCommands
  BY <1>1, RunDocsAssumption DEF TaskBlock, Begin, IInv, TypeOK
<1>4. pc'[p] = "findCase" /\ job'[p] = j
  BY <1>3 DEF Goto, IInv, TypeOK
<1>5. UNCHANGED <<docs, work>> /\ UNCHANGED <<reopened, abandoned, halfMade, kills, made>>
  BY DEF TaskBlock, docs
<1>6. BlockerJob(p)' /\ HandoffJob(p)' /\ ResponseJob(p)' /\ ~Suspending(p)'
  BY <1>2, <1>4, <1>5 DEF BlockerJob, HandoffJob, ResponseJob, Suspending, HandoffSteps, CaseFine
<1>7. disturbed' \cup reopened' \cup abandoned' \cup halfMade' \subseteq Documents /\ kills' \in 0..MaxKills
  BY <1>5, NoteOverlapTyped DEF TaskBlock, IInv, TypeOK
<1> QED BY <1>2, <1>3, <1>5, <1>6, <1>7, ReadingStep DEF BlockerSteps, HandoffSteps

LEMMA FoundCase ==
  ASSUME IInv, NEW p \in Procs, pc[p] = "findCase", NEW k \in JobDoc,
         k.task = job[p].task, k.kind = job[p].kind, k.source \in Documents, CaseFine(k.copy),
         NEW step \in {"suspend", "persist"},
         step = "suspend" <=> SelectBlockerAction(k.kind, k.copy.count) = "reroute",
         Goto(p, step, k), UNCHANGED <<docs, history, bounds>>
  PROVE  IInv'
<1>1. /\ job[p].task \in Documents /\ job[p].kind \in Kinds /\ 0 \notin Documents
      /\ NoJob.task = 0
  BY DEF IInv, BlockerJobs, BlockerJob, BlockerSteps, NoJob
<1>2. pc'[p] = step /\ job'[p] = k
  BY DEF Goto, IInv, TypeOK
<1>3. UNCHANGED <<docs, work>>
      /\ UNCHANGED <<made, disturbed, reopened, abandoned, halfMade, commands, kills>>
  BY DEF docs, history, bounds
<1>4. BlockerJob(p)'
  <2>1. CaseFine(k.copy)'
    BY <1>3 DEF CaseFine
  <2>2. step = "suspend" => k.kind = "reroute_needed"
    BY <1>1, RunDocsAssumption DEF SelectBlockerAction
  <2> QED BY <1>1, <1>2, <1>3, <2>1, <2>2 DEF BlockerJob
<1>5. HandoffJob(p)' /\ ResponseJob(p)' /\ ~Suspending(p)'
  BY <1>2 DEF HandoffJob, ResponseJob, Suspending, HandoffSteps
<1>6. disturbed' \cup reopened' \cup abandoned' \cup halfMade' \subseteq Documents
      /\ commands' \in 0..MaxCommands /\ kills' \in 0..MaxKills
  BY <1>3 DEF IInv, TypeOK
<1>7. k # NoJob
  BY <1>1
<1> QED BY <1>3, <1>4, <1>5, <1>6, <1>7, ReadingStep DEF BlockerSteps, HandoffSteps

LEMMA FindCaseIInv ==
  ASSUME IInv, NEW p \in Procs, FindCase(p)
  PROVE  IInv'
<1> DEFINE j == job[p]
           Step(k) == IF SelectBlockerAction(j.kind, k.copy.count) = "reroute"
                      THEN "suspend" ELSE "persist"
<1>1. /\ j \in JobDoc /\ j.task \in Documents /\ CaseFine(j.copy) /\ pc[p] = "findCase"
      /\ Documents \subseteq 0..MaxTasks
  <2>1. pc[p] = "findCase"
    BY DEF FindCase
  <2> QED BY <2>1, BlockerCommand, DocumentTasks DEF BlockerSteps, IInv
<1>2. CASE Goto(p, Step([j EXCEPT !.source = j.task]), [j EXCEPT !.source = j.task])
           /\ UNCHANGED <<docs, history, bounds>>
  <2>1. PICK k : k = [j EXCEPT !.source = j.task]
    OBVIOUS
  <2>2. k \in JobDoc
    BY <1>1, <2>1 DEF JobDoc
  <2>3. k.task = j.task /\ k.kind = j.kind /\ k.source = j.task /\ k.copy = j.copy
    BY <1>1, <2>1 DEF JobDoc
  <2>4. Goto(p, Step(k), k) /\ Step(k) \in {"suspend", "persist"}
    BY <1>2, <2>1
  <2> QED BY <1>1, <1>2, <2>2, <2>3, <2>4, FoundCase
<1>3. CASE \E s \in CasesOf(j.task) :
             /\ Goto(p, Step([j EXCEPT !.source = s, !.copy = cases[s]]),
                     [j EXCEPT !.source = s, !.copy = cases[s]])
             /\ UNCHANGED <<docs, history, bounds>>
  <2>1. PICK s \in CasesOf(j.task) :
             /\ Goto(p, Step([j EXCEPT !.source = s, !.copy = cases[s]]),
                     [j EXCEPT !.source = s, !.copy = cases[s]])
             /\ UNCHANGED <<docs, history, bounds>>
    BY <1>3
  <2>2. s \in Documents /\ CaseFine(cases[s]) /\ cases[s] \in CaseDoc \cup {NoCase}
    BY DEF CasesOf, WithCase, IInv, TypeOK, CasesInv
  <2>3. PICK k : k = [j EXCEPT !.source = s, !.copy = cases[s]]
    OBVIOUS
  <2>4. k \in JobDoc
    BY <1>1, <2>2, <2>3 DEF JobDoc
  <2>5. k.task = j.task /\ k.kind = j.kind /\ k.source = s /\ k.copy = cases[s]
    BY <1>1, <2>3 DEF JobDoc
  <2>6. Goto(p, Step(k), k) /\ Step(k) \in {"suspend", "persist"}
    BY <2>1, <2>3
  <2> QED BY <1>1, <2>1, <2>2, <2>4, <2>5, <2>6, FoundCase
<1>4. CASE Return(p) /\ UNCHANGED <<docs, history, bounds>>
  BY <1>4, ReturnStep DEF docs, history, bounds, IInv, TypeOK
<1> QED BY <1>2, <1>3, <1>4 DEF FindCase

LEMMA BlockerResolveIInv ==
  ASSUME IInv, NEW p \in Procs, NEW s \in Documents, NEW action \in ResolutionActions,
         BlockerResolve(p, s, action)
  PROVE  IInv'
<1> DEFINE step == IF action \in {"manual_reroute", "partial_replan"} THEN "suspend" ELSE "reload"
<1>1. PICK j : j = [NoJob EXCEPT !.task = cases[s].current, !.kind = action,
                                 !.source = s, !.copy = cases[s]]
  OBVIOUS
<1>2. /\ s \in WithCase /\ cases[s] # NoCase /\ CaseFine(cases[s]) /\ s \in 0..MaxTasks
      /\ cases[s] \in CaseDoc \cup {NoCase}
      /\ cases[s].current \in Documents /\ cases[s].current \in 1..MaxTasks
  BY DocumentTasks DEF BlockerResolve, WithCase, NoCase, IInv, TypeOK, CasesInv, CaseFine
<1>3. /\ j.task = cases[s].current /\ j.kind = action /\ j.source = s /\ j.copy = cases[s]
      /\ j.created = 0 /\ NoJob.task = 0
  BY <1>1 DEF NoJob
<1>4. action \in JobKinds
  BY DEF JobKinds
<1>5. j \in JobDoc
  <2>1. cases[s].current \in 0..MaxTasks
    BY <1>2
  <2> QED BY <1>1, <1>2, <1>4, <2>1, NoJobTyped DEF JobDoc
<1>6. j # NoJob
  BY <1>2, <1>3
<1>7. Goto(p, step, j) /\ commands' \in 0..MaxCommands
  BY <1>1, RunDocsAssumption DEF BlockerResolve, Begin, IInv, TypeOK
<1>8. pc'[p] = step /\ job'[p] = j
  BY <1>7 DEF Goto, IInv, TypeOK
<1>9. UNCHANGED <<docs, work>> /\ UNCHANGED <<reopened, abandoned, halfMade, kills, made, cases>>
  BY DEF BlockerResolve, docs
<1>10. BlockerJob(p)'
  <2>1. CaseFine(j.copy)' /\ s \in WithCase'
    BY <1>2, <1>3, <1>9 DEF CaseFine, WithCase
  <2> QED BY <1>2, <1>3, <1>8, <1>9, <2>1 DEF BlockerJob, Moves, ResolutionActions
<1>11. HandoffJob(p)' /\ ResponseJob(p)' /\ ~Suspending(p)'
  BY <1>8 DEF HandoffJob, ResponseJob, Suspending, HandoffSteps
<1>12. disturbed' \cup reopened' \cup abandoned' \cup halfMade' \subseteq Documents /\ kills' \in 0..MaxKills
  BY <1>2, <1>9, NoteOverlapTyped DEF BlockerResolve, IInv, TypeOK
<1> QED BY <1>5, <1>6, <1>7, <1>9, <1>10, <1>11, <1>12, ReadingStep DEF BlockerSteps, HandoffSteps

\* What UNCHANGED <<docs, history, bounds>> leaves.
LEMMA HistoryTyped ==
  ASSUME IInv, UNCHANGED <<docs, history, bounds>>
  PROVE  /\ UNCHANGED <<docs, work>> /\ UNCHANGED <<made, task, receipt, cases, replans, handoffs, replies>>
         /\ disturbed' \cup reopened' \cup abandoned' \cup halfMade' \subseteq Documents
         /\ commands' \in 0..MaxCommands /\ kills' \in 0..MaxKills
BY DEF IInv, TypeOK, docs, history, bounds

LEMMA GiveUpStep ==
  ASSUME IInv, NEW p \in Procs, pc[p] \in {"route", "deliverReplacement"}, GiveUp(p),
         UNCHANGED <<made, cases>>
  PROVE  \E step \in {"idle", "restore"}, j \in JobDoc :
           /\ Goto(p, step, j)
           /\ step = "idle" <=> j = NoJob
           /\ BlockerJob(p)' /\ HandoffJob(p)' /\ ResponseJob(p)'
           /\ Suspending(p)' => Suspending(p) /\ j.task = job[p].task
<1>1. CASE job[p].suspended
  <2>1. /\ BlockerJob(p) /\ job[p] \in JobDoc
        /\ job[p].task \in Documents /\ job[p].source \in Documents
    BY BlockerCommand DEF BlockerSteps
  <2>2. PICK j : j = [job[p] EXCEPT !.created = 0]
    OBVIOUS
  <2>3. /\ j \in JobDoc /\ j.task = job[p].task /\ j.kind = job[p].kind
        /\ j.source = job[p].source /\ j.copy = job[p].copy /\ j.suspended = job[p].suspended
    BY <2>1, <2>2 DEF JobDoc
  <2>4. Goto(p, "restore", j) /\ j # NoJob
    <3>1. j.task # NoJob.task
      BY <2>1, <2>3 DEF NoJob
    <3> QED BY <1>1, <2>2, <3>1 DEF GiveUp
  <2>5. pc'[p] = "restore" /\ job'[p] = j
    BY <2>4 DEF Goto, IInv, TypeOK
  <2>6. BlockerJob(p)'
    <3>1. CaseFine(j.copy)'
      BY <2>1, <2>3, BlockerCommand DEF CaseFine, BlockerSteps
    <3> QED BY <1>1, <2>1, <2>3, <2>5, <3>1 DEF BlockerJob, BlockerSteps, WithCase
  <2>7. HandoffJob(p)' /\ ResponseJob(p)' /\ Suspending(p)
    BY <1>1, <2>5 DEF HandoffJob, ResponseJob, Suspending, HandoffSteps
  <2> QED BY <2>3, <2>4, <2>6, <2>7
<1>2. CASE ~job[p].suspended
  <2>1. Goto(p, "idle", NoJob)
    BY <1>2 DEF GiveUp, Return
  <2>2. pc'[p] = "idle"
    BY <2>1 DEF Goto, IInv, TypeOK
  <2>3. BlockerJob(p)' /\ HandoffJob(p)' /\ ResponseJob(p)' /\ ~Suspending(p)'
    BY <2>2 DEF BlockerJob, HandoffJob, ResponseJob, Suspending, BlockerSteps, HandoffSteps
  <2> QED BY <2>1, <2>3, NoJobTyped
<1> QED BY <1>1, <1>2

LEMMA RouteFailsIInv ==
  ASSUME IInv, NEW p \in Procs, RouteFails(p)
  PROVE  IInv'
<1>1. pc[p] = "route" /\ UNCHANGED <<docs, history, bounds>> /\ GiveUp(p)
  BY DEF RouteFails
<1>2. PICK step \in {"idle", "restore"}, j \in JobDoc :
        /\ Goto(p, step, j)
        /\ step = "idle" <=> j = NoJob
        /\ BlockerJob(p)' /\ HandoffJob(p)' /\ ResponseJob(p)'
        /\ Suspending(p)' => Suspending(p) /\ j.task = job[p].task
  BY <1>1, GiveUpStep, HistoryTyped
<1>3. /\ step \in {"idle"} \cup DeliverSteps \cup BlockerSteps \cup ReviewSteps
      /\ step \notin Replacing \cup {"respond"} /\ step \notin HandoffSteps
  BY DEF BlockerSteps, HandoffSteps
<1> QED BY <1>1, <1>2, <1>3, HistoryTyped, ReadingStep

LEMMA ReloadCaseIInv ==
  ASSUME IInv, NEW p \in Procs, ReloadCase(p)
  PROVE  IInv'
<1>1. pc[p] = "reload" /\ UNCHANGED <<docs, history, bounds>>
  BY DEF ReloadCase
<1>2. BlockerJob(p) /\ job[p] \in JobDoc /\ job[p].task \in Documents /\ job[p].source \in Documents
  BY <1>1, BlockerCommand DEF BlockerSteps
<1>3. PICK j : j = [job[p] EXCEPT !.reloaded = cases[job[p].source]]
  OBVIOUS
<1>4. /\ cases[job[p].source] \in CaseDoc \cup {NoCase} /\ CaseFine(cases[job[p].source])
      /\ cases[job[p].source] # NoCase
  BY <1>1, <1>2 DEF IInv, TypeOK, CasesInv, BlockerJob, BlockerSteps, WithCase
<1>5. /\ j \in JobDoc
      /\ j.task = job[p].task /\ j.kind = job[p].kind /\ j.source = job[p].source
      /\ j.copy = job[p].copy /\ j.created = job[p].created
      /\ j.reloaded = cases[job[p].source]
  BY <1>2, <1>3, <1>4 DEF JobDoc
<1>6. Goto(p, "write", j)
  BY <1>3 DEF ReloadCase
<1>7. pc'[p] = "write" /\ job'[p] = j
  BY <1>6 DEF Goto, IInv, TypeOK
<1>8. BlockerJob(p)'
  <2>1. CaseFine(j.copy)' /\ CaseFine(j.reloaded)'
    BY <1>1, <1>2, <1>4, <1>5, HistoryTyped DEF CaseFine, BlockerJob, BlockerSteps
  <2> QED BY <1>1, <1>2, <1>4, <1>5, <1>7, <2>1, HistoryTyped DEF BlockerJob, BlockerSteps, WithCase
<1>9. HandoffJob(p)' /\ ResponseJob(p)' /\ ~Suspending(p)'
  BY <1>7 DEF HandoffJob, ResponseJob, Suspending, HandoffSteps
<1>10. j # NoJob
  BY <1>2, <1>5 DEF NoJob
<1> QED BY <1>1, <1>5, <1>6, <1>8, <1>9, <1>10, HistoryTyped, ReadingStep DEF BlockerSteps, HandoffSteps

LEMMA HandoffCommand ==
  ASSUME IInv, NEW p \in Procs, pc[p] \in HandoffSteps
  PROVE  HandoffJob(p) /\ job[p] \in JobDoc /\ job[p] # NoJob /\ job[p].task \in Documents
BY DEF IInv, TypeOK, HandoffJobs, HandoffJob, HandoffSteps

LEMMA ResponseCommand ==
  ASSUME IInv, NEW p \in Procs, pc[p] \in {"findHandoff", "reply", "complete", "respond"}
  PROVE  /\ ResponseJob(p) /\ job[p] \in JobDoc /\ job[p] # NoJob
         /\ job[p].task \in Documents /\ job[p].kind \in Outcomes
<1>1. ResponseJob(p) /\ job[p] \in JobDoc /\ job[p] # NoJob
  BY DEF IInv, TypeOK, ResponseJobs
<1> QED BY <1>1 DEF ResponseJob

\* A review command goes on with the job it has.
LEMMA HandoffGoesOn ==
  ASSUME IInv, NEW p \in Procs, pc[p] \in HandoffSteps, NEW step \in {"routeReview", "failHandoff"},
         Goto(p, step, job[p]), job[p].task \notin WithHandoff,
         UNCHANGED <<docs, history, bounds>>
  PROVE  IInv'
<1>1. pc'[p] = step /\ job'[p] = job[p]
  BY DEF Goto, IInv, TypeOK
<1>2. HandoffJob(p)'
  BY <1>1, HandoffCommand, HistoryTyped DEF HandoffJob, WithHandoff
<1>3. BlockerJob(p)' /\ ResponseJob(p)' /\ ~Suspending(p)'
  BY <1>1 DEF BlockerJob, ResponseJob, Suspending, BlockerSteps
<1> QED BY <1>2, <1>3, HandoffCommand, HistoryTyped, ReadingStep DEF ReviewSteps

LEMMA CheckHandoffIInv ==
  ASSUME IInv, NEW p \in Procs, CheckHandoff(p)
  PROVE  IInv'
<1>1. pc[p] \in HandoffSteps /\ UNCHANGED <<docs, history, bounds>>
  BY DEF CheckHandoff, HandoffSteps
<1>2. CASE job[p].task \in WithHandoff
  BY <1>1, <1>2, HistoryTyped, ReturnStep DEF CheckHandoff
<1>3. CASE job[p].task \notin WithHandoff
  BY <1>1, <1>3, HandoffGoesOn DEF CheckHandoff
<1> QED BY <1>2, <1>3

LEMMA RouteReviewFailsIInv ==
  ASSUME IInv, NEW p \in Procs, RouteReviewFails(p)
  PROVE  IInv'
<1>1. pc[p] = "routeReview" /\ pc[p] \in HandoffSteps /\ UNCHANGED <<docs, history, bounds>>
  BY DEF RouteReviewFails, HandoffSteps
<1>2. job[p].task \notin WithHandoff
  BY <1>1, HandoffCommand DEF HandoffJob
<1> QED BY <1>1, <1>2, HandoffGoesOn DEF RouteReviewFails

LEMMA ReviewRespondIInv ==
  ASSUME IInv, NEW p \in Procs, NEW t \in Documents, NEW outcome \in Outcomes,
         ReviewRespond(p, t, outcome)
  PROVE  IInv'
<1>1. PICK j : j = [NoJob EXCEPT !.task = t, !.kind = outcome]
  OBVIOUS
<1>2. j \in JobDoc /\ j # NoJob /\ j.task = t /\ j.kind = outcome
  BY <1>1, NewJob DEF IInv, JobKinds
<1>3. Goto(p, "findHandoff", j) /\ commands' \in 0..MaxCommands
  BY <1>1, RunDocsAssumption DEF ReviewRespond, Begin, IInv, TypeOK
<1>4. pc'[p] = "findHandoff" /\ job'[p] = j
  BY <1>3 DEF Goto, IInv, TypeOK
<1>5. /\ UNCHANGED <<docs, work>> /\ UNCHANGED made
      /\ disturbed' \cup reopened' \cup abandoned' \cup halfMade' \subseteq Documents /\ kills' \in 0..MaxKills
  BY DEF ReviewRespond, docs, history, IInv, TypeOK
<1>6. BlockerJob(p)' /\ HandoffJob(p)' /\ ~Suspending(p)'
  BY <1>4 DEF BlockerJob, HandoffJob, Suspending, BlockerSteps, HandoffSteps
<1>7. ResponseJob(p)'
  BY <1>2, <1>4, <1>5 DEF ResponseJob
<1> QED BY <1>2, <1>3, <1>5, <1>6, <1>7, ReadingStep DEF ReviewSteps, HandoffSteps

LEMMA FindHandoffIInv ==
  ASSUME IInv, NEW p \in Procs, FindHandoff(p)
  PROVE  IInv'
<1> DEFINE found == HandoffsOf(job[p].task)
<1>1. pc[p] = "findHandoff" /\ UNCHANGED <<docs, history, bounds>>
  BY DEF FindHandoff
<1>2. CASE \E s \in found : found = {s} /\ handoffs[s].status = "pending"
  <2>1. PICK s \in found : found = {s} /\ handoffs[s].status = "pending"
    BY <1>2
  <2>2. PICK j : j = [job[p] EXCEPT !.source = s]
    OBVIOUS
  <2>3. /\ s \in WithHandoff /\ s \in Documents /\ handoffs[s].review = job[p].task
        /\ task[job[p].task].class = "review"
    BY <2>1 DEF HandoffsOf, WithHandoff, IInv, HandoffsInv, HandoffFine, HandoffLoads
  <2>4. s \in 0..MaxTasks
    BY <2>3, DocumentTasks DEF IInv
  <2>5. j \in JobDoc /\ j.task = job[p].task /\ j.kind = job[p].kind /\ j.source = s
    BY <1>1, <2>2, <2>4, ResponseCommand DEF JobDoc
  <2>6. j # NoJob
    <3>1. j.task # 0 /\ NoJob.task = 0
      BY <1>1, <2>5, ResponseCommand DEF NoJob
    <3> QED BY <3>1
  <2>7. Goto(p, "reply", j)
    BY <1>2, <2>1, <2>2 DEF FindHandoff
  <2>8. pc'[p] = "reply" /\ job'[p] = j
    BY <2>7 DEF Goto, IInv, TypeOK
  <2>9. BlockerJob(p)' /\ HandoffJob(p)' /\ ~Suspending(p)'
    BY <2>8 DEF BlockerJob, HandoffJob, Suspending, BlockerSteps, HandoffSteps
  <2>10. ResponseJob(p)'
    BY <1>1, <2>3, <2>5, <2>8, HistoryTyped, ResponseCommand DEF ResponseJob, WithHandoff
  <2> QED BY <1>1, <2>5, <2>6, <2>7, <2>9, <2>10, HistoryTyped, ReadingStep
          DEF ReviewSteps, HandoffSteps
<1>3. CASE ~ \E s \in found : found = {s} /\ handoffs[s].status = "pending"
  BY <1>1, <1>3, HistoryTyped, ReturnStep DEF FindHandoff
<1> QED BY <1>2, <1>3

LEMMA KillIInv ==
  ASSUME IInv, CreationInv, NEW p \in Procs, Kill(p)
  PROVE  IInv'
<1>1. Return(p) /\ UNCHANGED <<docs, work>> /\ UNCHANGED <<reopened, commands>>
  BY DEF Kill
<1>2. disturbed' \subseteq Documents
  BY WorkOfDocument DEF Kill, IInv, TypeOK
<1>3. abandoned' \subseteq Documents
  <2>1. ASSUME pc[p] \in ReviewSteps \ {"findHandoff", "reply", "complete"}
        PROVE  job[p].task \in Documents
    BY <2>1, HandoffCommand, ResponseCommand DEF ReviewSteps, HandoffSteps
  <2> QED BY <2>1 DEF Kill, IInv, TypeOK
<1>4. kills' \in 0..MaxKills /\ commands' \in 0..MaxCommands
  BY RunDocsAssumption DEF Kill, IInv, TypeOK
<1>5. reopened' \subseteq Documents /\ halfMade' \subseteq Documents
  BY <1>1 DEF Kill, IInv, TypeOK, CreationInv, Creating
<1> QED BY <1>1, <1>2, <1>3, <1>4, <1>5, ReturnStep

-----------------------------------------------------------------------------
(***************************************************************************)
(* The steps that write the document of a new task.                        *)
(***************************************************************************)
LEMMA CreateTaskStep ==
  ASSUME IInv, NEW doc \in TaskDoc, NEW of \in Documents \cup {made + 1}, NEW by \in Origins,
         CreateTask(doc, of, by), NEW p \in Procs, NEW step, NEW j, Goto(p, step, j),
         UNCHANGED <<receipt, cases, replans, handoffs, replies,
                     disturbed, reopened, abandoned, halfMade, kills>>,
         commands' \in 0..MaxCommands,
         step \in DeliverSteps, j \in JobDoc, j # NoJob, j.created = made + 1,
         step = "deliverReview" => pc[p] \in HandoffSteps /\ j.task = job[p].task,
         BlockerJob(p)', HandoffJob(p)',
         Suspending(p)' => Suspending(p) /\ j.task = job[p].task
  PROVE  IInv'
<1> USE RunDocsAssumption
<1>1. /\ made \in 0..MaxTasks /\ made' = made + 1 /\ made' \in 0..MaxTasks
      /\ made + 1 \in Tasks /\ Documents' = Documents \cup {made + 1}
  BY DEF CreateTask, IInv, TypeOK
<1>2. /\ task' \in [Tasks -> TaskDoc \cup {NoTask}]
      /\ task'[made + 1] = doc /\ \A t \in Tasks \ {made + 1} : task'[t] = task[t]
  BY <1>1 DEF CreateTask, IInv, TypeOK
<1>3. receipt' = receipt /\ receipt \in [Tasks -> {"none", "open", "done", "dead"}]
  BY DEF IInv, TypeOK
<1>4. /\ work' \in [Tasks -> [of : 0..MaxTasks, by : Origins]]
      /\ work'[made + 1].of = of /\ \A t \in Tasks \ {made + 1} : work'[t] = work[t]
  <2>1. of \in 0..MaxTasks
    BY <1>1
  <2>2. [of |-> of, by |-> by] \in [of : 0..MaxTasks, by : Origins]
    BY <2>1
  <2>3. work \in [Tasks -> [of : 0..MaxTasks, by : Origins]]
    BY DEF IInv, TypeOK
  <2>4. work' = [work EXCEPT ![made + 1] = [of |-> of, by |-> by]]
    BY DEF CreateTask
  <2> QED BY <1>1, <2>2, <2>3, <2>4
<1>5. Documents \subseteq Tasks \ {made + 1}
  BY <1>1
<1>6. Grows(p)
  BY <1>1, <1>2, <1>3, <1>5 DEF Grows, WithCase, WithHandoff, IInv, TypeOK
<1>7. /\ ProcessTypes' /\ BlockerJobs' /\ SuspendedInv' /\ HandoffJobs' /\ ResponseJobs'
      /\ pc'[p] = step /\ job'[p] = j
      /\ \A q \in Procs \ {p} : pc'[q] = pc[q] /\ job'[q] = job[q]
  <2>1. pc'[p] = step /\ job'[p] = j
    BY DEF Goto, IInv, TypeOK
  <2>2. ResponseJob(p)'
    BY <2>1 DEF ResponseJob, DeliverSteps
  <2>3. \A q \in Procs \ {p} : Suspending(q) => receipt'[job[q].task] = "dead"
    BY <1>3 DEF IInv, SuspendedInv
  <2>4. step \in HandoffSteps =>
           \A q \in Procs \ {p} : pc[q] \in HandoffSteps => job[q].task # j.task
    BY DEF IInv, HandoffJobs, HandoffSteps, DeliverSteps
  <2>5. Suspending(p)' =>
          /\ receipt'[j.task] = "dead"
          /\ \A q \in Procs \ {p} : Suspending(q) => job[q].task # j.task
    BY <1>3 DEF IInv, SuspendedInv
  <2>6. step # "idle" /\ step # "respond"
    BY DEF DeliverSteps
  <2> QED BY <1>6, <2>2, <2>3, <2>4, <2>5, <2>6, ProcessesKeep
<1>8. TypeOK'
  <2>1. \A t \in Tasks : /\ t \in Documents' <=> task'[t] # NoTask
                         /\ receipt'[t] # "none" => t \in Documents'
    <3>1. doc # NoTask
      BY DEF TaskDoc, NoTask, Classes
    <3> QED BY <1>1, <1>2, <1>3, <1>5, <3>1 DEF IInv, TypeOK
  <2>2. disturbed' \cup reopened' \cup abandoned' \cup halfMade' \subseteq Documents'
    BY <1>1 DEF IInv, TypeOK
  <2> QED BY <1>1, <1>2, <1>3, <1>4, <1>7, <2>1, <2>2 DEF IInv, TypeOK, ProcessTypes
<1>9. CasesInv'
  <2>1. \A s \in Tasks : CaseFine(cases[s]) => CaseFine(cases[s])'
    BY <1>1 DEF CaseFine
  <2> QED BY <1>1, <2>1 DEF IInv, CasesInv, WithCase
<1>10. ReplansInv'
  <2>1. \A s \in WithReplan : ReplanFine(s) /\ ReplanFine(s)'
    BY <1>1 DEF IInv, ReplansInv, ReplanFine, ValidReplan
  <2>2. \A q \in Procs : pc[q] \in Replacing => job[q].created \in Documents
    BY DEF IInv, BlockerJobs, BlockerJob, BlockerSteps
  <2>3. made + 1 \notin Documents
    BY <1>1
  <2>4. \A q \in Procs, s \in WithReplan :
          pc'[q] \in Replacing => replans[s].replacement # job'[q].created
    BY <1>7, <2>1, <2>3 DEF IInv, ReplansInv, ReplanFine
  <2>5. \A q, r \in Procs :
          pc'[q] \in Replacing /\ pc'[r] \in Replacing /\ q # r =>
              job'[q].created # job'[r].created
    BY <1>7, <2>2, <2>3 DEF IInv, ReplansInv
  <2>6. WithReplan' = WithReplan
    BY DEF WithReplan
  <2> QED BY <2>1, <2>4, <2>5, <2>6 DEF IInv, ReplansInv
<1>11. HandoffsInv'
  BY <1>1, <1>2, <1>3, <1>5 DEF IInv, HandoffsInv, HandoffFine, HandoffLoads, ValidHandoff, WithHandoff
<1>12. WorkInv'
  BY <1>1, <1>4, <1>5 DEF IInv, WorkInv
<1> QED BY <1>7, <1>8, <1>9, <1>10, <1>11, <1>12 DEF IInv

LEMMA RouteTaskIInv ==
  ASSUME IInv, NEW p \in Procs, RouteTask(p)
  PROVE  IInv'
<1>1. PICK doc \in Requests : CreateTask(doc, made + 1, "add")
  BY DEF RouteTask
<1>2. PICK j : j = [NoJob EXCEPT !.created = made + 1]
  OBVIOUS
<1>3. made \in Nat
  BY RunDocsAssumption DEF IInv, TypeOK
<1>4. j \in JobDoc /\ j # NoJob /\ j.created = made + 1
  <2>1. j.created = made + 1 /\ NoJob.created = 0
    BY <1>2 DEF NoJob
  <2>2. j \in JobDoc
    BY <1>2, <1>3, NoJobTyped DEF JobDoc
  <2> QED BY <1>3, <2>1, <2>2
<1>5. Goto(p, "deliverTask", j) /\ commands' \in 0..MaxCommands
  BY <1>2, RunDocsAssumption DEF RouteTask, Begin, IInv, TypeOK
<1>6. pc'[p] = "deliverTask"
  BY <1>5 DEF Goto, IInv, TypeOK
<1>7. BlockerJob(p)' /\ HandoffJob(p)' /\ ~Suspending(p)'
  BY <1>6 DEF BlockerJob, HandoffJob, Suspending, BlockerSteps, HandoffSteps
<1>8. UNCHANGED <<receipt, cases, replans, handoffs, replies,
                  disturbed, reopened, abandoned, halfMade, kills>>
  BY DEF RouteTask
<1>9. "deliverTask" \in DeliverSteps
  BY DEF DeliverSteps
<1> QED BY <1>1, <1>4, <1>5, <1>7, <1>8, <1>9, CreateTaskStep, RequestsAssumption DEF Origins

LEMMA RouteReplacementIInv ==
  ASSUME IInv, NEW p \in Procs, RouteReplacement(p)
  PROVE  IInv'
<1> USE RunDocsAssumption
<1>1. pc[p] = "route" /\ BlockerJob(p) /\ job[p] \in JobDoc
      /\ job[p].task \in Documents /\ job[p].source \in Documents /\ made \in 0..MaxTasks
  <2>1. pc[p] = "route"
    BY DEF RouteReplacement
  <2> QED BY <2>1, BlockerCommand, DocumentTasks DEF BlockerSteps, IInv
<1>2. PICK doc \in Replacements(job[p]) : CreateTask(doc, work[job[p].source].of, job[p].kind)
  BY DEF RouteReplacement
<1>3. doc \in TaskDoc /\ work[job[p].source].of \in Documents
  <2>1. job[p].source \in Tasks /\ task[job[p].source] \in TaskDoc
    BY <1>1 DEF IInv, TypeOK
  <2>2. doc \in TaskDoc
    BY <1>2, <2>1, RequestsAssumption DEF Replacements, ReplanRequests
  <2> QED BY <1>1, <2>2 DEF IInv, WorkInv
<1>4. \/ job[p].kind = "reroute_needed" /\ job[p].kind \in Kinds
      \/ job[p].kind \in Moves
  BY <1>1 DEF BlockerJob, BlockerSteps
<1>5. PICK j : j = [job[p] EXCEPT !.created = made + 1]
  OBVIOUS
<1>6. /\ j \in JobDoc /\ j.created = made + 1
      /\ j.task = job[p].task /\ j.kind = job[p].kind /\ j.source = job[p].source
      /\ j.copy = job[p].copy /\ j.suspended = job[p].suspended
  BY <1>1, <1>5 DEF JobDoc
<1>7. Goto(p, "deliverReplacement", j)
  BY <1>5 DEF RouteReplacement
<1>8. pc'[p] = "deliverReplacement" /\ job'[p] = j
  BY <1>7 DEF Goto, IInv, TypeOK
<1>9. UNCHANGED <<receipt, cases, replans, handoffs, replies, disturbed, reopened, abandoned, halfMade, commands, kills>>
      /\ made' = made + 1
  BY DEF RouteReplacement, CreateTask, bounds
<1>10. BlockerJob(p)'
  <2>1. CaseFine(j.copy)'
    BY <1>1, <1>6, <1>9, BlockerCommand DEF CaseFine, BlockerSteps
  <2>2. j.task \in Documents' /\ j.source \in Documents' /\ j.created \in Documents' \ {j.source, j.task}
    BY <1>1, <1>6, <1>9
  <2>3. j.kind \in Moves => j.source \in WithCase' /\ j.copy # NoCase
    BY <1>1, <1>6, <1>9 DEF BlockerJob, BlockerSteps, Moves, WithCase
  <2> QED BY <1>4, <1>6, <1>8, <2>1, <2>2, <2>3 DEF BlockerJob
<1>11. HandoffJob(p)' /\ (Suspending(p)' => Suspending(p))
  BY <1>1, <1>6, <1>8 DEF HandoffJob, Suspending, HandoffSteps
<1>12. j # NoJob
  <2>1. j.task # NoJob.task
    BY <1>1, <1>6 DEF NoJob
  <2> QED BY <2>1
<1>13. job[p].kind \in Origins
  BY <1>4 DEF Origins, Moves
<1>14. "deliverReplacement" \in DeliverSteps /\ commands' \in 0..MaxCommands
  BY <1>9 DEF IInv, TypeOK, DeliverSteps
<1>15. CreateTask(doc, work[job[p].source].of, j.kind)
  BY <1>2, <1>6
<1> QED BY <1>3, <1>6, <1>7, <1>9, <1>10, <1>11, <1>12, <1>13, <1>14, <1>15, CreateTaskStep

LEMMA RouteReviewIInv ==
  ASSUME IInv, NEW p \in Procs, RouteReview(p)
  PROVE  IInv'
<1> DEFINE doc == [class |-> "review", domain |-> task[job[p].task].domain, review |-> FALSE]
<1> USE RunDocsAssumption
<1>1. /\ pc[p] = "routeReview" /\ pc[p] \in HandoffSteps /\ CreateTask(doc, made + 1, "review")
      /\ made \in 0..MaxTasks
  BY DEF RouteReview, HandoffSteps, IInv, TypeOK
<1>2. HandoffJob(p) /\ job[p] \in JobDoc /\ job[p].task \in Documents
  BY <1>1, HandoffCommand
<1>3. doc \in TaskDoc
  BY <1>2 DEF TaskDoc, Classes, IInv, TypeOK
<1>4. PICK j : j = [job[p] EXCEPT !.created = made + 1]
  OBVIOUS
<1>5. j \in JobDoc /\ j.created = made + 1 /\ j.task = job[p].task
  BY <1>1, <1>2, <1>4 DEF JobDoc
<1>6. Goto(p, "deliverReview", j)
  BY <1>4 DEF RouteReview
<1>7. pc'[p] = "deliverReview" /\ job'[p] = j
  BY <1>6 DEF Goto, IInv, TypeOK
<1>8. UNCHANGED <<receipt, cases, replans, handoffs, replies, disturbed, reopened, abandoned, halfMade, commands, kills>>
  BY DEF RouteReview, bounds
<1>9. HandoffJob(p)'
  <2>1. /\ made' = made + 1 /\ made + 1 \in Tasks /\ task'[made + 1] = doc
        /\ receipt'[job[p].task] = receipt[job[p].task]
    BY <1>1, <1>2, <1>8 DEF CreateTask, IInv, TypeOK
  <2> QED BY <1>1, <1>2, <1>5, <1>7, <1>8, <2>1 DEF HandoffJob, HandoffSteps, WithHandoff
<1>10. BlockerJob(p)' /\ ~Suspending(p)' /\ "deliverReview" \in DeliverSteps
  BY <1>7 DEF BlockerJob, BlockerSteps, Suspending, DeliverSteps
<1>11. j # NoJob
  <2>1. j.task # NoJob.task
    BY <1>2, <1>5 DEF NoJob
  <2> QED BY <2>1
<1> QED BY <1>1, <1>3, <1>5, <1>6, <1>8, <1>9, <1>10, <1>11, CreateTaskStep DEF Origins, IInv, TypeOK

-----------------------------------------------------------------------------
(***************************************************************************)
(* The steps that move a receipt.                                          *)
(***************************************************************************)
LEMMA ReceiptStep ==
  ASSUME IInv, NEW p \in Procs, NEW step, NEW j, Goto(p, step, j),
         NEW t \in Documents, NEW v \in {"none", "open", "done", "dead"},
         receipt' = [receipt EXCEPT ![t] = v], receipt[t] = "done" => v = "done",
         UNCHANGED <<made, task, cases, replans, handoffs, replies, work>>,
         disturbed' \cup reopened' \cup abandoned' \cup halfMade' \subseteq Documents,
         commands' \in 0..MaxCommands, kills' \in 0..MaxKills,
         step \in {"idle"} \cup DeliverSteps \cup BlockerSteps \cup ReviewSteps,
         step \in Replacing => pc[p] \in Replacing /\ j.created = job[p].created,
         j \in JobDoc, step = "idle" <=> j = NoJob,
         BlockerJob(p)', HandoffJob(p)', ResponseJob(p)',
         v # "dead" => \A q \in Procs \ {p} : Suspending(q) => job[q].task # t,
         Suspending(p)' =>
            /\ receipt'[j.task] = "dead"
            /\ \A q \in Procs \ {p} : Suspending(q) => job[q].task # j.task,
         step \in HandoffSteps =>
            \A q \in Procs \ {p} : pc[q] \in HandoffSteps => job[q].task # j.task,
         step = "respond" =>
            \A q \in Procs \ {p} : pc[q] = "respond" => job[q].task # j.task
  PROVE  IInv'
<1>1. /\ t \in Tasks /\ receipt' \in [Tasks -> {"none", "open", "done", "dead"}]
      /\ receipt'[t] = v /\ \A u \in Tasks \ {t} : receipt'[u] = receipt[u]
  <2>1. receipt \in [Tasks -> {"none", "open", "done", "dead"}] /\ t \in Tasks
    BY DocumentTasks DEF IInv, TypeOK
  <2> QED BY <2>1
<1>2. Grows(p)
  <2>1. \A u \in Documents : receipt[u] = "done" => receipt'[u] = "done"
    BY <1>1, DocumentTasks DEF IInv
  <2> QED BY <2>1, RunDocsAssumption DEF IInv, TypeOK, Grows, WithHandoff, WithCase
<1>3. /\ ProcessTypes' /\ BlockerJobs' /\ SuspendedInv' /\ HandoffJobs' /\ ResponseJobs'
      /\ pc'[p] = step /\ job'[p] = j
      /\ \A q \in Procs \ {p} : pc'[q] = pc[q] /\ job'[q] = job[q]
  <2>1. \A q \in Procs : Suspending(q) => job[q].task \in Tasks /\ receipt[job[q].task] = "dead"
    BY DocumentTasks DEF IInv, SuspendedInv, Suspending, BlockerJobs, BlockerJob, BlockerSteps
  <2>2. \A q \in Procs \ {p} : Suspending(q) => receipt'[job[q].task] = "dead"
    BY <1>1, <2>1
  <2> QED BY <1>2, <2>2, ProcessesKeep
<1>4. TypeOK'
  <2>1. \A u \in Tasks : receipt'[u] # "none" => u \in Documents'
    BY <1>1 DEF IInv, TypeOK
  <2> QED BY <1>1, <1>3, <2>1 DEF IInv, TypeOK, ProcessTypes
<1>5. CasesInv' /\ WorkInv'
  BY DEF IInv, CasesInv, CaseFine, WithCase, WorkInv
<1>6. HandoffsInv'
  <2>1. \A s \in WithHandoff : handoffs[s].status = "responded" =>
          handoffs[s].review \in Documents /\ receipt'[handoffs[s].review] = "done"
    BY <1>2 DEF Grows, IInv, HandoffsInv, HandoffFine, HandoffLoads
  <2> QED BY <2>1 DEF IInv, HandoffsInv, HandoffFine, HandoffLoads, WithHandoff
<1>7. ReplansInv'
  BY <1>3 DEF IInv, ReplansInv, ReplanFine, WithReplan
<1> QED BY <1>3, <1>4, <1>5, <1>6, <1>7 DEF IInv

LEMMA SuspendIInv ==
  ASSUME IInv, NEW p \in Procs, Suspend(p)
  PROVE  IInv'
<1> DEFINE t == job[p].task
           v == IF receipt[t] = "open" THEN "dead" ELSE receipt[t]
<1>1. pc[p] = "suspend"
  BY DEF Suspend
<1>2. BlockerJob(p) /\ job[p] \in JobDoc /\ t \in Documents /\ job[p].source \in Documents
  BY <1>1, BlockerCommand DEF BlockerSteps
<1>3. PICK j : j = [job[p] EXCEPT !.suspended = Open(t)]
  OBVIOUS
<1>4. Open(t) \in BOOLEAN
  BY DEF Open
<1>5. /\ j \in JobDoc /\ j.suspended = Open(t)
      /\ j.task = t /\ j.kind = job[p].kind /\ j.source = job[p].source /\ j.copy = job[p].copy
  BY <1>2, <1>3, <1>4 DEF JobDoc
<1>6. Goto(p, "route", j) /\ receipt' = [receipt EXCEPT ![t] = v]
  BY <1>3 DEF Suspend
<1>7. pc'[p] = "route" /\ job'[p] = j
  BY <1>6 DEF Goto, IInv, TypeOK
<1>8. /\ UNCHANGED <<made, task, cases, replans, handoffs, replies, work>>
      /\ UNCHANGED <<disturbed, reopened, halfMade, commands, kills>>
  BY DEF Suspend, bounds
<1>9. v \in {"none", "open", "done", "dead"} /\ (receipt[t] = "done" => v = "done")
  BY <1>2, DocumentTasks DEF IInv, TypeOK
<1>10. /\ disturbed' \cup reopened' \cup abandoned' \cup halfMade' \subseteq Documents
       /\ commands' \in 0..MaxCommands /\ kills' \in 0..MaxKills
  BY <1>2, <1>8 DEF Suspend, IInv, TypeOK
<1>11. BlockerJob(p)'
  <2>1. CaseFine(j.copy)'
    BY <1>1, <1>5, <1>8, BlockerCommand DEF CaseFine, BlockerSteps
  <2> QED BY <1>1, <1>2, <1>5, <1>7, <1>8, <2>1 DEF BlockerJob, BlockerSteps, WithCase
<1>12. HandoffJob(p)' /\ ResponseJob(p)'
  BY <1>7 DEF HandoffJob, ResponseJob, HandoffSteps
<1>13. j # NoJob
  <2>1. j.task # NoJob.task
    BY <1>2, <1>5 DEF NoJob
  <2> QED BY <2>1
<1>14. \A q \in Procs : Suspending(q) /\ job[q].task = t => receipt[t] = "dead"
  BY DEF IInv, SuspendedInv
<1>15. Suspending(p)' =>
          /\ j.task = t /\ v = "dead"
          /\ \A q \in Procs \ {p} : Suspending(q) => job[q].task # t
  BY <1>5, <1>7, <1>14 DEF Suspending, Open
<1>16. v # "dead" => \A q \in Procs \ {p} : Suspending(q) => job[q].task # t
  BY <1>14
<1>17. /\ "route" \in {"idle"} \cup DeliverSteps \cup BlockerSteps \cup ReviewSteps
       /\ "route" \notin HandoffSteps \cup Replacing
  BY DEF BlockerSteps, HandoffSteps
<1>18. PICK u \in Documents, w \in {"none", "open", "done", "dead"} :
          /\ receipt' = [receipt EXCEPT ![u] = w]
          /\ (receipt[u] = "done" => w = "done") /\ j.task = u
          /\ w # "dead" => \A q \in Procs \ {p} : Suspending(q) => job[q].task # u
          /\ Suspending(p)' =>
               w = "dead" /\ \A q \in Procs \ {p} : Suspending(q) => job[q].task # u
  <2>1. t \in Documents /\ v \in {"none", "open", "done", "dead"}
    BY <1>2, <1>9
  <2> HIDE DEF t, v
  <2> QED BY <2>1, <1>5, <1>6, <1>9, <1>15, <1>16
<1> HIDE DEF t, v
<1>19. /\ "route" \in Replacing => pc[p] \in Replacing /\ j.created = job[p].created
       /\ "route" = "idle" <=> j = NoJob
       /\ "route" \in HandoffSteps =>
            \A q \in Procs \ {p} : pc[q] \in HandoffSteps => job[q].task # j.task
       /\ "route" = "respond" => \A q \in Procs \ {p} : pc[q] = "respond" => job[q].task # j.task
  BY <1>13, <1>17
<1>20. w # "dead" => \A q \in Procs \ {p} : Suspending(q) => job[q].task # u
  BY <1>18
<1>21. Suspending(p)' =>
         /\ receipt'[j.task] = "dead"
         /\ \A q \in Procs \ {p} : Suspending(q) => job[q].task # j.task
  <2>1. receipt'[u] = w
    BY <1>18, DocumentTasks DEF IInv, TypeOK
  <2> QED BY <1>18, <2>1
<1>22. Goto(p, "route", j) /\ j \in JobDoc
  BY <1>5, <1>6
<1> QED BY <1>8, <1>10, <1>11, <1>12, <1>17, <1>18, <1>19, <1>20, <1>21, <1>22, ReceiptStep

LEMMA RestoreIInv ==
  ASSUME IInv, NEW p \in Procs, Restore(p)
  PROVE  IInv'
<1> DEFINE t == job[p].task
<1>1. pc[p] = "restore"
  BY DEF Restore
<1>2. BlockerJob(p) /\ t \in Documents
  BY <1>1, BlockerCommand DEF BlockerSteps
<1>3. Suspending(p) /\ receipt[t] = "dead"
  BY <1>1, <1>2 DEF Suspending, BlockerJob, BlockerSteps, IInv, SuspendedInv
<1>4. Goto(p, "idle", NoJob) /\ receipt' = [receipt EXCEPT ![t] = "open"]
  BY DEF Restore, Return
<1>5. pc'[p] = "idle"
  BY <1>4 DEF Goto, IInv, TypeOK
<1>6. /\ UNCHANGED <<made, task, cases, replans, handoffs, replies, work>>
      /\ UNCHANGED <<disturbed, reopened, abandoned, halfMade, commands, kills>>
  BY DEF Restore, history, bounds
<1>7. BlockerJob(p)' /\ HandoffJob(p)' /\ ResponseJob(p)' /\ ~Suspending(p)'
  BY <1>5 DEF BlockerJob, HandoffJob, ResponseJob, Suspending, BlockerSteps, HandoffSteps
<1>8. \A q \in Procs \ {p} : Suspending(q) => job[q].task # t
  BY <1>3 DEF IInv, SuspendedInv
<1>9. /\ disturbed' \cup reopened' \cup abandoned' \cup halfMade' \subseteq Documents
      /\ commands' \in 0..MaxCommands /\ kills' \in 0..MaxKills
  BY <1>6 DEF IInv, TypeOK
<1> HIDE DEF t
<1> QED BY <1>2, <1>3, <1>4, <1>6, <1>7, <1>8, <1>9, NoJobTyped, ReceiptStep DEF HandoffSteps

\* A receipt that is open belongs to no suspension and to no handoff.
LEMMA OpenIsFree ==
  ASSUME IInv, NEW t \in Documents, Open(t)
  PROVE  \A q \in Procs :
           /\ Suspending(q) => job[q].task # t
           /\ pc[q] \in HandoffSteps => job[q].task # t
           /\ pc[q] = "respond" => job[q].task # t
BY DEF Open, IInv, SuspendedInv, HandoffJobs, HandoffJob, ResponseJobs, ResponseJob

LEMMA TaskDoneIInv ==
  ASSUME IInv, NEW p \in Procs, NEW t \in Documents, TaskDone(p, t)
  PROVE  IInv'
<1>1. PICK k : k = [NoJob EXCEPT !.task = t]
  OBVIOUS
<1>2. k \in JobDoc /\ k # NoJob /\ k.task = t /\ k.created = 0
  <2>1. t \in 0..MaxTasks /\ t # 0
    BY DocumentTasks DEF IInv
  <2>2. k \in JobDoc
    BY <1>1, <2>1, NoJobTyped DEF JobDoc
  <2>3. k.task = t /\ k.created = 0 /\ NoJob.task = 0
    BY <1>1 DEF NoJob
  <2> QED BY <2>1, <2>2, <2>3
<1>3. PICK step \in {"idle", "checkHandoff"}, j \in {NoJob, k} :
        Goto(p, step, j) /\ (step = "idle" <=> j = NoJob)
  BY <1>1, <1>2 DEF TaskDone, Begin
<1>4. pc'[p] = step /\ job'[p] = j /\ j \in JobDoc
  BY <1>2, <1>3, NoJobTyped DEF Goto, IInv, TypeOK
<1>5. /\ UNCHANGED <<made, task, cases, replans, handoffs, replies, work>>
      /\ receipt' = [receipt EXCEPT ![t] = "done"]
      /\ Open(t)
  BY DEF TaskDone
<1>6. /\ disturbed' \cup reopened' \cup abandoned' \cup halfMade' \subseteq Documents
      /\ commands' \in 0..MaxCommands /\ kills' \in 0..MaxKills
  BY RunDocsAssumption DEF TaskDone, Begin, IInv, TypeOK
<1>7. receipt'[t] = "done"
  BY <1>5, DocumentTasks DEF IInv, TypeOK
<1>8. t \in Documents' /\ t # 0
  BY <1>5
<1>9. HandoffJob(p)'
  BY <1>2, <1>3, <1>4, <1>7, <1>8 DEF HandoffJob, HandoffSteps
<1>10. BlockerJob(p)' /\ ResponseJob(p)' /\ ~Suspending(p)'
  BY <1>4 DEF BlockerJob, ResponseJob, Suspending, BlockerSteps
<1>11. /\ step \in {"idle"} \cup DeliverSteps \cup BlockerSteps \cup ReviewSteps
       /\ step \notin Replacing /\ step # "respond"
  BY DEF ReviewSteps
<1>12. \A q \in Procs \ {p} : Suspending(q) => job[q].task # t
  BY <1>5, OpenIsFree
<1>13. step \in HandoffSteps => \A q \in Procs \ {p} : pc[q] \in HandoffSteps => job[q].task # j.task
  <2>1. step \in HandoffSteps => j.task = t
    BY <1>2, <1>3 DEF HandoffSteps
  <2> QED BY <1>5, <2>1, OpenIsFree
<1> QED BY <1>3, <1>4, <1>5, <1>6, <1>9, <1>10, <1>11, <1>12, <1>13, ReceiptStep

LEMMA CompleteIInv ==
  ASSUME IInv, NEW p \in Procs, Complete(p)
  PROVE  IInv'
<1> DEFINE t == job[p].task
<1>1. pc[p] = "complete"
  BY DEF Complete
<1>2. /\ ResponseJob(p) /\ job[p] \in JobDoc /\ job[p] # NoJob /\ t \in Documents
  BY <1>1, ResponseCommand
<1>3. UNCHANGED <<made, task, cases, replans, handoffs, replies, work, disturbed, reopened, abandoned, halfMade, commands, kills>>
  BY DEF Complete, history, bounds
<1>4. /\ disturbed' \cup reopened' \cup abandoned' \cup halfMade' \subseteq Documents
      /\ commands' \in 0..MaxCommands /\ kills' \in 0..MaxKills
  BY <1>3 DEF IInv, TypeOK
<1>5. CASE Open(t)
  <2>1. Goto(p, "respond", job[p]) /\ receipt' = [receipt EXCEPT ![t] = "done"]
    BY <1>5 DEF Complete, Open
  <2>2. pc'[p] = "respond" /\ job'[p] = job[p] /\ receipt'[t] = "done"
    BY <1>2, <2>1, DocumentTasks DEF Goto, IInv, TypeOK
  <2>3. BlockerJob(p)' /\ HandoffJob(p)' /\ ~Suspending(p)'
    BY <2>2 DEF BlockerJob, HandoffJob, Suspending, BlockerSteps, HandoffSteps
  <2>4. handoffs[job[p].source].status # "responded"
    BY <1>1, <1>2, <1>5 DEF ResponseJob, Open, IInv, HandoffsInv, HandoffFine
  <2>5. ResponseJob(p)'
    BY <1>1, <1>2, <1>3, <2>2, <2>4 DEF ResponseJob, WithHandoff
  <2>6. \A q \in Procs \ {p} : Suspending(q) => job[q].task # t
    BY <1>2, <1>5, OpenIsFree
  <2>7. \A q \in Procs \ {p} : pc[q] = "respond" => job[q].task # job[p].task
    BY <1>2, <1>5, OpenIsFree
  <2>8. /\ "respond" \in {"idle"} \cup DeliverSteps \cup BlockerSteps \cup ReviewSteps
        /\ "respond" \notin Replacing /\ "respond" \notin HandoffSteps
    BY DEF ReviewSteps, HandoffSteps
  <2>9. UNCHANGED <<made, task, cases, replans, handoffs, replies, work>>
    BY <1>3
  <2>10. t \in Documents /\ "done" # "dead" /\ "respond" # "idle"
    BY <1>2
  <2>11. "respond" = "idle" <=> job[p] = NoJob
    BY <1>2
  <2> QED BY <1>2, <1>4, <2>1, <2>3, <2>5, <2>6, <2>7, <2>8, <2>9, <2>10, <2>11, ReceiptStep
<1>6. CASE ~Open(t)
  <2>1. Return(p) /\ receipt' = receipt
    BY <1>2, <1>6, DocumentTasks DEF Complete, Open, IInv, TypeOK
  <2> QED BY <1>3, <1>4, <2>1, ReturnStep DEF docs
<1> QED BY <1>5, <1>6

-----------------------------------------------------------------------------
(***************************************************************************)
(* The steps that end the creation of a task, with its receipt or without. *)
(***************************************************************************)
LEMMA DeliverStep ==
  ASSUME IInv, CreationInv, NEW p \in Procs, Creating(p), NEW step, NEW j \in JobDoc,
         Goto(p, step, j), Deliver(p) \/ UNCHANGED receipt,
         UNCHANGED <<made, task, cases, replans, handoffs, replies, work>>,
         disturbed' \cup reopened' \cup abandoned' \cup halfMade' \subseteq Documents,
         commands' \in 0..MaxCommands, kills' \in 0..MaxKills,
         step \in {"idle", "persist", "createReplan", "reload", "restore",
                   "createHandoff", "failHandoff"},
         step = "idle" <=> j = NoJob,
         step = "createReplan" => pc[p] \in Replacing /\ j.created = job[p].created,
         BlockerJob(p)', HandoffJob(p)',
         Suspending(p)' => Suspending(p) /\ j.task = job[p].task,
         step \in HandoffSteps => pc[p] \in HandoffSteps /\ j.task = job[p].task
  PROVE  IInv'
<1>1. PICK t \in Documents : t = job[p].created /\ receipt[t] = "none"
  BY DEF CreationInv
<1>2. DOMAIN receipt = Tasks /\ t \in Tasks
  BY DocumentTasks DEF IInv, TypeOK
<1>3. PICK v \in {"none", "open"} : receipt' = [receipt EXCEPT ![t] = v]
  BY <1>1, <1>2 DEF Deliver, IInv, TypeOK
<1>4. pc'[p] = step /\ job'[p] = j
  BY DEF Goto, IInv, TypeOK
<1>5. ResponseJob(p)' /\ step # "respond"
  BY <1>4 DEF ResponseJob
<1>6. /\ step \in {"idle"} \cup DeliverSteps \cup BlockerSteps \cup ReviewSteps
      /\ step \in Replacing => pc[p] \in Replacing /\ j.created = job[p].created
  BY DEF BlockerSteps, ReviewSteps
<1>7. \A q \in Procs : Suspending(q) => job[q].task # t /\ receipt[job[q].task] = "dead"
  BY <1>1 DEF IInv, SuspendedInv
<1>8. Suspending(p)' =>
        /\ receipt'[j.task] = "dead"
        /\ \A q \in Procs \ {p} : Suspending(q) => job[q].task # j.task
  BY <1>3, <1>7 DEF IInv, SuspendedInv
<1>9. step \in HandoffSteps => \A q \in Procs \ {p} : pc[q] \in HandoffSteps => job[q].task # j.task
  BY DEF IInv, HandoffJobs
<1>10. v \in {"none", "open", "done", "dead"} /\ (receipt[t] = "done" => v = "done")
  BY <1>1
<1>11. v # "dead" => \A q \in Procs \ {p} : Suspending(q) => job[q].task # t
  BY <1>7
<1>12. step = "respond" => \A q \in Procs \ {p} : pc[q] = "respond" => job[q].task # j.task
  BY <1>5
<1> QED BY <1>3, <1>5, <1>6, <1>8, <1>9, <1>10, <1>11, <1>12, ReceiptStep

\* What the end of a creation leaves.
LEMMA DeliveryHistory ==
  ASSUME IInv, CreationInv, NEW p \in Procs, Creating(p),
         \/ Deliver(p) /\ UNCHANGED <<halfMade, kills>>
         \/ CreationFails(p)
  PROVE  /\ Deliver(p) \/ UNCHANGED receipt
         /\ halfMade' \subseteq Documents /\ kills' \in 0..MaxKills
BY RunDocsAssumption DEF CreationFails, CreationInv, IInv, TypeOK

LEMMA RouteTaskEnds ==
  ASSUME IInv, CreationInv, NEW p \in Procs, DeliverTask(p) \/ TaskFails(p)
  PROVE  IInv'
<1>1. Creating(p) /\ Goto(p, "idle", NoJob)
  BY DEF DeliverTask, TaskFails, Return, Creating, DeliverSteps
<1>2. pc'[p] = "idle"
  BY <1>1 DEF Goto, IInv, TypeOK
<1>3. BlockerJob(p)' /\ HandoffJob(p)' /\ ~Suspending(p)' /\ "idle" \notin HandoffSteps
  BY <1>2 DEF BlockerJob, HandoffJob, Suspending, BlockerSteps, HandoffSteps
<1>4. /\ UNCHANGED <<made, task, cases, replans, handoffs, replies, work>>
      /\ UNCHANGED <<disturbed, reopened, abandoned, commands>>
  BY DEF DeliverTask, TaskFails, history, bounds
<1>5. (Deliver(p) /\ UNCHANGED <<halfMade, kills>>) \/ CreationFails(p)
  BY DEF DeliverTask, TaskFails, history, bounds
<1>6. /\ Deliver(p) \/ UNCHANGED receipt
      /\ halfMade' \subseteq Documents /\ kills' \in 0..MaxKills
  BY <1>1, <1>5, DeliveryHistory
<1>7. /\ disturbed' \cup reopened' \cup abandoned' \cup halfMade' \subseteq Documents
      /\ commands' \in 0..MaxCommands
  BY <1>4, <1>6 DEF IInv, TypeOK
<1> QED BY <1>1, <1>3, <1>4, <1>6, <1>7, NoJobTyped, DeliverStep

LEMMA DeliverReplacementIInv ==
  ASSUME IInv, CreationInv, NEW p \in Procs, DeliverReplacement(p)
  PROVE  IInv'
<1>1. pc[p] = "deliverReplacement" /\ Creating(p)
  BY DEF DeliverReplacement, Creating, DeliverSteps
<1>2. /\ BlockerJob(p) /\ job[p] \in JobDoc /\ job[p].task \in Documents
      /\ job[p].source \in Documents
  BY <1>1, BlockerCommand DEF BlockerSteps
<1>3. PICK step : /\ step = AfterRoute(job[p].kind) /\ Goto(p, step, job[p])
                  /\ \/ job[p].kind = "reroute_needed" /\ job[p].kind \in Kinds /\ step = "persist"
                     \/ job[p].kind = "manual_reroute" /\ step = "reload"
                     \/ job[p].kind = "partial_replan" /\ step = "createReplan"
  BY <1>1, <1>2 DEF DeliverReplacement, BlockerJob, BlockerSteps, Moves, AfterRoute
<1>4. pc'[p] = step /\ job'[p] = job[p]
  BY <1>3 DEF Goto, IInv, TypeOK
<1>5. /\ UNCHANGED <<made, task, cases, replans, handoffs, replies, work>>
      /\ UNCHANGED <<disturbed, reopened, abandoned, halfMade, commands, kills>> /\ Deliver(p)
  BY DEF DeliverReplacement, history, bounds
<1>6. BlockerJob(p)'
  <2>1. CaseFine(job[p].copy)'
    BY <1>1, <1>2, <1>4, <1>5, BlockerCommand DEF CaseFine, BlockerSteps
  <2>2. job[p].created \in Documents \ {job[p].source, job[p].task} /\ job[p].created # 0
    BY <1>1, <1>2 DEF BlockerJob, BlockerSteps
  <2>3. job[p].kind \in Moves => job[p].source \in WithCase' /\ job[p].copy # NoCase
    BY <1>1, <1>2, <1>5 DEF BlockerJob, BlockerSteps, Moves, WithCase
  <2> QED BY <1>2, <1>3, <1>4, <1>5, <2>1, <2>2, <2>3 DEF BlockerJob, Moves, ResolutionActions
<1>7. HandoffJob(p)' /\ ~Suspending(p)' /\ step \notin HandoffSteps
  BY <1>3, <1>4 DEF HandoffJob, Suspending, HandoffSteps
<1>8. step \in {"persist", "createReplan", "reload"} /\ job[p] # NoJob
  BY <1>1, <1>3 DEF IInv, TypeOK
<1>9. /\ disturbed' \cup reopened' \cup abandoned' \cup halfMade' \subseteq Documents
      /\ commands' \in 0..MaxCommands /\ kills' \in 0..MaxKills
  BY <1>5 DEF IInv, TypeOK
<1> QED BY <1>1, <1>2, <1>3, <1>5, <1>6, <1>7, <1>8, <1>9, DeliverStep

LEMMA ReplacementFailsIInv ==
  ASSUME IInv, CreationInv, NEW p \in Procs, ReplacementFails(p)
  PROVE  IInv'
<1>1. /\ pc[p] = "deliverReplacement" /\ Creating(p) /\ pc[p] \in BlockerSteps
      /\ GiveUp(p) /\ CreationFails(p)
  BY DEF ReplacementFails, Creating, DeliverSteps, BlockerSteps
<1>2. /\ UNCHANGED <<made, task, cases, replans, handoffs, replies, work>>
      /\ UNCHANGED <<reopened, abandoned, commands>>
  BY DEF ReplacementFails
<1>3. PICK step \in {"idle", "restore"}, j \in JobDoc :
        /\ Goto(p, step, j)
        /\ step = "idle" <=> j = NoJob
        /\ BlockerJob(p)' /\ HandoffJob(p)' /\ ResponseJob(p)'
        /\ Suspending(p)' => Suspending(p) /\ j.task = job[p].task
  BY <1>1, <1>2, GiveUpStep
<1>4. step \notin HandoffSteps
  BY DEF HandoffSteps
<1>5. /\ Deliver(p) \/ UNCHANGED receipt
      /\ halfMade' \subseteq Documents /\ kills' \in 0..MaxKills
  BY <1>1, DeliveryHistory
<1>6. /\ disturbed' \cup reopened' \cup abandoned' \cup halfMade' \subseteq Documents
      /\ commands' \in 0..MaxCommands
  <2>1. disturbed \cup reopened \cup abandoned \subseteq Documents /\ commands \in 0..MaxCommands
    BY DEF IInv, TypeOK
  <2>2. disturbed' = disturbed \cup {WorkOf(p)} /\ WorkOf(p) \in Documents
    BY <1>1, WorkOfDocument DEF ReplacementFails
  <2> QED BY <1>2, <1>5, <2>1, <2>2
<1> QED BY <1>1, <1>2, <1>3, <1>4, <1>5, <1>6, DeliverStep

LEMMA DeliverReviewIInv ==
  ASSUME IInv, CreationInv, NEW p \in Procs, DeliverReview(p) \/ ReviewFails(p)
  PROVE  IInv'
<1>1. pc[p] = "deliverReview" /\ Creating(p) /\ pc[p] \in HandoffSteps
  BY DEF DeliverReview, ReviewFails, Creating, DeliverSteps, HandoffSteps
<1>2. HandoffJob(p) /\ job[p] \in JobDoc /\ job[p] # NoJob /\ job[p].task \in Documents
  BY <1>1, HandoffCommand
<1>3. /\ UNCHANGED <<made, task, cases, replans, handoffs, replies, work>>
      /\ UNCHANGED <<disturbed, reopened, abandoned, commands>>
  BY DEF DeliverReview, ReviewFails, history, bounds
<1>4. PICK k : k = [job[p] EXCEPT !.created = 0]
  OBVIOUS
<1>5. k \in JobDoc /\ k.task = job[p].task /\ k.created = 0 /\ k # NoJob
  <2>1. k \in JobDoc /\ k.task = job[p].task /\ k.created = 0
    BY <1>2, <1>4 DEF JobDoc
  <2>2. k.task # NoJob.task
    BY <1>2, <2>1 DEF NoJob
  <2> QED BY <2>1, <2>2
<1>6. PICK step \in {"createHandoff", "failHandoff"}, j \in {job[p], k} :
        /\ Goto(p, step, j)
        /\ step = "createHandoff" => j = job[p]
  BY <1>4 DEF DeliverReview, ReviewFails
<1>7. pc'[p] = step /\ job'[p] = j /\ j \in JobDoc /\ j # NoJob /\ j.task = job[p].task
      /\ j.created \in {0, job[p].created}
  BY <1>2, <1>5, <1>6 DEF Goto, IInv, TypeOK
<1>8. (Deliver(p) /\ UNCHANGED <<halfMade, kills>>) \/ CreationFails(p)
  BY DEF DeliverReview, ReviewFails, history, bounds
<1>9. /\ Deliver(p) \/ UNCHANGED receipt
      /\ halfMade' \subseteq Documents /\ kills' \in 0..MaxKills
  BY <1>1, <1>8, DeliveryHistory
<1>10. HandoffJob(p)'
  <2>1. receipt'[job[p].task] = "done"
    <3>1. receipt[job[p].task] = "done" /\ receipt[job[p].created] = "none"
      BY <1>1, <1>2 DEF HandoffJob, CreationInv
    <3>2. DOMAIN receipt = Tasks /\ job[p].task \in Tasks
      BY <1>2, DocumentTasks DEF IInv, TypeOK
    <3> QED BY <1>9, <3>1, <3>2 DEF Deliver
  <2>2. step = "createHandoff" => j.created # 0
    BY <1>1, <1>2, <1>6 DEF HandoffJob
  <2> QED BY <1>1, <1>2, <1>3, <1>7, <2>1, <2>2 DEF HandoffJob, WithHandoff
<1>11. BlockerJob(p)' /\ ~Suspending(p)'
  BY <1>7 DEF BlockerJob, Suspending, BlockerSteps
<1>12. /\ disturbed' \cup reopened' \cup abandoned' \cup halfMade' \subseteq Documents
       /\ commands' \in 0..MaxCommands
  BY <1>3, <1>9 DEF IInv, TypeOK
<1>13. step # "idle" /\ step # "createReplan"
  OBVIOUS
<1> QED BY <1>1, <1>3, <1>6, <1>7, <1>9, <1>10, <1>11, <1>12, <1>13, DeliverStep

-----------------------------------------------------------------------------
(***************************************************************************)
(* The steps that write a handoff or send a response.                      *)
(***************************************************************************)

\* A command that returns after a step that let the documents grow.
LEMMA Returned ==
  ASSUME IInv, NEW p \in Procs, Return(p), Grows(p),
         \A q \in Procs : Suspending(q) => receipt'[job[q].task] = "dead"
  PROVE  /\ ProcessTypes' /\ BlockerJobs' /\ SuspendedInv' /\ HandoffJobs' /\ ResponseJobs'
         /\ pc'[p] = "idle"
         /\ \A q \in Procs \ {p} : pc'[q] = pc[q] /\ job'[q] = job[q]
<1>1. Goto(p, "idle", NoJob)
  BY DEF Return
<1>2. pc'[p] = "idle"
  BY <1>1 DEF Goto, IInv, TypeOK
<1>3. BlockerJob(p)' /\ HandoffJob(p)' /\ ResponseJob(p)' /\ ~Suspending(p)'
  BY <1>2 DEF BlockerJob, HandoffJob, ResponseJob, Suspending, BlockerSteps, HandoffSteps
<1>4. "idle" \notin HandoffSteps
  BY DEF HandoffSteps
<1> QED BY <1>1, <1>3, <1>4, NoJobTyped, ProcessesKeep

LEMMA HandoffWrite ==
  ASSUME IInv, NEW p \in Procs, NEW s \in Documents, NEW h \in HandoffDoc,
         SetHandoff(s, h), Return(p), h # NoHandoff, ValidHandoff(h),
         h.status # "handoff_failed" => h.review \in Documents /\ task[h.review].class = "review",
         h.status = "responded" =>
            /\ h.response \in 1..replies[h.review] /\ receipt[h.review] = "done"
            /\ pc[p] = "respond" /\ job[p].source = s,
         s \in WithHandoff => h.review = handoffs[s].review,
         s \notin WithHandoff => pc[p] \in HandoffSteps /\ s = job[p].task
  PROVE  IInv'
<1>1. /\ handoffs' = [handoffs EXCEPT ![s] = h]
      /\ UNCHANGED <<made, task, receipt, cases, replans, replies, work, disturbed,
                     reopened, abandoned, halfMade, commands, kills>>
  BY DEF SetHandoff, history, bounds
<1>2. /\ handoffs' \in [Tasks -> HandoffDoc \cup {NoHandoff}]
      /\ handoffs'[s] = h /\ \A u \in Tasks \ {s} : handoffs'[u] = handoffs[u]
      /\ s \in Tasks
  BY <1>1, DocumentTasks DEF IInv, TypeOK
<1>3. WithHandoff' = WithHandoff \cup {s}
  BY <1>2 DEF WithHandoff
<1>4. Grows(p)
  <2>1. \A u \in WithHandoff' : u \in WithHandoff \/ (pc[p] \in HandoffSteps /\ u = job[p].task)
    BY <1>3
  <2>2. \A u \in WithHandoff :
          /\ u \in WithHandoff' /\ handoffs'[u].review = handoffs[u].review
          /\ handoffs'[u].status = "responded" =>
               handoffs[u].status = "responded" \/ (pc[p] = "respond" /\ job[p].source = u)
    BY <1>2, <1>3 DEF WithHandoff
  <2> QED BY <1>1, <2>1, <2>2, RunDocsAssumption DEF Grows, WithCase, IInv, TypeOK
<1>5. /\ ProcessTypes' /\ BlockerJobs' /\ SuspendedInv' /\ HandoffJobs' /\ ResponseJobs'
      /\ pc'[p] = "idle" /\ \A q \in Procs \ {p} : pc'[q] = pc[q] /\ job'[q] = job[q]
  BY <1>1, <1>4, Returned DEF IInv, SuspendedInv
<1>6. TypeOK'
  BY <1>1, <1>2, <1>5 DEF IInv, TypeOK, ProcessTypes
<1>7. CasesInv' /\ WorkInv'
  BY <1>1 DEF IInv, CasesInv, CaseFine, WithCase, WorkInv
<1>8. ReplansInv'
  BY <1>1, <1>5 DEF IInv, ReplansInv, ReplanFine, WithReplan
<1>9. HandoffsInv'
  <2>1. \A u \in WithHandoff \ {s} : HandoffFine(u)'
    BY <1>1, <1>2 DEF IInv, HandoffsInv, HandoffFine, HandoffLoads, WithHandoff
  <2>2. HandoffFine(s)'
    BY <1>1, <1>2 DEF HandoffFine, HandoffLoads
  <2> QED BY <1>3, <2>1, <2>2 DEF HandoffsInv
<1> QED BY <1>5, <1>6, <1>7, <1>8, <1>9 DEF IInv

LEMMA CreateReviewHandoffIInv ==
  ASSUME IInv, NEW p \in Procs, CreateReviewHandoff(p)
  PROVE  IInv'
<1> DEFINE j == job[p]
<1>1. pc[p] = "createHandoff" /\ pc[p] \in HandoffSteps
  BY DEF CreateReviewHandoff, HandoffSteps
<1>2. /\ j.task \in Documents /\ j.task \notin WithHandoff
      /\ j.created \in Documents /\ task[j.created].class = "review"
  BY <1>1, HandoffCommand DEF HandoffJob
<1>3. PICK h : h = [NoHandoff EXCEPT !.review = j.created, !.status = "pending"]
  OBVIOUS
<1>4. h.review = j.created /\ h.status = "pending" /\ NoHandoff.status = "none"
  BY <1>3 DEF NoHandoff
<1>5. h \in HandoffDoc /\ ValidHandoff(h) /\ h # NoHandoff
  <2>1. j.created \in 0..MaxTasks
    BY <1>2, DocumentTasks DEF IInv
  <2>2. h \in HandoffDoc
    BY <1>3, <2>1 DEF NoHandoff, HandoffDoc, HandoffStatuses, Outcomes
  <2> QED BY <1>2, <1>4, <2>2 DEF ValidHandoff
<1>6. SetHandoff(j.task, h) /\ Return(p)
  BY <1>2, <1>3 DEF CreateReviewHandoff
<1> QED BY <1>1, <1>2, <1>4, <1>5, <1>6, HandoffWrite

LEMMA UpsertFailedReviewHandoffIInv ==
  ASSUME IInv, NEW p \in Procs, UpsertFailedReviewHandoff(p)
  PROVE  IInv'
<1> DEFINE j == job[p]
<1>1. pc[p] = "failHandoff" /\ pc[p] \in HandoffSteps
  BY DEF UpsertFailedReviewHandoff, HandoffSteps
<1>2. /\ j.task \in Documents /\ j.task \notin WithHandoff
      /\ j.created \in Documents \cup {0}
  BY <1>1, HandoffCommand DEF HandoffJob
<1>3. handoffs[j.task] = NoHandoff
  BY <1>2, DocumentTasks DEF WithHandoff, IInv
<1>4. PICK h : h = [handoffs[j.task] EXCEPT !.review = IF j.created # 0 THEN j.created ELSE @,
                                            !.status = "handoff_failed"]
  OBVIOUS
<1>5. h.status = "handoff_failed" /\ NoHandoff.status = "none"
  BY <1>3, <1>4 DEF NoHandoff
<1>6. h \in HandoffDoc
  <2>1. j.created \in 0..MaxTasks
    BY <1>2, DocumentTasks, RunDocsAssumption DEF IInv
  <2>2. NoHandoff.review = 0 /\ (IF j.created # 0 THEN j.created ELSE 0) = j.created
    BY DEF NoHandoff
  <2>3. h = [NoHandoff EXCEPT !.review = j.created, !.status = "handoff_failed"]
    BY <1>3, <1>4, <2>2
  <2> QED BY <2>1, <2>3 DEF NoHandoff, HandoffDoc, HandoffStatuses, Outcomes
<1>7. ValidHandoff(h) /\ h # NoHandoff
  BY <1>5 DEF ValidHandoff
<1>8. SetHandoff(j.task, h) /\ Return(p)
  BY <1>4 DEF UpsertFailedReviewHandoff
<1> QED BY <1>1, <1>2, <1>5, <1>6, <1>7, <1>8, HandoffWrite

LEMMA RespondIInv ==
  ASSUME IInv, NEW p \in Procs, Respond(p)
  PROVE  IInv'
<1> DEFINE j == job[p]
           s == job[p].source
<1>1. pc[p] = "respond"
  BY DEF Respond
<1>2. /\ j.task \in Documents /\ j.kind \in Outcomes
      /\ s \in WithHandoff /\ handoffs[s].review = j.task /\ task[j.task].class = "review"
      /\ j.created \in 1..replies[j.task] /\ receipt[j.task] = "done"
  BY <1>1, ResponseCommand DEF ResponseJob
<1>3. s \in Documents /\ handoffs[s] \in HandoffDoc /\ replies[j.task] \in Nat
  BY <1>2, DocumentTasks DEF WithHandoff, IInv, TypeOK, HandoffsInv, HandoffFine, HandoffLoads
<1>4. PICK h : h = [handoffs[s] EXCEPT !.status = "responded", !.outcome = j.kind, !.response = j.created]
  OBVIOUS
<1>5. /\ h.status = "responded" /\ h.outcome = j.kind /\ h.response = j.created
      /\ h.review = j.task /\ NoHandoff.status = "none"
  BY <1>2, <1>3, <1>4 DEF HandoffDoc, NoHandoff
<1>6. h \in HandoffDoc
  <2>1. j.created \in Nat
    BY <1>2, <1>3
  <2> QED BY <1>2, <1>3, <1>4, <2>1 DEF HandoffDoc, HandoffStatuses
<1>7. ValidHandoff(h) /\ h # NoHandoff
  BY <1>2, <1>3, <1>5 DEF ValidHandoff, Outcomes
<1>8. SetHandoff(s, h) /\ Return(p)
  BY <1>4 DEF Respond
<1> QED BY <1>1, <1>2, <1>3, <1>5, <1>6, <1>7, <1>8, HandoffWrite

LEMMA ReplyIInv ==
  ASSUME IInv, NEW p \in Procs, Reply(p)
  PROVE  IInv'
<1> DEFINE t == job[p].task
<1>1. pc[p] = "reply"
  BY DEF Reply
<1>2. /\ ResponseJob(p) /\ job[p] \in JobDoc /\ job[p] # NoJob /\ t \in Documents
  BY <1>1, ResponseCommand
<1>3. /\ UNCHANGED <<made, task, receipt, cases, replans, handoffs, work, disturbed,
                     reopened, abandoned, halfMade, commands, kills>>
      /\ replies' = [replies EXCEPT ![t] = replies[t] + 1]
  BY DEF Reply, history, bounds
<1>4. /\ replies' \in [Tasks -> Nat] /\ replies'[t] = replies[t] + 1
      /\ \A u \in Tasks \ {t} : replies'[u] = replies[u]
      /\ replies \in [Tasks -> Nat] /\ t \in Tasks
  BY <1>2, <1>3, DocumentTasks DEF IInv, TypeOK
<1>5. PICK j : j = [job[p] EXCEPT !.created = replies[t] + 1]
  OBVIOUS
<1>6. /\ j \in JobDoc /\ j.created = replies[t] + 1
      /\ j.task = t /\ j.kind = job[p].kind /\ j.source = job[p].source
  BY <1>2, <1>4, <1>5 DEF JobDoc
<1>7. j # NoJob
  <2>1. j.task # NoJob.task
    BY <1>2, <1>6 DEF NoJob
  <2> QED BY <2>1
<1>8. Goto(p, "complete", j)
  BY <1>5 DEF Reply
<1>9. pc'[p] = "complete" /\ job'[p] = j
  BY <1>8 DEF Goto, IInv, TypeOK
<1>10. Grows(p)
  <2>1. \A u \in Tasks : replies[u] <= replies'[u] /\ replies'[u] \in Nat
    BY <1>4
  <2> QED BY <1>3, <2>1, RunDocsAssumption DEF Grows, WithCase, WithHandoff, IInv, TypeOK
<1>11. BlockerJob(p)' /\ HandoffJob(p)' /\ ~Suspending(p)'
  BY <1>9 DEF BlockerJob, HandoffJob, Suspending, BlockerSteps, HandoffSteps
<1>12. ResponseJob(p)'
  BY <1>1, <1>2, <1>3, <1>4, <1>6, <1>9 DEF ResponseJob, WithHandoff
<1>13. \A q \in Procs \ {p} : Suspending(q) => receipt'[job[q].task] = "dead"
  BY <1>3 DEF IInv, SuspendedInv
<1>14. "complete" \in {"idle"} \cup DeliverSteps \cup BlockerSteps \cup ReviewSteps /\ "complete" \notin HandoffSteps
  BY DEF ReviewSteps, HandoffSteps
<1>15. /\ ProcessTypes' /\ BlockerJobs' /\ SuspendedInv' /\ HandoffJobs' /\ ResponseJobs'
       /\ pc'[p] = "complete" /\ \A q \in Procs \ {p} : pc'[q] = pc[q] /\ job'[q] = job[q]
  BY <1>6, <1>7, <1>8, <1>10, <1>11, <1>12, <1>13, <1>14, ProcessesKeep
<1>16. TypeOK'
  BY <1>3, <1>4, <1>15 DEF IInv, TypeOK, ProcessTypes
<1>17. CasesInv' /\ WorkInv'
  BY <1>3 DEF IInv, CasesInv, CaseFine, WithCase, WorkInv
<1>18. ReplansInv'
  BY <1>3, <1>15 DEF IInv, ReplansInv, ReplanFine, WithReplan
<1>19. HandoffsInv'
  <2>1. ASSUME NEW s \in WithHandoff
        PROVE  HandoffFine(s)'
    <3>1. HandoffFine(s)
      BY DEF IInv, HandoffsInv
    <3>2. handoffs[s].status = "responded" => handoffs[s].response \in 1..replies'[handoffs[s].review]
      <4>1. handoffs[s].status = "responded" =>
              /\ handoffs[s].review \in Tasks
              /\ handoffs[s].response \in 1..replies[handoffs[s].review]
        BY <3>1, DocumentTasks DEF IInv, HandoffFine, HandoffLoads
      <4>2. \A u \in Tasks : replies[u] \in Nat /\ replies'[u] \in Nat /\ replies[u] <= replies'[u]
        BY <1>4
      <4> QED BY <4>1, <4>2
    <3>3. UNCHANGED <<made, task, receipt, handoffs>>
      BY <1>3
    <3> QED BY <3>1, <3>2, <3>3 DEF HandoffFine, HandoffLoads
  <2>2. WithHandoff' = WithHandoff
    BY <1>3 DEF WithHandoff
  <2> QED BY <2>1, <2>2 DEF HandoffsInv
<1> QED BY <1>15, <1>16, <1>17, <1>18, <1>19 DEF IInv

-----------------------------------------------------------------------------
(***************************************************************************)
(* The steps that write a case or a replan.                                *)
(***************************************************************************)
LEMMA CaseWrite ==
  ASSUME IInv, NEW p \in Procs, Return(p), NEW s \in Documents, NEW c \in CaseDoc,
         CaseFine(c), c # NoCase, cases' = [cases EXCEPT ![s] = c],
         UNCHANGED <<made, task, receipt, replans, handoffs, replies, work>>,
         disturbed' \cup reopened' \cup abandoned' \cup halfMade' \subseteq Documents,
         commands' \in 0..MaxCommands, kills' \in 0..MaxKills
  PROVE  IInv'
<1>1. /\ cases' \in [Tasks -> CaseDoc \cup {NoCase}]
      /\ cases'[s] = c /\ \A u \in Tasks \ {s} : cases'[u] = cases[u]
      /\ s \in Tasks
  BY DocumentTasks DEF IInv, TypeOK
<1>2. WithCase' = WithCase \cup {s}
  BY <1>1 DEF WithCase
<1>3. Grows(p)
  BY <1>2, RunDocsAssumption DEF Grows, WithHandoff, IInv, TypeOK
<1>4. /\ ProcessTypes' /\ BlockerJobs' /\ SuspendedInv' /\ HandoffJobs' /\ ResponseJobs'
      /\ pc'[p] = "idle" /\ \A q \in Procs \ {p} : pc'[q] = pc[q] /\ job'[q] = job[q]
  BY <1>3, Returned DEF IInv, SuspendedInv
<1>5. TypeOK'
  BY <1>1, <1>4 DEF IInv, TypeOK, ProcessTypes
<1>6. CasesInv'
  <2>1. \A u \in Tasks : CaseFine(cases'[u]) => CaseFine(cases[u])'
    BY DEF CaseFine
  <2> QED BY <1>1, <1>2, <2>1 DEF IInv, CasesInv
<1>7. HandoffsInv' /\ WorkInv'
  BY DEF IInv, HandoffsInv, HandoffFine, HandoffLoads, WithHandoff, WorkInv
<1>8. ReplansInv'
  BY <1>4 DEF IInv, ReplansInv, ReplanFine, WithReplan
<1> QED BY <1>4, <1>5, <1>6, <1>7, <1>8 DEF IInv

LEMMA PersistIInv ==
  ASSUME IInv, NEW p \in Procs, Persist(p)
  PROVE  IInv'
<1> DEFINE j == job[p]
           action == SelectBlockerAction(j.kind, j.copy.count)
           rerouted == action = "reroute"
<1> USE RunDocsAssumption
<1>1. pc[p] = "persist"
  BY DEF Persist
<1>2. /\ BlockerJob(p) /\ j \in JobDoc /\ j.task \in Documents /\ j.source \in Documents
      /\ Documents \subseteq Tasks
  BY <1>1, BlockerCommand, DocumentTasks DEF BlockerSteps, IInv
<1>3. /\ j.kind \in Kinds /\ j.kind # "none"
      /\ rerouted => j.created \in Documents
  BY <1>1, <1>2 DEF BlockerJob, BlockerSteps, AllKinds, WaitKinds, BlockKinds
<1>4. j.copy.count \in Nat /\ j.copy.attempts \in SUBSET Tasks
  BY <1>2 DEF JobDoc, CaseDoc, NoCase
<1>5. action \in BlockerActions /\ action # "none"
  BY DEF SelectBlockerAction, BlockerActions
<1>6. PICK c : c = PreparedCase(j)
  OBVIOUS
<1>7. /\ c.current = CurrentAfter(j, action) /\ c.kind = j.kind /\ c.action = action
      /\ c.status = StatusAfter(j, action)
      /\ c.recommended = (IF action = "escalate" THEN Recommended(j.kind) ELSE "none")
      /\ c.resolution = NoResolution
  BY <1>6 DEF PreparedCase
<1>8. CurrentAfter(j, action) \in Documents
  BY <1>2, <1>3 DEF CurrentAfter
<1>9. StatusAfter(j, action) \in {"active", "escalated"} /\ (StatusAfter(j, action) = "escalated" <=> action = "escalate")
  BY DEF StatusAfter
<1>10. Recommended(j.kind) \in {"manual_reroute", "clarify"}
  BY DEF Recommended
<1>11. c \in CaseDoc
  <2>1. (IF rerouted THEN j.copy.count + 1 ELSE j.copy.count) \in Nat
    BY <1>4
  <2>2. (IF rerouted THEN j.copy.attempts \cup {j.created} ELSE j.copy.attempts) \in SUBSET Tasks
    BY <1>2, <1>3, <1>4
  <2>3. (IF action = "escalate" THEN Recommended(j.kind) ELSE "none") \in {"none", "manual_reroute", "clarify"}
    BY <1>10
  <2>4. CurrentAfter(j, action) \in Tasks /\ StatusAfter(j, action) \in BlockerStatuses
    BY <1>2, <1>8, <1>9 DEF BlockerStatuses
  <2> HIDE DEF j, action
  <2> QED BY <1>3, <1>5, <1>6, <2>1, <2>2, <2>3, <2>4 DEF PreparedCase, CaseDoc, action, j
<1>12. CaseFine(c) /\ c # NoCase
  <2>1. c.current # 0 /\ NoCase.current = 0 /\ c.current \in Documents
    BY <1>2, <1>7, <1>8 DEF NoCase
  <2>2. ValidCase(c)
    BY <1>3, <1>5, <1>7, <1>9, <1>10, <2>1 DEF ValidCase
  <2>3. c.resolution.created = 0
    BY <1>7 DEF NoResolution
  <2> QED BY <2>1, <2>2, <2>3 DEF CaseFine
<1>13. /\ UNCHANGED <<made, task, receipt, replans, handoffs, replies, work>> /\ Return(p)
       /\ disturbed' \cup reopened' \cup abandoned' \cup halfMade' \subseteq Documents
       /\ commands' \in 0..MaxCommands /\ kills' \in 0..MaxKills
  BY <1>2 DEF Persist, bounds, IInv, TypeOK
<1>14. CASE CreateRefused(j)
  <2>1. UNCHANGED <<docs, work>>
    BY <1>13, <1>14 DEF Persist, docs
  <2> QED BY <1>13, <2>1, ReturnStep
<1>15. CASE ~CreateRefused(j)
  <2>1. cases' = [cases EXCEPT ![j.source] = c]
    BY <1>6, <1>15 DEF Persist
  <2> QED BY <1>2, <1>11, <1>12, <1>13, <2>1, CaseWrite
<1> QED BY <1>14, <1>15

LEMMA WriteCaseIInv ==
  ASSUME IInv, NEW p \in Procs, WriteCase(p)
  PROVE  IInv'
<1> DEFINE j == job[p]
<1> USE RunDocsAssumption
<1>1. pc[p] = "write"
  BY DEF WriteCase
<1>2. /\ BlockerJob(p) /\ j \in JobDoc /\ j.source \in Documents /\ Documents \subseteq Tasks
  BY <1>1, BlockerCommand, DocumentTasks DEF BlockerSteps, IInv
<1>3. /\ j.kind \in ResolutionActions /\ j.copy # NoCase /\ CaseFine(j.copy)
      /\ j.created \in Documents \cup {0}
      /\ j.kind = "manual_reroute" => j.created # 0
  BY <1>1, <1>2 DEF BlockerJob, BlockerSteps
<1>4. j.reloaded # NoCase /\ CaseFine(j.reloaded)
  BY <1>1, <1>2 DEF BlockerJob, BlockerSteps
<1>5. j.copy \in CaseDoc /\ j.reloaded \in CaseDoc
  BY <1>2, <1>3, <1>4 DEF JobDoc
<1>6. PICK c : c = ResolvedCase(j)
  OBVIOUS
<1>7. ResolvedCurrent(j) \in Documents
  BY <1>3 DEF ResolvedCurrent, CaseFine
<1>8. Resolution(j) \in ResolutionDoc /\ Resolution(j).action = j.kind /\ Resolution(j).created = j.created
  <2>1. j.created \in 0..MaxTasks
    BY <1>2, <1>3
  <2> QED BY <1>3, <2>1 DEF Resolution, ResolutionDoc
<1>9. ResolvedAttempts(j) \in SUBSET Tasks
  BY <1>2, <1>3, <1>5 DEF ResolvedAttempts, CaseDoc
<1>10. c \in CaseDoc
  <2>1. ResolvedCurrent(j) \in Tasks /\ "resolved" \in BlockerStatuses
    BY <1>2, <1>7 DEF BlockerStatuses
  <2> QED BY <1>5, <1>6, <1>8, <1>9, <2>1 DEF ResolvedCase, CaseDoc
<1>11. /\ c.current = ResolvedCurrent(j) /\ c.status = "resolved" /\ c.resolution = Resolution(j)
       /\ c.kind = j.reloaded.kind /\ c.action = j.reloaded.action
  BY <1>5, <1>6 DEF ResolvedCase, CaseDoc
<1>12. CaseFine(c) /\ c # NoCase
  <2>1. c.current # 0 /\ NoCase.current = 0 /\ c.current \in Documents
    BY <1>7, <1>11 DEF NoCase
  <2>2. ValidCase(c)
    <3>1. j.kind # "none"
      BY <1>3 DEF ResolutionActions
    <3> QED BY <1>4, <1>8, <1>11, <2>1, <3>1 DEF CaseFine, ValidCase
  <2> QED BY <1>3, <1>8, <1>11, <2>1, <2>2 DEF CaseFine
<1>13. /\ cases' = [cases EXCEPT ![j.source] = c] /\ Return(p)
       /\ UNCHANGED <<made, task, receipt, replans, handoffs, replies, work>>
       /\ disturbed' \cup reopened' \cup abandoned' \cup halfMade' \subseteq Documents
       /\ commands' \in 0..MaxCommands /\ kills' \in 0..MaxKills
  BY <1>6 DEF WriteCase, history, bounds, IInv, TypeOK
<1> QED BY <1>2, <1>10, <1>12, <1>13, CaseWrite

LEMMA CreatePartialReplanIInv ==
  ASSUME IInv, NEW p \in Procs, CreatePartialReplan(p)
  PROVE  IInv'
<1> DEFINE j == job[p]
           s == job[p].source
<1>1. pc[p] = "createReplan" /\ UNCHANGED <<made, task, receipt, cases, handoffs, replies, work>>
      /\ UNCHANGED <<disturbed, reopened, abandoned, halfMade, commands, kills>>
  BY DEF CreatePartialReplan, history, bounds
<1>2. /\ BlockerJob(p) /\ j \in JobDoc /\ j # NoJob /\ j.task \in Documents /\ s \in Documents
      /\ Documents \subseteq Tasks
  BY <1>1, BlockerCommand, DocumentTasks DEF BlockerSteps, IInv, TypeOK
<1>3. /\ j.kind = "partial_replan" /\ s \in WithCase /\ j.copy # NoCase /\ CaseFine(j.copy)
      /\ j.created \in Documents \ {s, j.task}
  BY <1>1, <1>2 DEF BlockerJob, BlockerSteps
<1>4. CASE s \in WithReplan
  <2>1. Return(p) /\ UNCHANGED <<docs, work>>
    BY <1>1, <1>4 DEF CreatePartialReplan, docs
  <2> QED BY <1>1, <2>1, ReturnStep DEF IInv, TypeOK
<1>5. CASE s \notin WithReplan
  <2>1. PICK r : r = [superseded |-> j.task, replacement |-> j.created]
    OBVIOUS
  <2>2. r \in ReplanDoc /\ r # NoReplan /\ r.superseded = j.task /\ r.replacement = j.created
    <3>1. r.superseded = j.task /\ r.replacement = j.created /\ NoReplan.superseded = 0
      BY <2>1 DEF NoReplan
    <3>2. r \in ReplanDoc
      BY <1>2, <1>3, <2>1 DEF ReplanDoc
    <3>3. r.superseded # NoReplan.superseded
      BY <1>2, <3>1
    <3> QED BY <3>1, <3>2, <3>3
  <2>3. replans' = [replans EXCEPT ![s] = r] /\ Goto(p, "reload", j)
    BY <1>5, <2>1 DEF CreatePartialReplan
  <2>4. /\ replans' \in [Tasks -> ReplanDoc \cup {NoReplan}]
        /\ replans'[s] = r /\ \A u \in Tasks \ {s} : replans'[u] = replans[u]
        /\ s \in Tasks
    BY <1>2, <2>2, <2>3 DEF IInv, TypeOK
  <2>5. WithReplan' = WithReplan \cup {s}
    BY <2>2, <2>4 DEF WithReplan
  <2>6. pc'[p] = "reload" /\ job'[p] = j
    BY <2>3 DEF Goto, IInv, TypeOK
  <2>7. Grows(p)
    BY <1>1, RunDocsAssumption DEF Grows, WithCase, WithHandoff, IInv, TypeOK
  <2>8. BlockerJob(p)'
    <3>1. CaseFine(j.copy)' /\ s \in WithCase'
      BY <1>1, <1>3, <2>6 DEF CaseFine, WithCase
    <3>2. j.kind \in ResolutionActions
      BY <1>3 DEF ResolutionActions
    <3> QED BY <1>1, <1>2, <1>3, <2>6, <3>1, <3>2 DEF BlockerJob
  <2>9. HandoffJob(p)' /\ ResponseJob(p)' /\ ~Suspending(p)'
    BY <2>6 DEF HandoffJob, ResponseJob, Suspending, HandoffSteps
  <2>10. /\ "reload" \in {"idle"} \cup DeliverSteps \cup BlockerSteps \cup ReviewSteps /\ "reload" \notin HandoffSteps
         /\ \A q \in Procs \ {p} : Suspending(q) => receipt'[job[q].task] = "dead"
    BY <1>1 DEF BlockerSteps, HandoffSteps, IInv, SuspendedInv
  <2>11. /\ ProcessTypes' /\ BlockerJobs' /\ SuspendedInv' /\ HandoffJobs' /\ ResponseJobs'
         /\ \A q \in Procs \ {p} : pc'[q] = pc[q] /\ job'[q] = job[q]
    BY <1>2, <2>3, <2>7, <2>8, <2>9, <2>10, ProcessesKeep
  <2>12. TypeOK'
    BY <1>1, <2>4, <2>11 DEF IInv, TypeOK, ProcessTypes
  <2>13. CasesInv' /\ HandoffsInv' /\ WorkInv'
    BY <1>1 DEF IInv, CasesInv, CaseFine, WithCase, HandoffsInv, HandoffFine, HandoffLoads,
                WithHandoff, WorkInv
  <2>14. ReplansInv'
    <3>1. \A u \in WithReplan : replans[u].replacement # j.created
      BY <1>1 DEF IInv, ReplansInv
    <3>2. \A q \in Procs \ {p} : pc[q] \in Replacing => job[q].created # j.created
      BY <1>1 DEF IInv, ReplansInv
    <3>3. \A u \in WithReplan : u # s /\ u \in Tasks /\ replans'[u] = replans[u]
      BY <1>5, <2>4 DEF WithReplan
    <3>4. \A u \in WithReplan : ReplanFine(u)'
      BY <1>1, <3>3 DEF IInv, ReplansInv, ReplanFine
    <3>5. ReplanFine(s)'
      BY <1>1, <1>2, <1>3, <2>2, <2>4, <2>6 DEF ReplanFine, ValidReplan
    <3>6. \A u, x \in WithReplan' : replans'[u].replacement = replans'[x].replacement => u = x
      BY <2>2, <2>4, <2>5, <3>1, <3>3 DEF IInv, ReplansInv
    <3>7. \A q \in Procs, u \in WithReplan' :
            pc'[q] \in Replacing => replans'[u].replacement # job'[q].created
      BY <2>2, <2>4, <2>5, <2>6, <2>11, <3>2, <3>3 DEF IInv, ReplansInv
    <3>8. \A q, x \in Procs :
            pc'[q] \in Replacing /\ pc'[x] \in Replacing /\ q # x =>
                job'[q].created # job'[x].created
      BY <2>6, <2>11 DEF IInv, ReplansInv
    <3> QED BY <2>5, <2>6, <3>4, <3>5, <3>6, <3>7, <3>8 DEF ReplansInv
  <2> QED BY <2>11, <2>12, <2>13, <2>14 DEF IInv
<1> QED BY <1>4, <1>5

-----------------------------------------------------------------------------
(***************************************************************************)
(* The invariant.                                                          *)
(***************************************************************************)
LEMMA InitIInv == Init => IInv
<1> SUFFICES ASSUME Init PROVE IInv
  OBVIOUS
<1> USE RunDocsAssumption
<1>1. /\ made = 0 /\ Documents = {}
      /\ \A p \in Procs : pc[p] = "idle" /\ job[p] = NoJob
      /\ WithCase = {} /\ WithReplan = {} /\ WithHandoff = {}
  BY DEF Init, WithCase, WithReplan, WithHandoff
<1>2. TypeOK
  <2>1. /\ pc \in [Procs -> {"idle"} \cup DeliverSteps \cup BlockerSteps \cup ReviewSteps]
        /\ job \in [Procs -> JobDoc]
    BY NoJobTyped DEF Init
  <2>2. work \in [Tasks -> [of : 0..MaxTasks, by : Origins]]
    BY DEF Init, Origins
  <2>3. /\ \A p \in Procs : pc[p] = "idle" <=> job[p] = NoJob
        /\ \A t \in Tasks : t \in Documents <=> task[t] # NoTask
        /\ \A t \in Tasks : receipt[t] # "none" => t \in Documents
    BY <1>1 DEF Init
  <2>4. /\ made \in 0..MaxTasks /\ commands \in 0..MaxCommands /\ kills \in 0..MaxKills
        /\ disturbed \cup reopened \cup abandoned \cup halfMade \subseteq Documents
    BY DEF Init
  <2>5. /\ task \in [Tasks -> TaskDoc \cup {NoTask}]
        /\ receipt \in [Tasks -> {"none", "open", "done", "dead"}]
        /\ cases \in [Tasks -> CaseDoc \cup {NoCase}]
        /\ replans \in [Tasks -> ReplanDoc \cup {NoReplan}]
        /\ handoffs \in [Tasks -> HandoffDoc \cup {NoHandoff}]
        /\ replies \in [Tasks -> Nat]
    BY DEF Init
  <2> QED BY <2>1, <2>2, <2>3, <2>4, <2>5 DEF TypeOK
<1>3. CasesInv
  BY <1>1 DEF Init, CasesInv, CaseFine
<1>4. ReplansInv /\ HandoffsInv /\ WorkInv
  BY <1>1 DEF ReplansInv, HandoffsInv, WorkInv
<1>5. BlockerJobs /\ SuspendedInv /\ HandoffJobs /\ ResponseJobs
  BY <1>1 DEF BlockerJobs, BlockerJob, BlockerSteps, SuspendedInv, Suspending, HandoffJobs,
              HandoffJob, HandoffSteps, ResponseJobs, ResponseJob
<1> QED BY <1>2, <1>3, <1>4, <1>5 DEF IInv

LEMMA StutterIInv ==
  ASSUME IInv, UNCHANGED vars
  PROVE  IInv'
<1>1. UNCHANGED <<made, task, receipt, cases, replans, handoffs, replies, pc, job, work,
                  disturbed, reopened, abandoned, halfMade, commands, kills>>
  BY DEF vars, docs, history, bounds
<1>2. TypeOK'
  BY <1>1 DEF IInv, TypeOK
<1>3. CasesInv' /\ HandoffsInv' /\ WorkInv'
  BY <1>1 DEF IInv, CasesInv, CaseFine, WithCase, HandoffsInv, HandoffFine, HandoffLoads,
              WithHandoff, WorkInv
<1>4. ReplansInv'
  BY <1>1 DEF IInv, ReplansInv, ReplanFine, WithReplan
<1>5. BlockerJobs'
  BY <1>1 DEF IInv, BlockerJobs, BlockerJob, CaseFine, WithCase
<1>6. SuspendedInv'
  BY <1>1 DEF IInv, SuspendedInv, Suspending
<1>7. HandoffJobs'
  BY <1>1 DEF IInv, HandoffJobs, HandoffJob, WithHandoff
<1>8. ResponseJobs'
  BY <1>1 DEF IInv, ResponseJobs, ResponseJob, WithHandoff
<1> QED BY <1>2, <1>3, <1>4, <1>5, <1>6, <1>7, <1>8 DEF IInv

LEMMA StepIInv == IInv /\ CreationInv /\ [Next]_vars => IInv'
<1> SUFFICES ASSUME IInv, CreationInv, [Next]_vars PROVE IInv'
  OBVIOUS
<1>1. CASE UNCHANGED vars
  BY <1>1, StutterIInv
<1>2. CASE Next
  <2>1. PICK p \in Procs : RouteStep(p) \/ BlockerStep(p) \/ ReviewStep(p) \/ Kill(p)
    BY <1>2 DEF Next
  <2>2. CASE RouteStep(p) \/ Kill(p)
    BY <2>2, RouteTaskIInv, RouteTaskEnds, KillIInv DEF RouteStep
  <2>3. CASE BlockerStep(p)
    BY <2>3, TaskBlockIInv, BlockerResolveIInv, FindCaseIInv, SuspendIInv, RouteReplacementIInv,
       DeliverReplacementIInv, RouteFailsIInv, ReplacementFailsIInv, RestoreIInv, PersistIInv,
       CreatePartialReplanIInv, ReloadCaseIInv, WriteCaseIInv DEF BlockerStep
  <2>4. CASE ReviewStep(p)
    BY <2>4, TaskDoneIInv, ReviewRespondIInv, CheckHandoffIInv, RouteReviewIInv,
       DeliverReviewIInv, RouteReviewFailsIInv, CreateReviewHandoffIInv,
       UpsertFailedReviewHandoffIInv, FindHandoffIInv, ReplyIInv, CompleteIInv, RespondIInv
       DEF ReviewStep
  <2> QED BY <2>1, <2>2, <2>3, <2>4
<1> QED BY <1>1, <1>2

-----------------------------------------------------------------------------
(***************************************************************************)
(* The tasks without a receipt.                                            *)
(***************************************************************************)

\* A step that neither creates a task nor ends the creation of one.
NoCreation(p) ==
    /\ ~Creating(p) /\ \E step, j : Goto(p, step, j) /\ step \notin DeliverSteps
    /\ UNCHANGED <<made, halfMade>>
    /\ \A t \in Documents : receipt'[t] = "none" <=> receipt[t] = "none"

LEMMA NoCreationKeeps ==
  ASSUME IInv, CreationInv, NEW p \in Procs, NoCreation(p)
  PROVE  CreationInv'
<1>1. \A q \in Procs : Creating(q)' <=> Creating(q)
  BY DEF NoCreation, Creating, Goto, IInv, TypeOK
<1>2. \A q \in Procs : Creating(q) => job'[q] = job[q]
  BY DEF NoCreation, Goto, IInv, TypeOK
<1> QED BY <1>1, <1>2 DEF NoCreation, CreationInv

LEMMA CreateKeeps ==
  ASSUME IInv, CreationInv, NEW p \in Procs, NEW step \in DeliverSteps, NEW j, Goto(p, step, j),
         NEW doc, NEW of, NEW by, CreateTask(doc, of, by), j.created = made + 1,
         UNCHANGED <<receipt, halfMade>>
  PROVE  CreationInv'
<1>1. /\ made \in Nat /\ made + 1 \in Tasks /\ made' = made + 1
      /\ Documents' = Documents \cup {made + 1} /\ made + 1 \notin Documents
  BY RunDocsAssumption DEF CreateTask, IInv, TypeOK
<1>2. receipt[made + 1] = "none"
  BY <1>1 DEF IInv, TypeOK
<1>3. \A q \in Procs : ~Creating(q)
  BY DEF CreateTask, RouteLocked, Creating
<1>4. /\ Creating(p)' /\ job'[p] = j
      /\ \A q \in Procs \ {p} : ~Creating(q)'
  BY <1>3 DEF Creating, Goto, IInv, TypeOK
<1> QED BY <1>1, <1>2, <1>3, <1>4 DEF CreationInv

LEMMA CreationEnds ==
  ASSUME IInv, CreationInv, NEW p \in Procs, Creating(p), NEW step, NEW j, Goto(p, step, j),
         step \notin DeliverSteps, UNCHANGED made,
         \/ Deliver(p) /\ UNCHANGED halfMade
         \/ UNCHANGED receipt /\ halfMade' = halfMade \cup {job[p].created}
  PROVE  CreationInv'
<1>1. PICK t \in Documents : t = job[p].created
  BY DEF CreationInv
<1>2. DOMAIN receipt = Tasks /\ Documents \subseteq Tasks
  BY DocumentTasks DEF IInv, TypeOK
<1>3. \A q \in Procs : ~Creating(q)'
  BY DEF CreationInv, Creating, Goto, IInv, TypeOK
<1>4. \A u \in Documents \ {t} : receipt[u] = "none" => u \in halfMade
  BY <1>1 DEF CreationInv
<1>5. \A u \in Documents \ {t} : receipt'[u] = receipt[u]
  BY <1>1, <1>2 DEF Deliver
<1>6. receipt'[t] = "none" => t \in halfMade'
  BY <1>1, <1>2 DEF Deliver
<1> QED BY <1>3, <1>4, <1>5, <1>6 DEF CreationInv

LEMMA BlockerCreation ==
  ASSUME IInv, CreationInv, NEW p \in Procs, BlockerStep(p)
  PROVE  CreationInv'
<1> DEFINE Elsewhere(step) == step \notin DeliverSteps
<1>1. CASE \/ \E t \in Documents, k \in Kinds : TaskBlock(p, t, k)
           \/ \E s \in Documents, a \in ResolutionActions : BlockerResolve(p, s, a)
           \/ FindCase(p) \/ RouteFails(p) \/ Persist(p) \/ CreatePartialReplan(p)
           \/ ReloadCase(p) \/ WriteCase(p)
  <2>1. ~Creating(p)
    BY <1>1 DEF TaskBlock, BlockerResolve, Begin, FindCase, RouteFails, Persist,
       CreatePartialReplan, ReloadCase, WriteCase, Creating, DeliverSteps
  <2>2. \E step, j : Goto(p, step, j) /\ Elsewhere(step)
    <3>1. CASE \E t \in Documents, k \in Kinds : TaskBlock(p, t, k)
      BY <3>1 DEF TaskBlock, Begin, DeliverSteps
    <3>2. CASE \E s \in Documents, a \in ResolutionActions : BlockerResolve(p, s, a)
      <4>1. PICK step, j : step \in {"suspend", "reload"} /\ Goto(p, step, j)
        BY <3>2 DEF BlockerResolve, Begin
      <4> QED BY <4>1 DEF DeliverSteps
    <3>3. CASE FindCase(p)
      <4>1. \A step \in {"suspend", "persist", "idle"} : Elsewhere(step)
        BY DEF DeliverSteps
      <4>2. \E step \in {"suspend", "persist", "idle"} : \E j : Goto(p, step, j)
        BY <3>3 DEF FindCase, Return
      <4> QED BY <4>1, <4>2
    <3>4. CASE RouteFails(p) \/ Persist(p) \/ CreatePartialReplan(p) \/ ReloadCase(p) \/ WriteCase(p)
      BY <3>4 DEF RouteFails, GiveUp, Persist, CreatePartialReplan, ReloadCase, WriteCase,
         Return, DeliverSteps
    <3> QED BY <1>1, <3>1, <3>2, <3>3, <3>4
  <2>3. UNCHANGED <<made, receipt, halfMade>>
    BY <1>1 DEF TaskBlock, BlockerResolve, FindCase, RouteFails, Persist,
       CreatePartialReplan, ReloadCase, WriteCase, docs, history
  <2> QED BY <2>1, <2>2, <2>3, NoCreationKeeps DEF NoCreation
<1>2. CASE Suspend(p)
  <2>1. pc[p] = "suspend" /\ DOMAIN receipt = Tasks /\ \E j : Goto(p, "route", j)
    BY <1>2 DEF Suspend, IInv, TypeOK
  <2> QED BY <1>2, <2>1, NoCreationKeeps DEF NoCreation, Suspend, Creating, DeliverSteps, bounds
<1>3. CASE Restore(p)
  <2>1. pc[p] = "restore" /\ Goto(p, "idle", NoJob)
    BY <1>3 DEF Restore, Return
  <2>2. receipt[job[p].task] = "dead"
    <3>1. BlockerJob(p)
      BY <2>1, BlockerCommand DEF BlockerSteps
    <3> QED BY <2>1, <3>1 DEF BlockerJob, BlockerSteps, Suspending, IInv, SuspendedInv
  <2>3. \A t \in Documents : receipt'[t] = "none" <=> receipt[t] = "none"
    BY <1>3, <2>2 DEF Restore, IInv, TypeOK
  <2> QED BY <1>3, <2>1, <2>3, NoCreationKeeps DEF NoCreation, Restore, Creating, DeliverSteps, history
<1>4. CASE RouteReplacement(p)
  <2>1. PICK doc, of, by : CreateTask(doc, of, by)
    BY <1>4 DEF RouteReplacement
  <2>2. PICK j : j = [job[p] EXCEPT !.created = made + 1]
    OBVIOUS
  <2>3. j.created = made + 1
    BY <2>2 DEF IInv, TypeOK, JobDoc
  <2>4. Goto(p, "deliverReplacement", j) /\ UNCHANGED <<receipt, halfMade>>
    BY <1>4, <2>2 DEF RouteReplacement
  <2>5. "deliverReplacement" \in DeliverSteps
    BY DEF DeliverSteps
  <2> QED BY <2>1, <2>3, <2>4, <2>5, CreateKeeps
<1>5. CASE DeliverReplacement(p) \/ ReplacementFails(p)
  <2>1. Creating(p) /\ UNCHANGED made
    BY <1>5 DEF DeliverReplacement, ReplacementFails, Creating, DeliverSteps
  <2>2. PICK step, j : step \in {"idle", "restore", "persist", "createReplan", "reload"} /\ Goto(p, step, j)
    BY <1>5 DEF DeliverReplacement, ReplacementFails, GiveUp, Return, AfterRoute
  <2>3. step \notin DeliverSteps
    BY <2>2 DEF DeliverSteps
  <2>4. \/ Deliver(p) /\ UNCHANGED halfMade
        \/ UNCHANGED receipt /\ halfMade' = halfMade \cup {job[p].created}
    BY <1>5 DEF DeliverReplacement, ReplacementFails, CreationFails, history
  <2> QED BY <2>1, <2>2, <2>3, <2>4, CreationEnds
<1> QED BY <1>1, <1>2, <1>3, <1>4, <1>5 DEF BlockerStep

LEMMA ReviewCreation ==
  ASSUME IInv, CreationInv, NEW p \in Procs, ReviewStep(p)
  PROVE  CreationInv'
<1> DEFINE Elsewhere(step) == step \notin DeliverSteps
<1>1. ASSUME NEW t \in Documents, TaskDone(p, t)
      PROVE  CreationInv'
  <2>1. PICK step, j : step \in {"idle", "checkHandoff"} /\ Goto(p, step, j)
    BY <1>1 DEF TaskDone, Begin
  <2>2. pc[p] = "idle" /\ DOMAIN receipt = Tasks /\ step \notin DeliverSteps
    BY <1>1, <2>1 DEF TaskDone, Begin, IInv, TypeOK, DeliverSteps
  <2> QED BY <1>1, <2>1, <2>2, NoCreationKeeps
          DEF NoCreation, TaskDone, Open, Creating, DeliverSteps
<1>2. CASE Complete(p)
  <2>1. PICK step, j : step \in {"idle", "respond"} /\ Goto(p, step, j)
    BY <1>2 DEF Complete, Return
  <2>2. pc[p] = "complete" /\ DOMAIN receipt = Tasks /\ step \notin DeliverSteps
    BY <1>2, <2>1 DEF Complete, IInv, TypeOK, DeliverSteps
  <2> QED BY <1>2, <2>1, <2>2, NoCreationKeeps
          DEF NoCreation, Complete, Creating, DeliverSteps, history
<1>3. CASE \/ \E t \in Documents, o \in Outcomes : ReviewRespond(p, t, o)
           \/ CheckHandoff(p) \/ RouteReviewFails(p) \/ CreateReviewHandoff(p)
           \/ UpsertFailedReviewHandoff(p) \/ FindHandoff(p) \/ Reply(p) \/ Respond(p)
  <2>1. ~Creating(p)
    BY <1>3 DEF ReviewRespond, Begin, CheckHandoff, RouteReviewFails, CreateReviewHandoff,
       UpsertFailedReviewHandoff, FindHandoff, Reply, Respond, Creating, DeliverSteps
  <2>2. \E step \in {"findHandoff", "idle", "routeReview", "failHandoff", "reply", "complete"} :
           \E j : Goto(p, step, j)
    <3>1. CASE \/ \E t \in Documents, o \in Outcomes : ReviewRespond(p, t, o)
               \/ CheckHandoff(p) \/ RouteReviewFails(p) \/ FindHandoff(p)
      BY <3>1 DEF ReviewRespond, Begin, CheckHandoff, RouteReviewFails, FindHandoff, Return
    <3>2. CASE CreateReviewHandoff(p) \/ UpsertFailedReviewHandoff(p) \/ Reply(p) \/ Respond(p)
      BY <3>2 DEF CreateReviewHandoff, UpsertFailedReviewHandoff, Reply, Respond, Return
    <3> QED BY <1>3, <3>1, <3>2
  <2>3. UNCHANGED <<made, receipt, halfMade>>
    BY <1>3 DEF ReviewRespond, CheckHandoff, RouteReviewFails, CreateReviewHandoff, SetHandoff,
       UpsertFailedReviewHandoff, FindHandoff, Reply, Respond, docs, history
  <2>4. \A step \in {"findHandoff", "idle", "routeReview", "failHandoff", "reply", "complete"} :
          Elsewhere(step)
    BY DEF DeliverSteps
  <2> QED BY <2>1, <2>2, <2>3, <2>4, NoCreationKeeps DEF NoCreation
<1>4. CASE RouteReview(p)
  <2>1. PICK doc, of, by : CreateTask(doc, of, by)
    BY <1>4 DEF RouteReview
  <2>2. PICK j : j = [job[p] EXCEPT !.created = made + 1]
    OBVIOUS
  <2>3. j.created = made + 1
    BY <2>2 DEF IInv, TypeOK, JobDoc
  <2>4. Goto(p, "deliverReview", j) /\ UNCHANGED <<receipt, halfMade>>
    BY <1>4, <2>2 DEF RouteReview
  <2>5. "deliverReview" \in DeliverSteps
    BY DEF DeliverSteps
  <2> QED BY <2>1, <2>3, <2>4, <2>5, CreateKeeps
<1>5. CASE DeliverReview(p) \/ ReviewFails(p)
  <2>1. Creating(p) /\ UNCHANGED made
    BY <1>5 DEF DeliverReview, ReviewFails, Creating, DeliverSteps
  <2>2. PICK step, j : step \in {"createHandoff", "failHandoff"} /\ Goto(p, step, j)
    BY <1>5 DEF DeliverReview, ReviewFails
  <2>3. step \notin DeliverSteps
    BY <2>2 DEF DeliverSteps
  <2>4. \/ Deliver(p) /\ UNCHANGED halfMade
        \/ UNCHANGED receipt /\ halfMade' = halfMade \cup {job[p].created}
    BY <1>5 DEF DeliverReview, ReviewFails, CreationFails, history
  <2> QED BY <2>1, <2>2, <2>3, <2>4, CreationEnds
<1> QED BY <1>1, <1>2, <1>3, <1>4, <1>5 DEF ReviewStep

LEMMA RouteOrKillCreation ==
  ASSUME IInv, CreationInv, NEW p \in Procs, RouteStep(p) \/ Kill(p)
  PROVE  CreationInv'
<1>1. CASE RouteTask(p)
  <2>1. PICK doc, of, by : CreateTask(doc, of, by)
    BY <1>1 DEF RouteTask
  <2>2. PICK j : j = [NoJob EXCEPT !.created = made + 1]
    OBVIOUS
  <2>3. j.created = made + 1
    BY <2>2 DEF NoJob
  <2>4. Goto(p, "deliverTask", j) /\ UNCHANGED <<receipt, halfMade>>
    BY <1>1, <2>2 DEF RouteTask, Begin
  <2>5. "deliverTask" \in DeliverSteps
    BY DEF DeliverSteps
  <2> QED BY <2>1, <2>3, <2>4, <2>5, CreateKeeps
<1>2. CASE DeliverTask(p) \/ TaskFails(p) \/ (Kill(p) /\ Creating(p))
  <2>1. Creating(p) /\ UNCHANGED made /\ Goto(p, "idle", NoJob)
    BY <1>2 DEF DeliverTask, TaskFails, Kill, Return, Creating, DeliverSteps, docs
  <2>2. "idle" \notin DeliverSteps
    BY DEF DeliverSteps
  <2>3. \/ Deliver(p) /\ UNCHANGED halfMade
        \/ UNCHANGED receipt /\ halfMade' = halfMade \cup {job[p].created}
    BY <1>2 DEF DeliverTask, TaskFails, CreationFails, Kill, Creating, docs, history
  <2> QED BY <2>1, <2>2, <2>3, CreationEnds
<1>3. CASE Kill(p) /\ ~Creating(p)
  <2>1. Goto(p, "idle", NoJob) /\ UNCHANGED <<made, receipt, halfMade>>
    BY <1>3 DEF Kill, Return, Creating, docs
  <2>2. "idle" \notin DeliverSteps
    BY DEF DeliverSteps
  <2> QED BY <1>3, <2>1, <2>2, NoCreationKeeps DEF NoCreation
<1> QED BY <1>1, <1>2, <1>3 DEF RouteStep

LEMMA InitCreation == Init => CreationInv
BY DEF Init, CreationInv, Creating, DeliverSteps

LEMMA StepCreation == IInv /\ CreationInv /\ [Next]_vars => CreationInv'
<1> SUFFICES ASSUME IInv, CreationInv, [Next]_vars PROVE CreationInv'
  OBVIOUS
<1>1. CASE UNCHANGED vars
  BY <1>1 DEF vars, docs, history, CreationInv, Creating
<1> QED BY <1>1, BlockerCreation, ReviewCreation, RouteOrKillCreation DEF Next

\* The documents, what every command has read of them and the receipts agree
\* in every reachable state, and a task without a receipt is being created or
\* was left half made.
THEOREM InductiveInvariant == Spec => [](IInv /\ CreationInv)
<1>1. Init => IInv /\ CreationInv
  BY InitIInv, InitCreation
<1>2. (IInv /\ CreationInv) /\ [Next]_vars => (IInv /\ CreationInv)'
  BY StepIInv, StepCreation
<1> QED BY <1>1, <1>2, PTL DEF Spec

\* Every document, and the copy of it each command works on, has the form its
\* Validate asks for (RunDocs).
THEOREM TypeCorrect == Spec => []TypeOK
<1>1. IInv => TypeOK
  BY DEF IInv
<1> QED BY <1>1, InductiveInvariant, PTL

\* Whatever overlaps, fails or is killed, handoffs, cases and replans pass their
\* Validate, name tasks and replies that exist, and a replacement belongs to
\* one replan.
THEOREM LinksAlwaysResolve == Spec => []LinksResolve
<1>1. IInv => LinksResolve
  <2> SUFFICES ASSUME IInv PROVE LinksResolve
    OBVIOUS
  <2>1. \A s \in WithHandoff : HandoffLoads(s)
    BY DEF IInv, HandoffsInv, HandoffFine
  <2>2. \A s \in WithCase : CaseLoads(s)
    BY DEF IInv, CasesInv, CaseFine, CaseLoads, WithCase
  <2>3. ASSUME NEW s \in WithReplan
        PROVE  ReplanLoads(s)
    <3>1. ReplanFine(s)
      BY DEF IInv, ReplansInv
    <3>2. ReplansOf(replans[s].replacement) = {s}
      BY DEF ReplansOf, IInv, ReplansInv
    <3> QED BY <3>1, <3>2 DEF ReplanFine, ReplanLoads
  <2> QED BY <2>1, <2>2, <2>3 DEF LinksResolve
<1> QED BY <1>1, InductiveInvariant, PTL

\* An answered review keeps its outcome and its response: a second review
\* respond and a task done that cannot create its handoff leave it alone.
THEOREM AnswersStand == Spec => AnswerStands
<1> DEFINE Stands == \A s \in Tasks : handoffs[s].status = "responded" => handoffs'[s] = handoffs[s]
<1>1. ASSUME IInv, NEW p \in Procs, NEW s \in Documents, NEW h, SetHandoff(s, h),
             handoffs[s].status # "responded"
      PROVE  Stands
  BY <1>1 DEF SetHandoff, IInv, TypeOK
<1>2. ASSUME IInv, [Next]_vars
      PROVE  Stands
  <2>1. CASE UNCHANGED handoffs
    BY <2>1
  <2>2. ASSUME NEW p \in Procs, pc[p] \in {"createHandoff", "failHandoff"},
               NEW h, SetHandoff(job[p].task, h)
        PROVE  Stands
    <3>1. job[p].task \in Documents /\ job[p].task \notin WithHandoff
      BY <1>2, <2>2, HandoffCommand DEF HandoffJob, HandoffSteps
    <3>2. handoffs[job[p].task].status # "responded"
      BY <1>2, <3>1, DocumentTasks DEF WithHandoff, NoHandoff, IInv
    <3> QED BY <1>1, <1>2, <2>2, <3>1, <3>2
  <2>3. ASSUME NEW p \in Procs, Respond(p)
        PROVE  Stands
    <3>1. /\ job[p].source \in WithHandoff
          /\ handoffs[job[p].source].status # "responded"
      BY <1>2, <2>3, ResponseCommand DEF Respond, ResponseJob
    <3>2. job[p].source \in Documents
      BY <1>2, <3>1 DEF IInv, HandoffsInv, HandoffFine, HandoffLoads
    <3> QED BY <1>1, <1>2, <2>3, <3>1, <3>2 DEF Respond
  <2>4. ASSUME NEW p \in Procs, CreateReviewHandoff(p)
        PROVE  Stands
    <3>1. CASE job[p].task \in WithHandoff
      BY <2>1, <2>4, <3>1 DEF CreateReviewHandoff, docs
    <3>2. CASE job[p].task \notin WithHandoff
      BY <2>2, <2>4, <3>2 DEF CreateReviewHandoff
    <3> QED BY <3>1, <3>2
  <2>5. ASSUME NEW p \in Procs, UpsertFailedReviewHandoff(p)
        PROVE  Stands
    BY <2>2, <2>5 DEF UpsertFailedReviewHandoff
  <2>6. ASSUME NEW p \in Procs, BlockerStep(p) \/ RouteStep(p) \/ Kill(p)
        PROVE  UNCHANGED handoffs
    BY <2>6 DEF BlockerStep, RouteStep, RouteTask, DeliverTask, TaskFails, Kill, TaskBlock,
       BlockerResolve, FindCase, Suspend, RouteReplacement, DeliverReplacement, RouteFails,
       ReplacementFails, Restore, Persist, CreatePartialReplan, ReloadCase, WriteCase, docs
  <2>7. ASSUME NEW p \in Procs, ReviewStep(p)
        PROVE  UNCHANGED handoffs \/ CreateReviewHandoff(p) \/ UpsertFailedReviewHandoff(p) \/ Respond(p)
    BY <2>7 DEF ReviewStep, TaskDone, ReviewRespond, CheckHandoff, RouteReview, DeliverReview,
       RouteReviewFails, ReviewFails, FindHandoff, Reply, Complete, docs
  <2>8. CASE UNCHANGED vars
    BY <2>1, <2>8 DEF vars, docs
  <2>9. CASE Next
    BY <2>1, <2>3, <2>4, <2>5, <2>6, <2>7, <2>9 DEF Next
  <2> QED BY <1>2, <2>8, <2>9
<1>3. IInv /\ [Next]_vars => [Stands]_vars
  BY <1>2
<1> QED BY <1>3, InductiveInvariant, PTL DEF Spec, AnswerStands

-----------------------------------------------------------------------------
(***************************************************************************)
(* Reviews: who has completed a task hands it off or abandons it, and a    *)
(* review that waits is open or being answered.                            *)
(***************************************************************************)

\* A routed review belongs to one command, then to one handoff.
ReviewJob(p) ==
    LET r == job[p].created IN
    pc[p] \in HandoffSteps /\ r # 0 =>
        /\ \A s \in WithHandoff : handoffs[s].review # r
        /\ \A q \in Procs \ {p} : pc[q] \in HandoffSteps => job[q].created # r
        /\ pc[p] = "createHandoff" /\ r \notin abandoned => Open(r)

Answering(r) == \E p \in Procs : pc[p] = "respond" /\ job[p].task = r

Answerable(s) ==
    LET r == handoffs[s].review IN
    handoffs[s].status = "pending" /\ r \notin abandoned => Open(r) \/ Answering(r)

HandingOff(t) == \E p \in Procs : pc[p] \in HandoffSteps /\ job[p].task = t

HandedOff(t) ==
    receipt[t] = "done" /\ HandsOff(t) => t \in WithHandoff \cup abandoned \/ HandingOff(t)

ReviewsInv ==
    /\ \A s, u \in WithHandoff :
         handoffs[s].review = handoffs[u].review /\ handoffs[s].review # 0 => s = u
    /\ \A s \in WithHandoff : handoffs[s].review \in Documents \cup {0} /\ Answerable(s)
    /\ \A p \in Procs : ReviewJob(p)
    /\ \A t \in Documents : HandedOff(t)

LEMMA ReviewFacts ==
  ASSUME IInv
  PROVE  /\ made \in 0..MaxTasks /\ MaxTasks \in Nat /\ Documents \subseteq Tasks /\ 0 \notin Documents
         /\ \A s \in WithHandoff :
              /\ s \in Documents /\ handoffs[s] \in HandoffDoc
              /\ handoffs[s].status = "pending" =>
                   handoffs[s].review \in Documents /\ task[handoffs[s].review].class = "review"
         /\ \A p \in Procs : pc[p] \in HandoffSteps =>
              /\ job[p].task \in Documents
              /\ job[p].created # 0 =>
                   job[p].created \in Documents /\ task[job[p].created].class = "review"
<1>1. made \in 0..MaxTasks /\ MaxTasks \in Nat /\ Documents \subseteq Tasks /\ 0 \notin Documents
  BY RunDocsAssumption DEF IInv, TypeOK
<1>2. ASSUME NEW s \in WithHandoff
      PROVE  /\ s \in Documents /\ handoffs[s] \in HandoffDoc
             /\ handoffs[s].status = "pending" =>
                  handoffs[s].review \in Documents /\ task[handoffs[s].review].class = "review"
  BY DEF IInv, TypeOK, WithHandoff, HandoffsInv, HandoffFine, HandoffLoads
<1>3. ASSUME NEW p \in Procs, pc[p] \in HandoffSteps
      PROVE  /\ job[p].task \in Documents
             /\ job[p].created # 0 =>
                  job[p].created \in Documents /\ task[job[p].created].class = "review"
  BY <1>3 DEF IInv, HandoffJobs, HandoffJob
<1> QED BY <1>1, <1>2, <1>3

\* A step that writes no handoff: it closes a review only to answer it or by
\* abandoning it, completes a task only to hand it off, and leaves neither
\* unless they are abandoned.
ReviewsAside(p, step, j) ==
    /\ Goto(p, step, j)
    /\ UNCHANGED handoffs
    /\ made' \in Nat /\ made <= made' /\ abandoned \subseteq abandoned'
    /\ \A t \in Documents : task'[t] = task[t]
    /\ \A t \in Documents' \ Documents : receipt'[t] # "done"
    /\ \A t \in Documents : Open(t) /\ ~Open(t)' /\ task[t].class = "review" =>
         \/ t \in abandoned'
         \/ /\ step = "respond" /\ j.task = t
            /\ \E s \in WithHandoff : handoffs[s].review = t
    /\ \A t \in Documents : receipt'[t] = "done" /\ HandsOff(t) =>
         receipt[t] = "done" \/ (step \in HandoffSteps /\ j.task = t)
    /\ pc[p] = "respond" => job[p].task \in abandoned'
    /\ pc[p] \in HandoffSteps =>
         \/ job[p].task \in WithHandoff \cup abandoned'
         \/ step \in HandoffSteps /\ j.task = job[p].task
    /\ step \in HandoffSteps /\ j.created # 0 =>
         \/ /\ pc[p] \in HandoffSteps /\ j.created = job[p].created
            /\ step = "createHandoff" => receipt'[j.created] = "open"
         \/ j.created \notin Documents /\ step # "createHandoff"

LEMMA AsideReviews ==
  ASSUME IInv, ReviewsInv, NEW p \in Procs, NEW step, NEW j, ReviewsAside(p, step, j)
  PROVE  ReviewsInv'
<1>1. /\ pc'[p] = step /\ job'[p] = j
      /\ \A q \in Procs \ {p} : pc'[q] = pc[q] /\ job'[q] = job[q]
  BY DEF ReviewsAside, Goto, IInv, TypeOK
<1>2. /\ WithHandoff' = WithHandoff /\ Documents \subseteq Documents'
      /\ handoffs' = handoffs
  BY ReviewFacts DEF ReviewsAside, WithHandoff
<1>3. ASSUME NEW t \in Documents, Open(t), task[t].class = "review", t \notin abandoned'
      PROVE  Open(t)' \/ Answering(t)'
  BY <1>1, <1>3 DEF ReviewsAside, Answering
<1>4. ASSUME NEW r, Answering(r), r \notin abandoned'
      PROVE  Answering(r)'
  <2>1. PICK q \in Procs : pc[q] = "respond" /\ job[q].task = r
    BY <1>4 DEF Answering
  <2>2. q # p
    BY <1>4, <2>1 DEF ReviewsAside
  <2> QED BY <1>1, <2>1, <2>2 DEF Answering
<1>5. ASSUME NEW s \in WithHandoff
      PROVE  handoffs[s].review \in Documents' \cup {0} /\ Answerable(s)'
  <2>1. Answerable(s) /\ handoffs[s].review \in Documents \cup {0}
    BY DEF ReviewsInv
  <2>2. Answerable(s)'
    BY <1>2, <1>3, <1>4, <2>1, ReviewFacts DEF Answerable, ReviewsAside
  <2> QED BY <1>2, <2>1, <2>2
<1>6. ASSUME NEW q \in Procs \ {p}
      PROVE  ReviewJob(q)'
  <2>1. PICK r : r = job[q].created
    OBVIOUS
  <2>2. SUFFICES ASSUME pc[q] \in HandoffSteps, r # 0
                 PROVE  /\ \A s \in WithHandoff : handoffs[s].review # r
                        /\ \A o \in Procs \ {q} : pc'[o] \in HandoffSteps => job'[o].created # r
                        /\ pc[q] = "createHandoff" /\ r \notin abandoned' => Open(r)'
    BY <1>1, <1>2, <2>1 DEF ReviewJob
  <2>3. ReviewJob(q) /\ r \in Documents /\ task[r].class = "review"
    BY <2>1, <2>2, ReviewFacts DEF ReviewsInv
  <2>4. ASSUME NEW o \in Procs \ {q}, pc'[o] \in HandoffSteps
        PROVE  job'[o].created # r
    BY <1>1, <2>1, <2>2, <2>3, <2>4 DEF ReviewJob, ReviewsAside
  <2>5. ASSUME pc[q] = "createHandoff", r \notin abandoned'
        PROVE  Open(r)'
    BY <2>1, <2>2, <2>3, <2>5 DEF ReviewJob, ReviewsAside
  <2> QED BY <2>1, <2>2, <2>3, <2>4, <2>5 DEF ReviewJob
<1>7. ReviewJob(p)'
  <2>1. PICK r : r = j.created
    OBVIOUS
  <2>2. SUFFICES ASSUME step \in HandoffSteps, r # 0
                 PROVE  /\ \A s \in WithHandoff : handoffs[s].review # r
                        /\ \A q \in Procs \ {p} : pc[q] \in HandoffSteps => job[q].created # r
                        /\ step = "createHandoff" => receipt'[r] = "open"
    BY <1>1, <1>2, <2>1 DEF ReviewJob, Open
  <2>3. CASE /\ pc[p] \in HandoffSteps /\ r = job[p].created
             /\ step = "createHandoff" => receipt'[r] = "open"
    BY <2>2, <2>3 DEF ReviewsInv, ReviewJob
  <2>4. CASE r \notin Documents /\ step # "createHandoff"
    BY <2>2, <2>4, ReviewFacts DEF ReviewsInv
  <2> QED BY <2>1, <2>2, <2>3, <2>4 DEF ReviewsAside
<1>8. ASSUME NEW t, HandingOff(t), t \notin WithHandoff \cup abandoned'
      PROVE  HandingOff(t)'
  <2>1. PICK q \in Procs : pc[q] \in HandoffSteps /\ job[q].task = t
    BY <1>8 DEF HandingOff
  <2>2. pc'[q] \in HandoffSteps /\ job'[q].task = t
    BY <1>1, <1>8, <2>1 DEF ReviewsAside
  <2> QED BY <2>2 DEF HandingOff
<1>9. ASSUME NEW t \in Documents', receipt'[t] = "done", HandsOff(t)', t \notin WithHandoff \cup abandoned'
      PROVE  HandingOff(t)'
  <2>1. t \in Documents
    BY <1>9 DEF ReviewsAside
  <2>2. HandsOff(t)
    BY <1>9, <2>1 DEF ReviewsAside, HandsOff
  <2>3. CASE receipt[t] = "done"
    BY <1>8, <1>9, <2>1, <2>2, <2>3 DEF ReviewsInv, HandedOff, ReviewsAside
  <2>4. CASE step \in HandoffSteps /\ j.task = t
    BY <1>1, <2>4 DEF HandingOff
  <2> QED BY <1>9, <2>1, <2>2, <2>3, <2>4 DEF ReviewsAside
<1>10. \A q \in Procs : ReviewJob(q)'
  BY <1>6, <1>7
<1>11. \A t \in Documents' : HandedOff(t)'
  BY <1>2, <1>9 DEF HandedOff
<1> QED BY <1>2, <1>5, <1>10, <1>11 DEF ReviewsInv

\* What CreateTask does to the others.
LEMMA CreateTaskAside ==
  ASSUME IInv, NEW doc, NEW of, NEW by, CreateTask(doc, of, by)
  PROVE  /\ made' \in Nat /\ made <= made' /\ Documents' = Documents \cup {made + 1}
         /\ made + 1 \notin Documents /\ receipt[made + 1] = "none"
         /\ \A t \in Documents : task'[t] = task[t]
<1>1. made \in 0..MaxTasks /\ made < MaxTasks /\ MaxTasks \in Nat /\ made' = made + 1
  BY ReviewFacts DEF CreateTask
<1>2. /\ made + 1 \in Tasks /\ made + 1 \notin Documents
      /\ Documents' = Documents \cup {made + 1} /\ made' \in Nat /\ made <= made'
  BY <1>1
<1>3. DOMAIN task = Tasks /\ receipt[made + 1] = "none"
  BY <1>2 DEF IInv, TypeOK
<1> QED BY <1>2, <1>3 DEF CreateTask

\* What the end of a creation does to the receipts.
LEMMA DeliverAside ==
  ASSUME IInv, CreationInv, NEW p \in Procs, Creating(p), Deliver(p) \/ UNCHANGED receipt
  PROVE  /\ \A t \in Documents : receipt'[t] = receipt[t] \/ (~Open(t) /\ receipt'[t] = "open")
         /\ Deliver(p) => receipt'[job[p].created] = "open"
<1>1. job[p].created \in Documents /\ receipt[job[p].created] = "none"
  BY DEF CreationInv
<1>2. DOMAIN receipt = Tasks /\ Documents \subseteq Tasks
  BY DocumentTasks DEF IInv, TypeOK
<1> QED BY <1>1, <1>2 DEF Deliver, Open

\* A step that is none of a handoff's and none of a response.
Apart(p) ==
    /\ pc[p] \notin HandoffSteps \cup {"respond"}
    /\ \E step, j : Goto(p, step, j) /\ step \notin HandoffSteps

LEMMA ApartReviews ==
  ASSUME IInv, CreationInv, ReviewsInv, NEW p \in Procs, Apart(p),
         UNCHANGED <<handoffs, abandoned>>,
         \/ UNCHANGED <<made, task, receipt>>
         \/ UNCHANGED <<made, task>> /\ Creating(p) /\ Deliver(p)
         \/ UNCHANGED receipt /\ \E doc, of, by : CreateTask(doc, of, by)
  PROVE  ReviewsInv'
<1>1. PICK step, j : Goto(p, step, j) /\ step \notin HandoffSteps
  BY DEF Apart
<1>2. CASE UNCHANGED <<made, task, receipt>>
  <2>1. ReviewsAside(p, step, j)
    BY <1>1, <1>2, ReviewFacts DEF ReviewsAside, Apart, Open
  <2> QED BY <2>1, AsideReviews
<1>3. CASE UNCHANGED <<made, task>> /\ Creating(p) /\ Deliver(p)
  <2>1. \A t \in Documents : receipt'[t] = receipt[t] \/ (~Open(t) /\ receipt'[t] = "open")
    BY <1>3, DeliverAside
  <2>2. ReviewsAside(p, step, j)
    BY <1>1, <1>3, <2>1, ReviewFacts DEF ReviewsAside, Apart, Open
  <2> QED BY <2>2, AsideReviews
<1>4. CASE UNCHANGED receipt /\ \E doc, of, by : CreateTask(doc, of, by)
  <2>1. PICK doc, of, by : CreateTask(doc, of, by)
    BY <1>4
  <2>2. ReviewsAside(p, step, j)
    BY <1>1, <1>4, <2>1, CreateTaskAside DEF ReviewsAside, Apart, Open
  <2> QED BY <2>2, AsideReviews
<1> QED BY <1>2, <1>3, <1>4

LEMMA BlockerReviews ==
  ASSUME IInv, CreationInv, ReviewsInv, NEW p \in Procs, BlockerStep(p) \/ RouteStep(p)
  PROVE  ReviewsInv'
<1> DEFINE Elsewhere(step) == step \notin HandoffSteps
<1>1. CASE \/ \E t \in Documents, k \in Kinds : TaskBlock(p, t, k)
           \/ \E s \in Documents, a \in ResolutionActions : BlockerResolve(p, s, a)
           \/ FindCase(p) \/ RouteFails(p) \/ Persist(p) \/ CreatePartialReplan(p)
           \/ ReloadCase(p) \/ WriteCase(p)
  <2>1. pc[p] \notin HandoffSteps \cup {"respond"}
    BY <1>1 DEF TaskBlock, BlockerResolve, Begin, FindCase, RouteFails, Persist,
       CreatePartialReplan, ReloadCase, WriteCase, HandoffSteps
  <2>2. \E step, j : Goto(p, step, j) /\ Elsewhere(step)
    <3>1. CASE \E t \in Documents, k \in Kinds : TaskBlock(p, t, k)
      BY <3>1 DEF TaskBlock, Begin, HandoffSteps
    <3>2. CASE \E s \in Documents, a \in ResolutionActions : BlockerResolve(p, s, a)
      <4>1. PICK step, j : step \in {"suspend", "reload"} /\ Goto(p, step, j)
        BY <3>2 DEF BlockerResolve, Begin
      <4> QED BY <4>1 DEF HandoffSteps
    <3>3. CASE FindCase(p)
      <4>1. \A step \in {"suspend", "persist", "idle"} : Elsewhere(step)
        BY DEF HandoffSteps
      <4>2. \E step \in {"suspend", "persist", "idle"} : \E j : Goto(p, step, j)
        BY <3>3 DEF FindCase, Return
      <4> QED BY <4>1, <4>2
    <3>4. CASE RouteFails(p) \/ Persist(p) \/ CreatePartialReplan(p) \/ ReloadCase(p) \/ WriteCase(p)
      BY <3>4 DEF RouteFails, GiveUp, Persist, CreatePartialReplan, ReloadCase, WriteCase,
         Return, HandoffSteps
    <3> QED BY <1>1, <3>1, <3>2, <3>3, <3>4
  <2>3. UNCHANGED <<handoffs, abandoned, made, task, receipt>>
    BY <1>1 DEF TaskBlock, BlockerResolve, FindCase, RouteFails, Persist,
       CreatePartialReplan, ReloadCase, WriteCase, docs, history
  <2> QED BY <2>1, <2>2, <2>3, ApartReviews DEF Apart
<1>2. CASE RouteTask(p) \/ RouteReplacement(p)
  <2>1. PICK step, j : step \in {"deliverTask", "deliverReplacement"} /\ Goto(p, step, j)
    BY <1>2 DEF RouteTask, Begin, RouteReplacement
  <2>2. Elsewhere(step) /\ pc[p] \notin HandoffSteps \cup {"respond"}
    BY <1>2, <2>1 DEF RouteTask, Begin, RouteReplacement, HandoffSteps
  <2>3. UNCHANGED <<handoffs, abandoned, receipt>> /\ \E doc, of, by : CreateTask(doc, of, by)
    BY <1>2 DEF RouteTask, RouteReplacement
  <2> QED BY <2>1, <2>2, <2>3, ApartReviews DEF Apart
<1>3. CASE DeliverTask(p) \/ TaskFails(p) \/ DeliverReplacement(p) \/ ReplacementFails(p)
  <2>1. PICK step, j : /\ step \in {"idle", "restore", "createReplan", "reload", "persist"}
                       /\ Goto(p, step, j)
    BY <1>3 DEF DeliverTask, TaskFails, Return, DeliverReplacement, AfterRoute,
       ReplacementFails, GiveUp
  <2>2. Elsewhere(step) /\ pc[p] \notin HandoffSteps \cup {"respond"} /\ Creating(p)
    BY <1>3, <2>1 DEF DeliverTask, TaskFails, DeliverReplacement, ReplacementFails,
       HandoffSteps, Creating, DeliverSteps
  <2>3. UNCHANGED <<handoffs, abandoned, made, task>> /\ (Deliver(p) \/ UNCHANGED receipt)
    BY <1>3 DEF DeliverTask, TaskFails, DeliverReplacement, ReplacementFails, CreationFails,
       history
  <2> QED BY <2>1, <2>2, <2>3, ApartReviews DEF Apart
<1>4. CASE Suspend(p)
  <2>1. PICK j : Goto(p, "route", j)
    BY <1>4 DEF Suspend
  <2>2. job[p].task \in Documents /\ DOMAIN receipt = Tasks /\ pc[p] = "suspend"
    BY <1>4, BlockerCommand DEF Suspend, BlockerSteps, IInv, TypeOK
  <2>3. ReviewsAside(p, "route", j)
    BY <1>4, <2>1, <2>2, ReviewFacts DEF ReviewsAside, Suspend, Open, HandoffSteps
  <2> QED BY <2>3, AsideReviews
<1>5. CASE Restore(p)
  <2>1. Goto(p, "idle", NoJob)
    BY <1>5 DEF Restore, Return
  <2>2. job[p].task \in Documents /\ DOMAIN receipt = Tasks /\ pc[p] = "restore"
    BY <1>5, BlockerCommand DEF Restore, BlockerSteps, IInv, TypeOK
  <2>3. ReviewsAside(p, "idle", NoJob)
    BY <1>5, <2>1, <2>2, ReviewFacts DEF ReviewsAside, Restore, Open, HandoffSteps, history
  <2> QED BY <2>3, AsideReviews
<1> QED BY <1>1, <1>2, <1>3, <1>4, <1>5 DEF BlockerStep, RouteStep

LEMMA TaskDoneReviews ==
  ASSUME IInv, ReviewsInv, NEW p \in Procs, NEW t \in Documents, TaskDone(p, t)
  PROVE  ReviewsInv'
<1>1. PICK k : k = [NoJob EXCEPT !.task = t]
  OBVIOUS
<1>2. k.task = t /\ k.created = 0
  BY <1>1 DEF NoJob
<1>3. PICK step, j :
        /\ Goto(p, step, j)
        /\ IF HandsOff(t) THEN step = "checkHandoff" /\ j = k ELSE step = "idle" /\ j = NoJob
  BY <1>1 DEF TaskDone, Begin
<1>4. DOMAIN receipt = Tasks /\ pc[p] = "idle"
  BY DEF TaskDone, Begin, IInv, TypeOK
<1>5. ReviewsAside(p, step, j)
  <2>1. step \in HandoffSteps => j.created = 0
    BY <1>2, <1>3 DEF HandoffSteps
  <2>2. pc[p] \notin HandoffSteps /\ pc[p] # "respond"
    BY <1>4 DEF HandoffSteps
  <2>3. \A u \in Documents : receipt'[u] = IF u = t THEN "done" ELSE receipt[u]
    BY <1>4, ReviewFacts DEF TaskDone
  <2>4. \A u \in Documents : receipt'[u] = "done" /\ HandsOff(u) =>
          receipt[u] = "done" \/ (step \in HandoffSteps /\ j.task = u)
    BY <1>2, <1>3, <2>3 DEF HandoffSteps
  <2>5. \A u \in Documents : Open(u) /\ ~Open(u)' /\ task[u].class = "review" => u \in abandoned'
    BY <2>3 DEF Open, TaskDone
  <2> QED BY <1>3, <2>1, <2>2, <2>4, <2>5, ReviewFacts DEF ReviewsAside, TaskDone
<1> QED BY <1>5, AsideReviews

LEMMA RouteReviewReviews ==
  ASSUME IInv, ReviewsInv, NEW p \in Procs, RouteReview(p)
  PROVE  ReviewsInv'
<1>1. PICK j : j = [job[p] EXCEPT !.created = made + 1]
  OBVIOUS
<1>2. pc[p] = "routeReview" /\ job[p] \in JobDoc
  BY DEF RouteReview, IInv, TypeOK
<1>3. j.task = job[p].task /\ j.created = made + 1
  BY <1>1, <1>2 DEF JobDoc
<1>4. Goto(p, "deliverReview", j) /\ UNCHANGED <<receipt, handoffs, abandoned>>
  BY <1>1 DEF RouteReview
<1>5. PICK doc, of, by : CreateTask(doc, of, by)
  BY DEF RouteReview
<1>6. ReviewsAside(p, "deliverReview", j)
  BY <1>2, <1>3, <1>4, <1>5, CreateTaskAside DEF ReviewsAside, Open, HandoffSteps
<1> QED BY <1>6, AsideReviews

LEMMA DeliverReviewReviews ==
  ASSUME IInv, CreationInv, ReviewsInv, NEW p \in Procs, DeliverReview(p) \/ ReviewFails(p)
  PROVE  ReviewsInv'
<1>1. pc[p] = "deliverReview" /\ Creating(p) /\ pc[p] \in HandoffSteps /\ pc[p] # "respond"
  BY DEF DeliverReview, ReviewFails, Creating, DeliverSteps, HandoffSteps
<1>2. PICK k : k = [job[p] EXCEPT !.created = 0]
  OBVIOUS
<1>3. k.task = job[p].task /\ k.created = 0
  BY <1>1, <1>2, HandoffCommand DEF JobDoc
<1>4. PICK step, j :
        /\ Goto(p, step, j)
        /\ \/ step = "createHandoff" /\ j = job[p] /\ Deliver(p)
           \/ step = "failHandoff" /\ j = k /\ (Deliver(p) \/ UNCHANGED receipt)
  BY <1>2 DEF DeliverReview, ReviewFails, CreationFails
<1>5. UNCHANGED <<handoffs, abandoned, made, task>>
  BY DEF DeliverReview, ReviewFails, history
<1>6. /\ \A t \in Documents : receipt'[t] = receipt[t] \/ (~Open(t) /\ receipt'[t] = "open")
      /\ Deliver(p) => receipt'[job[p].created] = "open"
  BY <1>1, <1>4, DeliverAside
<1>7. step \in HandoffSteps /\ j.task = job[p].task
  BY <1>3, <1>4 DEF HandoffSteps
<1>8. j.created # 0 => j.created = job[p].created /\ (step = "createHandoff" => receipt'[j.created] = "open")
  BY <1>3, <1>4, <1>6
<1>9. ReviewsAside(p, step, j)
  BY <1>1, <1>4, <1>5, <1>6, <1>7, <1>8, ReviewFacts DEF ReviewsAside, Open
<1> QED BY <1>9, AsideReviews

LEMMA CompleteReviews ==
  ASSUME IInv, ReviewsInv, NEW p \in Procs, Complete(p)
  PROVE  ReviewsInv'
<1>1. PICK t : t = job[p].task
  OBVIOUS
<1>2. /\ pc[p] = "complete" /\ t \in Documents /\ task[t].class = "review"
      /\ \E s \in WithHandoff : handoffs[s].review = t
      /\ DOMAIN receipt = Tasks
  BY <1>1, ResponseCommand DEF Complete, ResponseJob, IInv, TypeOK
<1>3. PICK step, j :
        /\ Goto(p, step, j)
        /\ IF Open(t) THEN step = "respond" /\ j = job[p] ELSE step = "idle" /\ j = NoJob
  BY <1>1 DEF Complete, Return
<1>4. \A u \in Documents : receipt'[u] = IF u = t /\ Open(t) THEN "done" ELSE receipt[u]
  BY <1>1, <1>2, ReviewFacts DEF Complete, Open
<1>5. ~HandsOff(t) /\ step \notin HandoffSteps /\ pc[p] \notin HandoffSteps
  BY <1>2, <1>3 DEF HandsOff, HandoffSteps
<1>6. UNCHANGED <<made, task, handoffs, abandoned>>
  BY DEF Complete, history
<1>7. ReviewsAside(p, step, j)
  BY <1>1, <1>2, <1>3, <1>4, <1>5, <1>6, ReviewFacts DEF ReviewsAside, Open
<1> QED BY <1>7, AsideReviews

LEMMA KillReviews ==
  ASSUME IInv, ReviewsInv, NEW p \in Procs, Kill(p)
  PROVE  ReviewsInv'
<1>1. Goto(p, "idle", NoJob) /\ UNCHANGED <<made, task, receipt, handoffs>>
  BY DEF Kill, Return, docs
<1>2. pc[p] \in HandoffSteps \cup {"respond"} => job[p].task \in abandoned'
  BY DEF Kill, HandoffSteps, ReviewSteps
<1>3. abandoned \subseteq abandoned'
  BY DEF Kill
<1>4. "idle" \notin HandoffSteps
  BY DEF HandoffSteps
<1>5. ReviewsAside(p, "idle", NoJob)
  BY <1>1, <1>2, <1>3, <1>4, ReviewFacts DEF ReviewsAside, Open
<1> QED BY <1>5, AsideReviews

LEMMA ReadingReviews ==
  ASSUME IInv, CreationInv, ReviewsInv, NEW p \in Procs,
         \/ \E t \in Documents, o \in Outcomes : ReviewRespond(p, t, o)
         \/ CheckHandoff(p) \/ RouteReviewFails(p) \/ FindHandoff(p) \/ Reply(p)
  PROVE  ReviewsInv'
<1>1. CASE (\E t \in Documents, o \in Outcomes : ReviewRespond(p, t, o)) \/ FindHandoff(p) \/ Reply(p)
  <2>1. UNCHANGED <<handoffs, abandoned, made, task, receipt>>
    BY <1>1 DEF ReviewRespond, FindHandoff, Reply, docs, history
  <2>2. pc[p] \notin HandoffSteps \cup {"respond"}
    BY <1>1 DEF ReviewRespond, Begin, FindHandoff, Reply, HandoffSteps
  <2>3. PICK step \in {"findHandoff", "reply", "idle", "complete"} : \E j : Goto(p, step, j)
    BY <1>1 DEF ReviewRespond, Begin, FindHandoff, Reply, Return
  <2>4. step \notin HandoffSteps
    BY <2>3 DEF HandoffSteps
  <2> QED BY <2>1, <2>2, <2>3, <2>4, ApartReviews DEF Apart
<1>2. CASE CheckHandoff(p) \/ RouteReviewFails(p)
  <2>1. UNCHANGED <<handoffs, abandoned, made, task, receipt>> /\ pc[p] \in HandoffSteps \ {"respond"}
    BY <1>2 DEF CheckHandoff, RouteReviewFails, docs, history, HandoffSteps
  <2>2. PICK step, j :
          /\ Goto(p, step, j)
          /\ \/ step = "idle" /\ job[p].task \in WithHandoff
             \/ step \in HandoffSteps \ {"createHandoff"} /\ j = job[p]
    <3>1. CASE CheckHandoff(p) /\ job[p].task \in WithHandoff
      BY <3>1 DEF CheckHandoff, Return
    <3>2. CASE CheckHandoff(p) /\ job[p].task \notin WithHandoff
      BY <3>2 DEF CheckHandoff, HandoffSteps
    <3>3. CASE RouteReviewFails(p)
      BY <3>3 DEF RouteReviewFails, HandoffSteps
    <3> QED BY <1>2, <3>1, <3>2, <3>3
  <2>3. "idle" \notin HandoffSteps
    BY DEF HandoffSteps
  <2>4. ReviewsAside(p, step, j)
    BY <2>1, <2>2, <2>3, ReviewFacts DEF ReviewsAside, Open
  <2> QED BY <2>4, AsideReviews
<1> QED BY <1>1, <1>2

\* The commands that write a handoff return with it.
LEMMA WritingReviews ==
  ASSUME IInv, ReviewsInv, NEW p \in Procs, Return(p), NEW s \in Documents, NEW h, SetHandoff(s, h),
         h # NoHandoff,
         \/ /\ pc[p] \in HandoffSteps /\ s = job[p].task /\ s \notin WithHandoff
            /\ h.review = job[p].created
            /\ h.status = "pending" => pc[p] = "createHandoff" /\ job[p].created # 0
         \/ /\ pc[p] = "respond" /\ s = job[p].source /\ s \in WithHandoff
            /\ handoffs[s].review = job[p].task
            /\ h.review = handoffs[s].review /\ h.status = "responded"
  PROVE  ReviewsInv'
<1> DEFINE Handing == pc[p] \in HandoffSteps
<1>1. /\ pc'[p] = "idle" /\ \A q \in Procs \ {p} : pc'[q] = pc[q] /\ job'[q] = job[q]
      /\ "idle" \notin HandoffSteps /\ "respond" \notin HandoffSteps
  BY DEF Return, Goto, IInv, TypeOK, HandoffSteps
<1>2. /\ handoffs'[s] = h /\ \A u \in WithHandoff \ {s} : handoffs'[u] = handoffs[u]
      /\ WithHandoff' = WithHandoff \cup {s}
  BY ReviewFacts DEF SetHandoff, IInv, TypeOK, WithHandoff
<1>3. UNCHANGED <<made, task, receipt, abandoned>>
  BY DEF SetHandoff, history
<1>4. ReviewJob(p) /\ h.review \in Documents \cup {0}
  BY ReviewFacts DEF ReviewsInv
<1>5. \A u \in WithHandoff : u # s /\ handoffs[u].review = h.review => h.review = 0
  BY <1>4, ReviewFacts DEF ReviewJob, ReviewsInv
<1>6. ASSUME NEW q \in Procs
      PROVE  ReviewJob(q)'
  <2>1. CASE q = p
    BY <1>1, <2>1 DEF ReviewJob
  <2>2. ASSUME q # p, pc[q] \in HandoffSteps, job[q].created # 0
        PROVE  \A u \in WithHandoff' : handoffs'[u].review # job[q].created
    <3>1. \A u \in WithHandoff : handoffs[u].review # job[q].created
      BY <2>2 DEF ReviewsInv, ReviewJob
    <3>2. h.review # job[q].created
      <4>1. CASE Handing
        BY <1>4, <2>2, <4>1, <1>1 DEF ReviewsInv, ReviewJob
      <4>2. CASE ~Handing
        BY <3>1, <4>2
      <4> QED BY <4>1, <4>2
    <3> QED BY <1>2, <3>1, <3>2
  <2>3. CASE q # p
    <3>1. ReviewJob(q)
      BY DEF ReviewsInv
    <3>2. \A o \in Procs \ {q} : pc'[o] \in HandoffSteps => pc[o] \in HandoffSteps /\ job'[o] = job[o]
      BY <1>1
    <3> QED BY <1>1, <1>3, <2>2, <2>3, <3>1, <3>2 DEF ReviewJob, Open
  <2> QED BY <2>1, <2>3
<1>7. ASSUME NEW u \in WithHandoff'
      PROVE  handoffs'[u].review \in Documents' \cup {0} /\ Answerable(u)'
  <2>1. CASE u = s
    <3>1. h.status = "pending" /\ h.review \notin abandoned => Open(h.review)
      BY <1>1, <1>4 DEF ReviewJob
    <3> QED BY <1>2, <1>3, <1>4, <2>1, <3>1 DEF Answerable, Open
  <2>2. CASE u # s
    <3>1. /\ u \in WithHandoff /\ handoffs'[u] = handoffs[u]
          /\ Answerable(u) /\ handoffs[u].review \in Documents \cup {0}
      BY <1>2, <2>2 DEF ReviewsInv
    <3>2. ASSUME handoffs[u].status = "pending", Answering(handoffs[u].review)
          PROVE  Answering(handoffs[u].review)'
      <4>1. PICK q \in Procs : pc[q] = "respond" /\ job[q].task = handoffs[u].review
        BY <3>2 DEF Answering
      <4>2. handoffs[u].review # 0
        BY <3>1, <3>2, ReviewFacts
      <4>3. q # p
        BY <1>1, <1>5, <2>2, <3>1, <4>1, <4>2
      <4> QED BY <1>1, <3>1, <4>1, <4>3 DEF Answering
    <3> QED BY <1>3, <3>1, <3>2 DEF Answerable, Open
  <2> QED BY <2>1, <2>2
<1>8. ASSUME NEW t \in Documents, HandedOff(t)
      PROVE  HandedOff(t)'
  <2>1. ASSUME HandingOff(t)
        PROVE  t \in WithHandoff' \/ HandingOff(t)'
    <3>1. PICK q \in Procs : pc[q] \in HandoffSteps /\ job[q].task = t
      BY <2>1 DEF HandingOff
    <3>2. CASE q = p
      BY <1>1, <1>2, <3>1, <3>2
    <3>3. CASE q # p
      BY <1>1, <3>1, <3>3 DEF HandingOff
    <3> QED BY <3>2, <3>3
  <2> QED BY <1>2, <1>3, <1>8, <2>1 DEF HandedOff, HandsOff
<1>9. \A u, v \in WithHandoff' :
         handoffs'[u].review = handoffs'[v].review /\ handoffs'[u].review # 0 => u = v
  BY <1>2, <1>5 DEF ReviewsInv
<1>10. \A t \in Documents' : HandedOff(t)'
  BY <1>3, <1>8 DEF ReviewsInv
<1> QED BY <1>6, <1>7, <1>9, <1>10 DEF ReviewsInv

LEMMA HandoffReviews ==
  ASSUME IInv, ReviewsInv, NEW p \in Procs,
         CreateReviewHandoff(p) \/ UpsertFailedReviewHandoff(p) \/ Respond(p)
  PROVE  ReviewsInv'
<1> DEFINE j == job[p]
<1>1. NoHandoff.status = "none" /\ NoHandoff.review = 0
  BY DEF NoHandoff
<1>2. CASE CreateReviewHandoff(p)
  <2>1. /\ pc[p] = "createHandoff" /\ pc[p] \in HandoffSteps
        /\ j.task \in Documents /\ j.task \notin WithHandoff /\ j.created # 0
    BY <1>2, HandoffCommand DEF CreateReviewHandoff, HandoffSteps, HandoffJob
  <2>2. PICK h : h = [NoHandoff EXCEPT !.review = j.created, !.status = "pending"]
    OBVIOUS
  <2>3. h.review = j.created /\ h.status = "pending"
    BY <2>2 DEF NoHandoff
  <2>4. SetHandoff(j.task, h) /\ Return(p)
    BY <1>2, <2>1, <2>2 DEF CreateReviewHandoff
  <2> QED BY <1>1, <2>1, <2>3, <2>4, WritingReviews
<1>3. CASE UpsertFailedReviewHandoff(p)
  <2>1. /\ pc[p] = "failHandoff" /\ pc[p] \in HandoffSteps
        /\ j.task \in Documents /\ j.task \notin WithHandoff
    BY <1>3, HandoffCommand DEF UpsertFailedReviewHandoff, HandoffSteps, HandoffJob
  <2>2. handoffs[j.task] = NoHandoff
    BY <2>1, ReviewFacts DEF WithHandoff
  <2>3. PICK h : h = [handoffs[j.task] EXCEPT !.review = IF j.created # 0 THEN j.created ELSE @,
                                              !.status = "handoff_failed"]
    OBVIOUS
  <2>4. h = [NoHandoff EXCEPT !.review = j.created, !.status = "handoff_failed"]
    BY <1>1, <2>2, <2>3
  <2>5. h.review = j.created /\ h.status = "handoff_failed"
    BY <2>4 DEF NoHandoff
  <2>6. SetHandoff(j.task, h) /\ Return(p)
    BY <1>3, <2>3 DEF UpsertFailedReviewHandoff
  <2> QED BY <1>1, <2>1, <2>5, <2>6, WritingReviews
<1>4. CASE Respond(p)
  <2>1. PICK s : s = j.source
    OBVIOUS
  <2>2. /\ pc[p] = "respond" /\ s \in WithHandoff /\ handoffs[s].review = j.task
        /\ s \in Documents /\ handoffs[s] \in HandoffDoc
    BY <1>4, <2>1, ResponseCommand, ReviewFacts DEF Respond, ResponseJob
  <2>3. PICK h : h = [handoffs[s] EXCEPT !.status = "responded", !.outcome = j.kind, !.response = j.created]
    OBVIOUS
  <2>4. h.review = handoffs[s].review /\ h.status = "responded"
    BY <2>2, <2>3 DEF HandoffDoc
  <2>5. SetHandoff(s, h) /\ Return(p)
    BY <1>4, <2>1, <2>3 DEF Respond
  <2> QED BY <1>1, <2>1, <2>2, <2>4, <2>5, WritingReviews
<1> QED BY <1>2, <1>3, <1>4

LEMMA InitReviews == Init => ReviewsInv
BY RunDocsAssumption DEF Init, ReviewsInv, WithHandoff, NoHandoff, ReviewJob, HandedOff, HandoffSteps

LEMMA StepReviews == IInv /\ CreationInv /\ ReviewsInv /\ [Next]_vars => ReviewsInv'
<1> SUFFICES ASSUME IInv, CreationInv, ReviewsInv, [Next]_vars PROVE ReviewsInv'
  OBVIOUS
<1>1. CASE UNCHANGED vars
  BY <1>1 DEF vars, docs, history, ReviewsInv, WithHandoff, Answerable, Answering, Open,
     ReviewJob, HandedOff, HandsOff, HandingOff
<1>2. ASSUME NEW p \in Procs, ReviewStep(p)
      PROVE  ReviewsInv'
  BY <1>2, TaskDoneReviews, ReadingReviews, RouteReviewReviews, DeliverReviewReviews,
     CompleteReviews, HandoffReviews DEF ReviewStep
<1> QED BY <1>1, <1>2, BlockerReviews, KillReviews DEF Next

\* No review has two handoffs or two commands that made it, one that waits is
\* open or being answered, and a completed task is being handed off until it
\* has a handoff.
THEOREM ReviewsInductive == Spec => [](IInv /\ CreationInv /\ ReviewsInv)
<1>1. Init => IInv /\ CreationInv /\ ReviewsInv
  BY InitIInv, InitCreation, InitReviews
<1>2. (IInv /\ CreationInv /\ ReviewsInv) /\ [Next]_vars => (IInv /\ CreationInv /\ ReviewsInv)'
  BY StepIInv, StepCreation, StepReviews
<1> QED BY <1>1, <1>2, PTL DEF Spec

\* createReviewHandoffAfterTaskDone and ReviewRespond leave no handoff waiting
\* for a review that nobody can answer, unless the reviewer gave it up or was
\* killed after completing it.
THEOREM PendingAnswerable == Spec => []PendingIsAnswerable
<1>1. ASSUME IInv, ReviewsInv
      PROVE  PendingIsAnswerable
  <2>1. ASSUME NEW s \in Documents, handoffs[s].status = "pending"
        PROVE  Answerable(s)
    BY <1>1, <2>1, ReviewFacts DEF ReviewsInv, WithHandoff, NoHandoff
  <2> QED BY <2>1 DEF PendingIsAnswerable, Answerable, Answering
<1> QED BY <1>1, ReviewsInductive, PTL

\* BuildRunSummary calls no work that requires a review completed before it is
\* approved, but for tasks whose hand-off is under way or was abandoned.
THEOREM CompletedReviewed == Spec => []CompletedIsReviewed
<1>1. ASSUME IInv, ReviewsInv
      PROVE  CompletedIsReviewed
  <2>1. SUFFICES ASSUME NEW s \in Rows, NEW t, t = Effective(s),
                        SummaryStatus(s) = "completed", HandsOff(t), t \notin abandoned, ~HandingOff(t)
                 PROVE  EffectiveReview(s).outcome = "approved"
    BY DEF CompletedIsReviewed, HandingOff, HandoffSteps, ReviewSteps
  <2>2. s \in Documents /\ t \in Documents
    BY <1>1, <2>1 DEF Rows, Effective, Moved, IInv, CasesInv, CaseFine, WithCase, ReplansInv, ReplanFine
  <2>3. PICK h : h = EffectiveReview(s)
    OBVIOUS
  <2>4. receipt[t] = "done" /\ h.status # "pending" /\ h.outcome # "changes_requested"
        /\ h.status # "handoff_failed"
    BY <2>1, <2>3 DEF SummaryStatus, ReviewStatus, BlockerStatus
  <2>5. t \in WithHandoff
    BY <1>1, <2>1, <2>2, <2>4 DEF ReviewsInv, HandedOff
  <2>6. h = handoffs[t] /\ h \in HandoffDoc /\ ValidHandoff(h)
    BY <1>1, <2>1, <2>3, <2>5, ReviewFacts DEF EffectiveReview, IInv, HandoffsInv, HandoffFine, HandoffLoads
  <2> QED BY <2>3, <2>4, <2>6 DEF ValidHandoff, HandoffDoc, HandoffStatuses, Outcomes
<1> QED BY <1>1, ReviewsInductive, PTL
=============================================================================
