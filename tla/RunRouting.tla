----------------------------- MODULE RunRouting -----------------------------
(***************************************************************************)
(* The tasks of one coordinator run: RouteChildTask and AddChildTask of    *)
(* internal/session/run.go, and around them the reroute and the partial    *)
(* replan of a blocked task (rerouteBlockerTask of task_cmd.go,            *)
(* createPartialReplanTask of blocker_resolve.go), run by several          *)
(* processes.  A task is a document, a message and a receipt that are      *)
(* written one after the other, and a process may fail or be killed        *)
(* between any two of them.                                                *)
(*                                                                         *)
(* A receipt counts as open in unread/ and active/, as findActiveDuplicate *)
(* does; suspending, restoring and completing it are steps here and are    *)
(* taken apart in TaskLifecycle.  Numbers come from AllocateSeq            *)
(* (MessagePublish): they are fresh, and lost ones do not matter.  Which   *)
(* owner is selected is left open.                                         *)
(***************************************************************************)
EXTENDS Naturals

CONSTANTS
  Procs,       \* processes that run commands on this run
  NoProc,      \* nobody holds the run's route lock
  Keys,        \* duplicate keys: task class and domains
  FanoutKeys,  \* those whose class is in routing.fanout_task_classes
  NoKey,       \* a task added without routing metadata
  MaxTasks,    \* bound: tasks of the run
  MaxFaults    \* bound: kills and errors

ASSUME RunRoutingAssumption ==
    /\ NoProc \notin Procs
    /\ FanoutKeys \subseteq Keys
    /\ NoKey \notin Keys
    /\ MaxTasks \in Nat
    /\ MaxFaults \in Nat

Tasks == 1..MaxTasks

VARIABLES
  next,       \* the tasks below it have a document under runs/<run>/tasks/
  key,        \* the duplicate_key of each
  messages,   \* tasks whose message is published
  receipt,    \* the state of each task's receipt
  lock,       \* the run's route lock
  pc,
  want,       \* the duplicate key each process routes for
  at,         \* the task its scan for duplicates is at
  mine,       \* the task it creates, or 0
  suspended,  \* the task whose receipt it suspended for a reroute, or 0
  restored,   \* history: tasks whose receipt a failed reroute put back
  faults

run == <<next, key, messages, receipt>>
locals == <<want, at, mine, suspended>>
vars == <<run, lock, pc, locals, restored, faults>>

Scanning == {"check", "recheck"}
Creating == {"create", "message", "receipt", "dispatch"}
Steps == {"idle", "lockRoute", "lockAdd", "select", "restore"} \cup Scanning \cup Creating

\* Between LockRunRoute and the deferred unlock.
InCritical(p) == pc[p] \in Scanning \cup Creating \cup {"select"} /\ want[p] # NoKey

TypeOK ==
    /\ next \in 1..(MaxTasks + 1)
    /\ key \in [Tasks -> Keys \cup {NoKey}]
    /\ messages \subseteq Tasks
    /\ receipt \in [Tasks -> {"none", "open", "done", "dead"}]
    /\ lock \in Procs \cup {NoProc}
    /\ pc \in [Procs -> Steps]
    /\ want \in [Procs -> Keys \cup {NoKey}]
    /\ at \in [Procs -> 1..(MaxTasks + 1)]
    /\ mine \in [Procs -> 0..MaxTasks]
    /\ suspended \in [Procs -> 0..MaxTasks]
    /\ restored \subseteq Tasks
    /\ faults \in 0..MaxFaults
    /\ \A p \in Procs : lock = p <=> InCritical(p)

Init ==
    /\ next = 1
    /\ key = [t \in Tasks |-> NoKey]
    /\ messages = {}
    /\ receipt = [t \in Tasks |-> "none"]
    /\ lock = NoProc
    /\ pc = [p \in Procs |-> "idle"]
    /\ want = [p \in Procs |-> NoKey]
    /\ at = [p \in Procs |-> 1]
    /\ mine = [p \in Procs |-> 0]
    /\ suspended = [p \in Procs |-> 0]
    /\ restored = {}
    /\ faults = 0

-----------------------------------------------------------------------------
Goto(p, from, to) == pc[p] = from /\ pc' = [pc EXCEPT ![p] = to]

Documents == {t \in Tasks : t < next}

\* The call is over; its deferred unlock has run.
Leave(p, step) ==
    /\ pc' = [pc EXCEPT ![p] = step]
    /\ lock' = IF lock = p THEN NoProc ELSE lock
    /\ want' = [want EXCEPT ![p] = NoKey]
    /\ at' = [at EXCEPT ![p] = 1]
    /\ mine' = [mine EXCEPT ![p] = 0]

\* RouteChildTask or AddChildTask returns an error: a reroute then restores
\* the receipt it suspended.
Return_KeepLock(p) ==
    /\ pc' = [pc EXCEPT ![p] = IF suspended[p] = 0 THEN "idle" ELSE "restore"]
    /\ want' = [want EXCEPT ![p] = NoKey]
    /\ at' = [at EXCEPT ![p] = 1]
    /\ mine' = [mine EXCEPT ![p] = 0]
    /\ UNCHANGED <<lock, suspended>>

Return_NoRestore(p) ==
    /\ Leave(p, "idle")
    /\ suspended' = [suspended EXCEPT ![p] = 0]

ReturnError(p) ==
    /\ Leave(p, IF suspended[p] = 0 THEN "idle" ELSE "restore")
    /\ UNCHANGED suspended

-----------------------------------------------------------------------------
Begin(p, k, step) ==
    /\ Goto(p, "idle", step)
    /\ want' = [want EXCEPT ![p] = k]
    /\ UNCHANGED <<run, lock, at, mine, suspended, restored, faults>>

RouteChildTask(p) == \E k \in Keys : Begin(p, k, "lockRoute")

\* With routing metadata AddChildTask takes the lock, without it does not.
AddChildTask(p) == \/ \E k \in Keys : Begin(p, k, "lockAdd")
                   \/ Begin(p, NoKey, "create")

\* suspendTaskReceiptForReroute, then RouteChildTask for k.  A done or dead
\* receipt is left alone and the key routed all the same.
Suspend_Any(p, t, k) ==
    /\ receipt[t] # "none"
    /\ Goto(p, "idle", "lockRoute")
    /\ want' = [want EXCEPT ![p] = k]
    /\ receipt' = [receipt EXCEPT ![t] = "dead"]
    /\ suspended' = [suspended EXCEPT ![p] = t]
    /\ UNCHANGED <<next, key, messages, lock, at, mine, restored, faults>>

Suspend(p, t, k) ==
    /\ receipt[t] # "none"
    /\ Goto(p, "idle", "lockRoute")
    /\ want' = [want EXCEPT ![p] = k]
    /\ IF receipt[t] = "open"
       THEN /\ receipt' = [receipt EXCEPT ![t] = "dead"]
            /\ suspended' = [suspended EXCEPT ![p] = t]
       ELSE UNCHANGED <<receipt, suspended>>
    /\ UNCHANGED <<next, key, messages, lock, at, mine, restored, faults>>

\* A blocked task is routed again, which needs its class and domains.
RerouteBlockerTask(p, t) == key[t] # NoKey /\ Suspend(p, t, key[t])

\* A partial replan replaces it by a task of any class and domains.
CreatePartialReplanTask(p, t) == \E k \in Keys : Suspend(p, t, k)

Lock_NoWait(p) ==
    /\ pc[p] \in {"lockRoute", "lockAdd"}
    /\ lock' = p
    /\ pc' = [pc EXCEPT ![p] = IF @ = "lockRoute" THEN "check" ELSE "recheck"]
    /\ UNCHANGED <<run, locals, restored, faults>>

Lock(p) ==
    /\ pc[p] \in {"lockRoute", "lockAdd"}
    /\ lock = NoProc
    /\ lock' = p
    /\ pc' = [pc EXCEPT ![p] = IF @ = "lockRoute" THEN "check" ELSE "recheck"]
    /\ UNCHANGED <<run, locals, restored, faults>>

-----------------------------------------------------------------------------
(***************************************************************************)
(* findActiveDuplicateTask: once in RouteChildTask and once in             *)
(* addChildTaskWithResolvedOwner, one receipt after the other.             *)
(***************************************************************************)
Matches(p) == at[p] \in Documents /\ key[at[p]] = want[p]

\* The scan ends: RouteChildTask selects an owner, AddChildTask creates.
ScanIsOver(p) ==
    /\ pc' = [pc EXCEPT ![p] = IF @ = "check" THEN "select" ELSE "create"]
    /\ at' = [at EXCEPT ![p] = 1]
    /\ UNCHANGED <<lock, want, mine, suspended>>

\* A task of another key, or one that is done or dead.
ScanSkips(p) ==
    /\ pc[p] \in Scanning
    /\ at[p] \in Documents
    /\ key[at[p]] = want[p] => receipt[at[p]] \in {"done", "dead"}
    /\ at' = [at EXCEPT ![p] = @ + 1]
    /\ UNCHANGED <<run, lock, pc, want, mine, suspended, restored, faults>>

\* An open task: an error, unless the class may fan out.
ScanFinds(p) ==
    /\ pc[p] \in Scanning
    /\ Matches(p)
    /\ receipt[at[p]] = "open"
    /\ IF want[p] \in FanoutKeys THEN ScanIsOver(p) ELSE ReturnError(p)
    /\ UNCHANGED <<run, restored, faults>>

\* loadTaskReceiptState: a task without a receipt is an artifact mismatch.
ScanMisses_Skip(p) ==
    /\ pc[p] \in Scanning
    /\ Matches(p)
    /\ receipt[at[p]] = "none"
    /\ at' = [at EXCEPT ![p] = @ + 1]
    /\ UNCHANGED <<run, lock, pc, want, mine, suspended, restored, faults>>

ScanMisses(p) ==
    /\ pc[p] \in Scanning
    /\ Matches(p)
    /\ receipt[at[p]] = "none"
    /\ ReturnError(p)
    /\ UNCHANGED <<run, restored, faults>>

ScanEnds(p) ==
    /\ pc[p] \in Scanning
    /\ at[p] = next
    /\ ScanIsOver(p)
    /\ UNCHANGED <<run, restored, faults>>

\* selectRoutedOwner finds an owner or rejects the route.
Select(p) ==
    /\ pc[p] = "select"
    /\ \/ pc' = [pc EXCEPT ![p] = "recheck"] /\ UNCHANGED <<lock, locals>>
       \/ ReturnError(p)
    /\ UNCHANGED <<run, restored, faults>>

-----------------------------------------------------------------------------
CreateTask_ReceiptFirst(p) ==
    /\ Goto(p, "create", "receipt")
    /\ next <= MaxTasks
    /\ next' = next + 1
    /\ key' = [key EXCEPT ![next] = want[p]]
    /\ mine' = [mine EXCEPT ![p] = next]
    /\ UNCHANGED <<messages, receipt, lock, want, at, suspended, restored, faults>>

CreateTask(p) ==
    /\ Goto(p, "create", "message")
    /\ next <= MaxTasks
    /\ next' = next + 1
    /\ key' = [key EXCEPT ![next] = want[p]]
    /\ mine' = [mine EXCEPT ![p] = next]
    /\ UNCHANGED <<messages, receipt, lock, want, at, suspended, restored, faults>>

\* Placement, AllocateSeq or CreateTask fails; always at the bound.
CreateTaskFails(p) ==
    /\ pc[p] = "create"
    /\ next > MaxTasks
    /\ ReturnError(p)
    /\ UNCHANGED <<run, restored, faults>>

\* createWorkflowMessage.
CreateMessage(p) ==
    /\ Goto(p, "message", "receipt")
    /\ messages' = messages \cup {mine[p]}
    /\ UNCHANGED <<next, key, receipt, lock, locals, restored, faults>>

CreateReceipt(p) ==
    /\ Goto(p, "receipt", "dispatch")
    /\ receipt' = [receipt EXCEPT ![mine[p]] = "open"]
    /\ UNCHANGED <<next, key, messages, lock, locals, restored, faults>>

\* The owner's dispatch command, if it has one, returns, and so does the call.
Dispatch(p) ==
    /\ pc[p] = "dispatch"
    /\ Leave(p, "idle")
    /\ suspended' = [suspended EXCEPT ![p] = 0]
    /\ UNCHANGED <<run, restored, faults>>

\* The closure returned by suspendTaskReceiptForReroute.
Restore(p) ==
    /\ Goto(p, "restore", "idle")
    /\ IF receipt[suspended[p]] = "dead"
       THEN /\ receipt' = [receipt EXCEPT ![suspended[p]] = "open"]
            /\ restored' = restored \cup {suspended[p]}
       ELSE UNCHANGED <<receipt, restored>>
    /\ suspended' = [suspended EXCEPT ![p] = 0]
    /\ UNCHANGED <<next, key, messages, lock, want, at, mine, faults>>

\* An I/O error of any of these steps, before or after its rename.
Fail(p) ==
    /\ pc[p] \notin {"idle", "restore"}
    /\ faults < MaxFaults
    /\ faults' = faults + 1
    /\ ReturnError(p)
    /\ UNCHANGED <<run, restored>>

\* The process is killed, or its restore fails.
Kill(p) ==
    /\ pc[p] # "idle"
    /\ faults < MaxFaults
    /\ faults' = faults + 1
    /\ Leave(p, "idle")
    /\ suspended' = [suspended EXCEPT ![p] = 0]
    /\ UNCHANGED <<run, restored>>

\* The owner completes an open task (task done, review respond).
TaskDone(t) ==
    /\ receipt[t] = "open"
    /\ receipt' = [receipt EXCEPT ![t] = "done"]
    /\ UNCHANGED <<next, key, messages, lock, pc, locals, restored, faults>>

Scan(p) == ScanSkips(p) \/ ScanFinds(p) \/ ScanMisses(p) \/ ScanEnds(p)
Create(p) == CreateTask(p) \/ CreateTaskFails(p) \/ CreateMessage(p)
             \/ CreateReceipt(p) \/ Dispatch(p)

Next ==
    \/ \E p \in Procs :
         \/ RouteChildTask(p) \/ AddChildTask(p)
         \/ \E t \in Tasks : RerouteBlockerTask(p, t) \/ CreatePartialReplanTask(p, t)
         \/ Lock(p) \/ Scan(p) \/ Select(p) \/ Create(p) \/ Restore(p)
         \/ Fail(p) \/ Kill(p)
    \/ \E t \in Tasks : TaskDone(t)

Spec == Init /\ [][Next]_vars

\* A process inside a command is scheduled, dispatch commands return, and a
\* released flock goes to a waiter.
Fairness == \A p \in Procs :
    /\ WF_vars(Scan(p) \/ Select(p) \/ Create(p) \/ Restore(p))
    /\ SF_vars(Lock(p))

FairSpec == Spec /\ Fairness

-----------------------------------------------------------------------------
(***************************************************************************)
(* Properties.                                                             *)
(***************************************************************************)
Open(t) == receipt[t] = "open"

Exclusive(s, t) == s # t /\ key[s] = key[t] /\ key[s] \in Keys \ FanoutKeys

\* The duplicate policy of routing: a class that may not fan out has one open
\* task per key, however routes, adds, reroutes and completions interleave
\* with each other and with errors, but for the tasks a failed reroute
\* restored.
ExclusiveUnlessRestored ==
    \A s, t \in Tasks : Exclusive(s, t) /\ Open(s) /\ Open(t)
                            => s \in restored \/ t \in restored

\* Task commands start from a receipt, read its message and then the task's
\* document: the three are there together, whatever failed on the way.
TaskBehindReceipt ==
    \A t \in Tasks : receipt[t] # "none" => t \in Documents /\ t \in messages

\* The receipt a reroute suspended stays dead until the reroute is over, so
\* that its restore finds it there, and no other reroute restores it.
SuspendedStaysDead ==
    /\ \A p \in Procs : suspended[p] # 0 => receipt[suspended[p]] = "dead"
    /\ \A p, q \in Procs :
         p # q /\ suspended[p] # 0 => suspended[p] # suspended[q]

\* Unless it is killed, a reroute ends with the task it suspended open again or
\* with a replacement that reached its owner, at whatever step it failed.
RerouteKeepsWork ==
    [][\A p \in Procs :
         suspended[p] # 0 /\ suspended'[p] = 0 /\ faults' = faults
             => \/ receipt'[suspended[p]] = "open"
                \/ mine[p] # 0 /\ receipt[mine[p]] # "none"]_vars

\* A task that a failed or killed call left without a receipt makes every
\* later route of its exclusive key fail: it is reported, never duplicated.
LostTaskBlocksKey ==
    [][\A t \in Documents :
         receipt[t] = "none" /\ key[t] \in Keys \ FanoutKeys /\ next' # next
             => key'[next] # key[t]]_vars

\* A command on the run ends, whatever happened to the holders of the lock.
RoutesReturn == \A p \in Procs : (pc[p] # "idle") ~> (pc[p] = "idle")
=============================================================================
