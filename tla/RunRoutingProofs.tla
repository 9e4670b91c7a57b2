-------------------------- MODULE RunRoutingProofs --------------------------
(***************************************************************************)
(* The duplicate policy of routing, the order in which a task is written   *)
(* and what a reroute leaves behind, for any number of processes, keys,    *)
(* tasks, kills and errors.                                                *)
(***************************************************************************)
EXTENDS RunRouting, TLAPS

\* What a command has of its request and its scan.
CallInv ==
    /\ \A p \in Procs : at[p] <= next
    /\ \A p \in Procs : pc[p] \notin Scanning => at[p] = 1
    /\ \A p \in Procs :
         pc[p] \in Scanning \cup {"lockRoute", "lockAdd", "select"} => want[p] \in Keys
    /\ \A p \in Procs : pc[p] = "restore" => suspended[p] # 0

\* A task that is being created belongs to one command, and its parts are
\* there in the order in which they are written.
MineInv ==
    /\ \A p \in Procs :
         mine[p] # 0 <=> pc[p] \in {"message", "receipt", "dispatch"}
    /\ \A p \in Procs : mine[p] # 0 => mine[p] < next /\ key[mine[p]] = want[p]
    /\ \A p, q \in Procs : p # q /\ mine[p] # 0 => mine[p] # mine[q]
    /\ \A p \in Procs :
         /\ pc[p] \in {"message", "receipt"} => receipt[mine[p]] = "none"
         /\ pc[p] = "receipt" => mine[p] \in messages
         /\ pc[p] = "dispatch" => receipt[mine[p]] # "none"

\* Only a task that had a receipt was ever restored.
RestoredInv == \A t \in restored : receipt[t] # "none"

\* Tasks that the scan before a creation has passed.
Passed(p) == CASE pc[p] = "recheck" -> {t \in Tasks : t < at[p]}
               [] pc[p] \in Creating -> {t \in Documents : t # mine[p]}
               [] OTHER -> {}

\* Behind its scan, a command for an exclusive key finds no open task of that
\* key but those a failed reroute restored.
ScanInv ==
    \A p \in Procs : want[p] \in Keys \ FanoutKeys =>
        \A t \in Passed(p) : key[t] = want[p] =>
            receipt[t] \in {"done", "dead"} \/ t \in restored

IInv == /\ TypeOK /\ CallInv /\ MineInv /\ RestoredInv /\ ScanInv
        /\ TaskBehindReceipt /\ SuspendedStaysDead /\ ExclusiveUnlessRestored

USE DEF Tasks, Scanning, Creating, Steps, InCritical, Documents

-----------------------------------------------------------------------------
LEMMA InitIInv == Init => IInv
BY RunRoutingAssumption
   DEF Init, IInv, TypeOK, CallInv, MineInv, RestoredInv, ScanInv, Passed,
       TaskBehindReceipt, SuspendedStaysDead, ExclusiveUnlessRestored, Exclusive, Open

\* A call that ends, by a return, an error or a kill, leaves the tasks alone.
LEMMA LeaveIInv ==
  ASSUME IInv, NEW p \in Procs, NEW step \in {"idle", "restore"}, Leave(p, step),
         UNCHANGED <<run, restored>>, faults' \in 0..MaxFaults,
         suspended' \in {suspended, [suspended EXCEPT ![p] = 0]},
         step = "restore" => suspended'[p] # 0
  PROVE  IInv'
<1> USE RunRoutingAssumption DEF IInv, Leave, run
<1>1. TypeOK'
  <2>1. suspended' \in [Procs -> 0..MaxTasks] /\ pc' \in [Procs -> Steps]
    BY DEF TypeOK
  <2>2. lock' \in Procs \cup {NoProc}
    BY DEF TypeOK
  <2>3. \A q \in Procs : lock' = q <=> InCritical(q)'
    BY DEF TypeOK
  <2>4. want' \in [Procs -> Keys \cup {NoKey}] /\ at' \in [Procs -> 1..(MaxTasks + 1)]
        /\ mine' \in [Procs -> 0..MaxTasks]
    BY DEF TypeOK
  <2> QED BY <2>1, <2>2, <2>3, <2>4 DEF TypeOK
<1>2. CallInv' BY DEF TypeOK, CallInv
<1>3. MineInv' BY DEF TypeOK, MineInv
<1>4. RestoredInv' BY DEF TypeOK, RestoredInv
<1>5. ScanInv' BY DEF TypeOK, ScanInv, Passed
<1>6. TaskBehindReceipt' BY DEF TypeOK, TaskBehindReceipt
<1>7. SuspendedStaysDead' BY DEF TypeOK, SuspendedStaysDead
<1>8. ExclusiveUnlessRestored' BY DEF TypeOK, ExclusiveUnlessRestored, Exclusive, Open
<1> QED BY <1>1, <1>2, <1>3, <1>4, <1>5, <1>6, <1>7, <1>8

LEMMA ReturnErrorIInv ==
  ASSUME IInv, NEW p \in Procs, ReturnError(p), UNCHANGED <<run, restored>>,
         faults' \in 0..MaxFaults
  PROVE  IInv'
BY LeaveIInv DEF ReturnError, IInv, TypeOK

LEMMA StepIInv == IInv /\ [Next]_vars => IInv'
<1> SUFFICES ASSUME IInv, [Next]_vars PROVE IInv'
  OBVIOUS
<1> USE RunRoutingAssumption DEF IInv, run, locals
<1>1. ASSUME NEW p \in Procs, NEW k \in Keys \cup {NoKey},
             NEW s \in {"lockRoute", "lockAdd", "create"},
             Begin(p, k, s), s = "create" <=> k = NoKey
      PROVE  IInv'
  <2> USE <1>1 DEF Begin, Goto
  <2>1. TypeOK' BY DEF TypeOK
  <2>2. CallInv' BY DEF TypeOK, CallInv
  <2>3. MineInv' BY DEF TypeOK, MineInv
  <2>4. RestoredInv' BY DEF TypeOK, RestoredInv
  <2>5. ScanInv' BY DEF TypeOK, ScanInv, Passed
  <2>6. TaskBehindReceipt' BY DEF TypeOK, TaskBehindReceipt
  <2>7. SuspendedStaysDead' BY DEF TypeOK, SuspendedStaysDead
  <2>8. ExclusiveUnlessRestored' BY DEF TypeOK, ExclusiveUnlessRestored, Exclusive, Open
  <2> QED BY <2>1, <2>2, <2>3, <2>4, <2>5, <2>6, <2>7, <2>8
<1>2. ASSUME NEW p \in Procs, NEW t \in Tasks, NEW k \in Keys, Suspend(p, t, k) PROVE IInv'
  <2> USE <1>2 DEF Suspend, Goto
  <2>1. TypeOK'
    <3>1. receipt' \in [Tasks -> {"none", "open", "done", "dead"}]
      BY DEF TypeOK
    <3>2. suspended' \in [Procs -> 0..MaxTasks]
      <4>1. t \in 0..MaxTasks
        OBVIOUS
      <4>2. suspended' \in {suspended, [suspended EXCEPT ![p] = t]}
        OBVIOUS
      <4> QED BY <4>1, <4>2 DEF TypeOK
    <3>3. pc' \in [Procs -> Steps] /\ want' \in [Procs -> Keys \cup {NoKey}]
      BY DEF TypeOK
    <3>4. \A q \in Procs : lock' = q <=> InCritical(q)'
      BY DEF TypeOK
    <3> QED BY <3>1, <3>2, <3>3, <3>4 DEF TypeOK
  <2>2. CallInv' BY DEF TypeOK, CallInv
  <2>3. MineInv' BY DEF TypeOK, MineInv
  <2>4. RestoredInv' BY DEF TypeOK, RestoredInv
  <2>5. ScanInv' BY DEF TypeOK, ScanInv, Passed
  <2>6. TaskBehindReceipt' BY DEF TypeOK, TaskBehindReceipt
  <2>7. SuspendedStaysDead'
    <3>0. \A q \in Procs : suspended[q] # 0 => suspended[q] \in Tasks
      BY DEF TypeOK
    <3>1. CASE receipt[t] = "open"
      <4>1. /\ suspended' = [suspended EXCEPT ![p] = t]
            /\ receipt' = [receipt EXCEPT ![t] = "dead"]
        BY <3>1
      <4>2. \A q \in Procs : suspended[q] # 0 => suspended[q] # t
        BY <3>1 DEF SuspendedStaysDead
      <4>3. \A q \in Procs : suspended'[q] = IF q = p THEN t ELSE suspended[q]
        BY <4>1 DEF TypeOK
      <4>4. \A u \in Tasks : receipt'[u] = IF u = t THEN "dead" ELSE receipt[u]
        BY <4>1 DEF TypeOK
      <4> HIDE <1>2
      <4> QED BY <3>0, <4>2, <4>3, <4>4 DEF SuspendedStaysDead
    <3>2. CASE receipt[t] # "open"
      BY <3>2 DEF SuspendedStaysDead
    <3> QED BY <3>1, <3>2
  <2>8. ExclusiveUnlessRestored' BY DEF TypeOK, ExclusiveUnlessRestored, Exclusive, Open
  <2> QED BY <2>1, <2>2, <2>3, <2>4, <2>5, <2>6, <2>7, <2>8
<1>3. ASSUME NEW p \in Procs, Lock(p) PROVE IInv'
  <2> USE <1>3 DEF Lock
  <2>1. TypeOK' BY DEF TypeOK, CallInv
  <2>2. CallInv' BY DEF TypeOK, CallInv
  <2>3. MineInv' BY DEF TypeOK, MineInv
  <2>4. RestoredInv' BY DEF TypeOK, RestoredInv
  <2>5. ScanInv' BY DEF TypeOK, ScanInv, Passed, CallInv
  <2>6. TaskBehindReceipt' BY DEF TypeOK, TaskBehindReceipt
  <2>7. SuspendedStaysDead' BY DEF TypeOK, SuspendedStaysDead
  <2>8. ExclusiveUnlessRestored' BY DEF TypeOK, ExclusiveUnlessRestored, Exclusive, Open
  <2> QED BY <2>1, <2>2, <2>3, <2>4, <2>5, <2>6, <2>7, <2>8
<1>4. ASSUME NEW p \in Procs, ScanSkips(p) PROVE IInv'
  <2> USE <1>4 DEF ScanSkips
  <2>1. TypeOK' BY DEF TypeOK
  <2>2. CallInv' BY DEF TypeOK, CallInv
  <2>3. MineInv' BY DEF TypeOK, MineInv
  <2>4. RestoredInv' BY DEF TypeOK, RestoredInv
  <2>5. ScanInv' BY DEF TypeOK, ScanInv, Passed
  <2>6. TaskBehindReceipt' BY DEF TypeOK, TaskBehindReceipt
  <2>7. SuspendedStaysDead' BY DEF TypeOK, SuspendedStaysDead
  <2>8. ExclusiveUnlessRestored' BY DEF TypeOK, ExclusiveUnlessRestored, Exclusive, Open
  <2> QED BY <2>1, <2>2, <2>3, <2>4, <2>5, <2>6, <2>7, <2>8
<1>5. ASSUME NEW p \in Procs, ScanFinds(p) PROVE IInv'
  <2>1. CASE want[p] \notin FanoutKeys
    BY <1>5, <2>1, ReturnErrorIInv DEF ScanFinds, TypeOK
  <2>2. CASE want[p] \in FanoutKeys
    <3>0. pc[p] \in Scanning /\ ScanIsOver(p) /\ UNCHANGED <<run, restored, faults>>
      BY <1>5, <2>2 DEF ScanFinds
    <3> USE <2>2, <3>0 DEF ScanIsOver
    <3>1. TypeOK' BY DEF TypeOK
    <3>2. CallInv' BY DEF TypeOK, CallInv
    <3>3. MineInv' BY DEF TypeOK, MineInv
    <3>4. RestoredInv' BY DEF TypeOK, RestoredInv
    <3>5. ScanInv' BY DEF TypeOK, ScanInv, Passed
    <3>6. TaskBehindReceipt' BY DEF TypeOK, TaskBehindReceipt
    <3>7. SuspendedStaysDead' BY DEF TypeOK, SuspendedStaysDead
    <3>8. ExclusiveUnlessRestored' BY DEF TypeOK, ExclusiveUnlessRestored, Exclusive, Open
    <3> QED BY <3>1, <3>2, <3>3, <3>4, <3>5, <3>6, <3>7, <3>8
  <2> QED BY <2>1, <2>2
<1>6. ASSUME NEW p \in Procs, ScanMisses(p) PROVE IInv'
  BY <1>6, ReturnErrorIInv DEF ScanMisses, TypeOK
<1>7. ASSUME NEW p \in Procs, ScanEnds(p) PROVE IInv'
  <2> USE <1>7 DEF ScanEnds, ScanIsOver
  <2>1. TypeOK' BY DEF TypeOK, CallInv
  <2>2. CallInv' BY DEF TypeOK, CallInv
  <2>3. MineInv' BY DEF TypeOK, MineInv
  <2>4. RestoredInv' BY DEF TypeOK, RestoredInv
  <2>5. ScanInv' BY DEF TypeOK, ScanInv, Passed
  <2>6. TaskBehindReceipt' BY DEF TypeOK, TaskBehindReceipt
  <2>7. SuspendedStaysDead' BY DEF TypeOK, SuspendedStaysDead
  <2>8. ExclusiveUnlessRestored' BY DEF TypeOK, ExclusiveUnlessRestored, Exclusive, Open
  <2> QED BY <2>1, <2>2, <2>3, <2>4, <2>5, <2>6, <2>7, <2>8
<1>8. ASSUME NEW p \in Procs, Select(p) PROVE IInv'
  <2>1. CASE ReturnError(p)
    BY <1>8, <2>1, ReturnErrorIInv DEF Select, TypeOK
  <2>2. CASE pc' = [pc EXCEPT ![p] = "recheck"] /\ UNCHANGED <<lock, locals>>
    <3> USE <1>8, <2>2 DEF Select
    <3>1. TypeOK' BY DEF TypeOK, CallInv
    <3>2. CallInv' BY DEF TypeOK, CallInv
    <3>3. MineInv' BY DEF TypeOK, MineInv
    <3>4. RestoredInv' BY DEF TypeOK, RestoredInv
    <3>5. ScanInv'
      <4>1. Passed(p)' = {}
        <5>1. pc'[p] = "recheck" /\ at'[p] = 1
          BY DEF TypeOK, CallInv
        <5>2. {t \in Tasks : t < 1} = {}
          OBVIOUS
        <5> QED BY <5>1, <5>2 DEF Passed
      <4>2. \A q \in Procs : q # p => Passed(q)' = Passed(q)
        BY DEF TypeOK, Passed
      <4> QED BY <4>1, <4>2 DEF ScanInv
    <3>6. TaskBehindReceipt' BY DEF TypeOK, TaskBehindReceipt
    <3>7. SuspendedStaysDead' BY DEF TypeOK, SuspendedStaysDead
    <3>8. ExclusiveUnlessRestored' BY DEF TypeOK, ExclusiveUnlessRestored, Exclusive, Open
    <3> QED BY <3>1, <3>2, <3>3, <3>4, <3>5, <3>6, <3>7, <3>8
  <2> QED BY <1>8, <2>1, <2>2 DEF Select
<1>9. ASSUME NEW p \in Procs, CreateTask(p) PROVE IInv'
  <2> USE <1>9 DEF CreateTask, Goto
  <2>1. TypeOK' BY DEF TypeOK
  <2>2. CallInv' BY DEF TypeOK, CallInv
  <2>3. MineInv' BY DEF TypeOK, MineInv, TaskBehindReceipt
  <2>4. RestoredInv' BY DEF TypeOK, RestoredInv
  <2>5. ScanInv' BY DEF TypeOK, ScanInv, Passed, CallInv, MineInv
  <2>6. TaskBehindReceipt' BY DEF TypeOK, TaskBehindReceipt
  <2>7. SuspendedStaysDead' BY DEF TypeOK, SuspendedStaysDead
  <2>8. ExclusiveUnlessRestored' BY DEF TypeOK, ExclusiveUnlessRestored, Exclusive, Open, TaskBehindReceipt
  <2> QED BY <2>1, <2>2, <2>3, <2>4, <2>5, <2>6, <2>7, <2>8
<1>10. ASSUME NEW p \in Procs, CreateTaskFails(p) PROVE IInv'
  BY <1>10, ReturnErrorIInv DEF CreateTaskFails, TypeOK
<1>11. ASSUME NEW p \in Procs, CreateMessage(p) PROVE IInv'
  <2> USE <1>11 DEF CreateMessage, Goto
  <2>0. mine[p] \in Tasks
    BY DEF TypeOK, MineInv
  <2>1. TypeOK' BY <2>0 DEF TypeOK
  <2>2. CallInv' BY DEF TypeOK, CallInv
  <2>3. MineInv' BY DEF TypeOK, MineInv, CallInv
  <2>4. RestoredInv' BY DEF TypeOK, RestoredInv
  <2>5. ScanInv' BY DEF TypeOK, ScanInv, Passed
  <2>6. TaskBehindReceipt' BY <2>0 DEF TypeOK, TaskBehindReceipt
  <2>7. SuspendedStaysDead' BY DEF TypeOK, SuspendedStaysDead
  <2>8. ExclusiveUnlessRestored' BY DEF TypeOK, ExclusiveUnlessRestored, Exclusive, Open
  <2> QED BY <2>1, <2>2, <2>3, <2>4, <2>5, <2>6, <2>7, <2>8
<1>12. ASSUME NEW p \in Procs, CreateReceipt(p) PROVE IInv'
  <2> USE <1>12 DEF CreateReceipt, Goto
  <2>0. mine[p] \in Tasks /\ key[mine[p]] = want[p] /\ receipt[mine[p]] = "none"
    BY DEF TypeOK, MineInv
  <2>1. TypeOK' BY <2>0 DEF TypeOK, MineInv
  <2>2. CallInv' BY <2>0 DEF TypeOK, CallInv
  <2>3. MineInv' BY <2>0 DEF TypeOK, MineInv
  <2>4. RestoredInv' BY <2>0 DEF TypeOK, RestoredInv, MineInv
  <2>5. ScanInv' BY <2>0 DEF TypeOK, ScanInv, Passed, MineInv
  <2>6. TaskBehindReceipt' BY <2>0 DEF TypeOK, TaskBehindReceipt, MineInv
  <2>7. SuspendedStaysDead' BY <2>0 DEF TypeOK, SuspendedStaysDead, MineInv
  <2>8. ExclusiveUnlessRestored'
    <3>1. \A t \in Tasks : Exclusive(mine[p], t) /\ Open(t) => t \in restored
      BY <2>0 DEF TypeOK, ScanInv, Passed, TaskBehindReceipt, Exclusive, Open
    <3>2. \A t \in Tasks : t # mine[p] => receipt'[t] = receipt[t]
      BY <2>0 DEF TypeOK
    <3> QED BY <2>0, <3>1, <3>2 DEF ExclusiveUnlessRestored, Exclusive, Open
  <2> QED BY <2>1, <2>2, <2>3, <2>4, <2>5, <2>6, <2>7, <2>8
<1>13. ASSUME NEW p \in Procs, Dispatch(p) PROVE IInv'
  BY <1>13, LeaveIInv DEF Dispatch, TypeOK
<1>14. ASSUME NEW p \in Procs, Restore(p) PROVE IInv'
  <2> USE <1>14 DEF Restore, Goto
  <2>0. suspended[p] \in Tasks /\ receipt[suspended[p]] = "dead"
    BY DEF TypeOK, CallInv, SuspendedStaysDead
  <2>1. TypeOK'
    <3>0. receipt' = [receipt EXCEPT ![suspended[p]] = "open"]
          /\ restored' = restored \cup {suspended[p]}
      BY <2>0
    <3>1. receipt' \in [Tasks -> {"none", "open", "done", "dead"}] /\ restored' \subseteq Tasks
      BY <2>0, <3>0 DEF TypeOK
    <3>2. suspended' \in [Procs -> 0..MaxTasks] /\ pc' \in [Procs -> Steps]
      BY DEF TypeOK
    <3>3. \A q \in Procs : lock' = q <=> InCritical(q)'
      BY DEF TypeOK
    <3> QED BY <3>1, <3>2, <3>3 DEF TypeOK
  <2>2. CallInv' BY <2>0 DEF TypeOK, CallInv
  <2>3. MineInv' BY <2>0 DEF TypeOK, MineInv, SuspendedStaysDead, CallInv
  <2>4. RestoredInv'
    <3>1. receipt' = [receipt EXCEPT ![suspended[p]] = "open"]
          /\ restored' = restored \cup {suspended[p]}
      BY <2>0
    <3> QED BY <2>0, <3>1 DEF TypeOK, RestoredInv
  <2>5. ScanInv' BY <2>0 DEF TypeOK, ScanInv, Passed, MineInv
  <2>6. TaskBehindReceipt' BY <2>0 DEF TypeOK, TaskBehindReceipt, SuspendedStaysDead
  <2>7. SuspendedStaysDead' BY <2>0 DEF TypeOK, SuspendedStaysDead
  <2>8. ExclusiveUnlessRestored' BY <2>0 DEF TypeOK, ExclusiveUnlessRestored, Exclusive, Open
  <2> QED BY <2>1, <2>2, <2>3, <2>4, <2>5, <2>6, <2>7, <2>8
<1>15. ASSUME NEW p \in Procs, Fail(p) PROVE IInv'
  BY <1>15, ReturnErrorIInv DEF Fail, TypeOK
<1>16. ASSUME NEW p \in Procs, Kill(p) PROVE IInv'
  <2>1. faults' \in 0..MaxFaults
    BY <1>16 DEF Kill, TypeOK
  <2> QED BY <1>16, <2>1, LeaveIInv DEF Kill
<1>17. ASSUME NEW t \in Tasks, TaskDone(t) PROVE IInv'
  <2> USE <1>17 DEF TaskDone
  <2>1. TypeOK' BY DEF TypeOK
  <2>2. CallInv' BY DEF TypeOK, CallInv
  <2>3. MineInv' BY DEF TypeOK, MineInv
  <2>4. RestoredInv' BY DEF TypeOK, RestoredInv
  <2>5. ScanInv' BY DEF TypeOK, ScanInv, Passed
  <2>6. TaskBehindReceipt' BY DEF TypeOK, TaskBehindReceipt
  <2>7. SuspendedStaysDead' BY DEF TypeOK, SuspendedStaysDead
  <2>8. ExclusiveUnlessRestored' BY DEF TypeOK, ExclusiveUnlessRestored, Exclusive, Open
  <2> QED BY <2>1, <2>2, <2>3, <2>4, <2>5, <2>6, <2>7, <2>8
<1>18. CASE UNCHANGED vars
  <2> USE <1>18 DEF vars
  <2>1. TypeOK' BY DEF TypeOK
  <2>2. CallInv' BY DEF TypeOK, CallInv
  <2>3. MineInv' BY DEF TypeOK, MineInv
  <2>4. RestoredInv' BY DEF TypeOK, RestoredInv
  <2>5. ScanInv' BY DEF TypeOK, ScanInv, Passed
  <2>6. TaskBehindReceipt' BY DEF TypeOK, TaskBehindReceipt
  <2>7. SuspendedStaysDead' BY DEF TypeOK, SuspendedStaysDead
  <2>8. ExclusiveUnlessRestored' BY DEF TypeOK, ExclusiveUnlessRestored, Exclusive, Open
  <2> QED BY <2>1, <2>2, <2>3, <2>4, <2>5, <2>6, <2>7, <2>8
<1>19. ASSUME NEW p \in Procs, RouteChildTask(p) \/ AddChildTask(p) PROVE IInv'
  BY <1>1, <1>19 DEF RouteChildTask, AddChildTask
<1>20. ASSUME NEW p \in Procs, NEW t \in Tasks,
              RerouteBlockerTask(p, t) \/ CreatePartialReplanTask(p, t)
       PROVE  IInv'
  BY <1>2, <1>20 DEF RerouteBlockerTask, CreatePartialReplanTask, TypeOK
<1>21. ASSUME NEW p \in Procs, Scan(p) \/ Create(p) PROVE IInv'
  BY <1>4, <1>5, <1>6, <1>7, <1>9, <1>10, <1>11, <1>12, <1>13, <1>21 DEF Scan, Create
<1> QED
  BY <1>3, <1>8, <1>14, <1>15, <1>16, <1>17, <1>18, <1>19, <1>20, <1>21 DEF Next

-----------------------------------------------------------------------------
\* The inductive invariant of routing, for every value of the constants.
THEOREM InductiveInvariant == Spec => []IInv
<1> QED BY InitIInv, StepIInv, PTL DEF Spec

\* Every variable keeps its type, and the route lock belongs to the command
\* between LockRunRoute and its unlock.
THEOREM TypeCorrect == Spec => []TypeOK
<1>1. IInv => TypeOK
  BY DEF IInv
<1> QED BY <1>1, InductiveInvariant, PTL

\* A class that may not fan out has one open task per key, but for the tasks
\* a failed reroute restored.
THEOREM DuplicatePolicy == Spec => []ExclusiveUnlessRestored
<1>1. IInv => ExclusiveUnlessRestored
  BY DEF IInv
<1> QED BY <1>1, InductiveInvariant, PTL

\* A receipt comes after its task's document and message.
THEOREM WrittenInOrder == Spec => []TaskBehindReceipt
<1>1. IInv => TaskBehindReceipt
  BY DEF IInv
<1> QED BY <1>1, InductiveInvariant, PTL

\* A suspended receipt stays dead and belongs to one reroute.
THEOREM SuspensionOwned == Spec => []SuspendedStaysDead
<1>1. IInv => SuspendedStaysDead
  BY DEF IInv
<1> QED BY <1>1, InductiveInvariant, PTL

\* A half-created task is never duplicated.
THEOREM NoDuplicateOfLostTask == Spec => LostTaskBlocksKey
<1> DEFINE Blocks == \A t \in Documents :
         receipt[t] = "none" /\ key[t] \in Keys \ FanoutKeys /\ next' # next
             => key'[next] # key[t]
<1>1. IInv /\ [Next]_vars => [Blocks]_vars
  <2> SUFFICES ASSUME IInv, Next, next' # next PROVE Blocks
    BY DEF vars
  <2>1. PICK p \in Procs : CreateTask(p)
    BY DEF Next, RouteChildTask, AddChildTask, RerouteBlockerTask, CreatePartialReplanTask,
           Begin, Suspend, Lock, Scan, ScanSkips, ScanFinds, ScanMisses, ScanEnds,
           ScanIsOver, Select, Create, CreateTaskFails, CreateMessage, CreateReceipt,
           Dispatch, Restore, Fail, Kill, TaskDone, run, ReturnError, Leave
  <2>2. next \in Tasks /\ key' = [key EXCEPT ![next] = want[p]]
    BY <2>1, RunRoutingAssumption DEF CreateTask, IInv, TypeOK
  <2>3. key'[next] = want[p]
    BY <2>2 DEF IInv, TypeOK
  <2>4. pc[p] = "create" /\ mine[p] = 0
    BY <2>1 DEF CreateTask, Goto, IInv, MineInv
  <2> QED BY <2>3, <2>4 DEF IInv, ScanInv, Passed, RestoredInv
<1> QED BY <1>1, InductiveInvariant, PTL DEF Spec, LostTaskBlocksKey

\* A reroute that is not killed ends with its task or a replacement.
THEOREM NoWorkLost == Spec => RerouteKeepsWork
<1> DEFINE Keeps == \A p \in Procs :
         suspended[p] # 0 /\ suspended'[p] = 0 /\ faults' = faults
             => \/ receipt'[suspended[p]] = "open"
                \/ mine[p] # 0 /\ receipt[mine[p]] # "none"
<1>1. IInv /\ [Next]_vars => [Keeps]_vars
  <2> SUFFICES ASSUME IInv, Next, NEW p \in Procs,
                      suspended[p] # 0, suspended'[p] = 0, faults' = faults
               PROVE  \/ receipt'[suspended[p]] = "open"
                      \/ mine[p] # 0 /\ receipt[mine[p]] # "none"
    BY DEF vars
  <2>1. Dispatch(p) \/ Restore(p)
    BY DEF Next, RouteChildTask, AddChildTask, RerouteBlockerTask, CreatePartialReplanTask,
           Begin, Suspend, Lock, Scan, ScanSkips, ScanFinds, ScanMisses, ScanEnds,
           ScanIsOver, Select, Create, CreateTask, CreateTaskFails, CreateMessage,
           CreateReceipt, Dispatch, Restore, Fail, Kill, TaskDone, locals, ReturnError,
           IInv, TypeOK
  <2>2. CASE Dispatch(p)
    BY <2>2 DEF Dispatch, IInv, MineInv
  <2>3. CASE Restore(p)
    BY <2>3, RunRoutingAssumption DEF Restore, IInv, TypeOK, SuspendedStaysDead
  <2> QED BY <2>1, <2>2, <2>3
<1> QED BY <1>1, InductiveInvariant, PTL DEF Spec, RerouteKeepsWork
=============================================================================
