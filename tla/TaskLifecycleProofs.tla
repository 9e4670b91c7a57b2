------------------------- MODULE TaskLifecycleProofs -------------------------
(***************************************************************************)
(* A task is completed once, a rerouted task stays dead, and the commands  *)
(* do to the receipt what the store offers, for any number of processes,   *)
(* commands and deaths.                                                    *)
(***************************************************************************)
EXTENDS TaskLifecycle, TLAPS

Delivered == \A p \in Procs : pc[p] # "idle" => receipt # NoReceipt

\* Only a suspend has something saved, and a folder to move back to until the
\* receipt is dead.
Suspending == {"clear", "toDead", "route", "revive", "reapply"}

SavedJob(p) ==
    /\ pc[p] \in Suspending \ {"route"} => saved[p].state # "none"
    /\ pc[p] = "route" => saved[p] = NothingSaved \/ saved[p].state # "none"
    /\ pc[p] \notin Suspending => saved[p] = NothingSaved

\* The process that made the receipt dead and may still revive it.
Suspended(p) == pc[p] \in {"route", "revive"} /\ saved[p] # NothingSaved

SuspendedInv ==
    /\ \A p \in Procs : SavedJob(p)
    /\ \A p \in Procs : Suspended(p) => Has("dead") /\ ~rerouted
    /\ \A p, q \in Procs : Suspended(p) /\ Suspended(q) => p = q

\* The process that moved the receipt to done and has not logged it.
CompletedInv ==
    /\ \A p \in Procs : At(p, "doneEvent") => Has("done") /\ events["done"] = 0
    /\ \A p, q \in Procs : At(p, "doneEvent") /\ At(q, "doneEvent") => p = q
    /\ \A p \in Procs : At(p, "handoff") => events["done"] = 1

IInv == /\ TypeOK /\ Delivered /\ SuspendedInv /\ CompletedInv
        /\ CompletedOnce /\ ReroutedStaysDead

-----------------------------------------------------------------------------
(***************************************************************************)
(* The calls.                                                              *)
(***************************************************************************)
LEMMA NothingSavedTyped == NothingSaved \in Snapshot /\ NothingSaved.state = "none"
BY DEF NothingSaved, Snapshot

\* p goes to its next call, or returns.
Moves(p, call) ==
    /\ pc' = [pc EXCEPT ![p] = call]
    /\ verb' \in [Procs -> AllVerbs] /\ saved' \in [Procs -> Snapshot]
    /\ \A q \in Procs \ {p} : saved'[q] = saved[q]

LEMMA GoingOn ==
  ASSUME TypeOK, NEW p \in Procs, NEW call, Goto(p, call)
  PROVE  Moves(p, call) /\ saved'[p] = saved[p]
BY DEF TypeOK, Goto, Moves

LEMMA Returning ==
  ASSUME TypeOK, NEW p \in Procs, Return(p)
  PROVE  Moves(p, "idle") /\ saved'[p] = NothingSaved
BY NothingSavedTyped DEF TypeOK, Return, Moves, AllVerbs

LEMMA MovesFacts ==
  ASSUME TypeOK, NEW p \in Procs, NEW call \in Calls \cup {"idle"}, Moves(p, call)
  PROVE  /\ pc' \in [Procs -> Calls \cup {"idle"}] /\ pc'[p] = call
         /\ \A q \in Procs \ {p} : pc'[q] = pc[q] /\ saved'[q] = saved[q]
BY DEF TypeOK, Moves

LEMMA ReceiptFacts ==
  ASSUME TypeOK, receipt # NoReceipt
  PROVE  receipt \in Receipt /\ receipt.state \in Folders /\ Valid(receipt)
BY DEF TypeOK, Receipt

LEMMA UpdatedFacts ==
  ASSUME TypeOK, receipt # NoReceipt, NEW effect \in DoneEffects, Valid(Updated(receipt, effect))
  PROVE  LET r == Updated(receipt, effect) IN
         r \in {v \in Receipt : Valid(v)} /\ r.state = receipt.state /\ r # NoReceipt
<1>1. DoneAfter(receipt, effect) \in {"nil", "set"}
  BY ReceiptFacts DEF DoneAfter, DoneEffects, Receipt
<1>2. Updated(receipt, effect) \in Receipt
  BY <1>1, ReceiptFacts DEF Updated, Receipt
<1> QED BY <1>2, TaskLifecycleAssumption DEF Updated

LEMMA MovedFacts ==
  ASSUME TypeOK, receipt # NoReceipt, NEW to \in Folders, Valid(Moved(receipt, to))
  PROVE  LET r == Moved(receipt, to) IN
         r \in {v \in Receipt : Valid(v)} /\ r.state = to /\ r # NoReceipt
<1>1. Moved(receipt, to) \in Receipt /\ Moved(receipt, to).state = to
  BY ReceiptFacts DEF Moved, Receipt
<1> QED BY <1>1, TaskLifecycleAssumption

\* What an UpdateReceipt and a MoveReceipt do to the process and the receipt.
LEMMA UpdateFacts ==
  ASSUME TypeOK, receipt # NoReceipt, NEW p \in Procs, NEW effect \in DoneEffects,
         NEW claim \in BOOLEAN, NEW next, Update(p, effect, claim, next)
  PROVE  /\ receipt' \in {r \in Receipt : Valid(r)} /\ receipt'.state = receipt.state
         /\ receipt' # NoReceipt /\ claimed' \in BOOLEAN /\ UNCHANGED <<record, bounds>>
         /\ \/ Moves(p, next) /\ saved'[p] = saved[p]
            \/ Moves(p, "idle") /\ saved'[p] = NothingSaved
<1>1. CASE Valid(Updated(receipt, effect))
  BY <1>1, UpdatedFacts, GoingOn DEF Update
<1>2. CASE ~Valid(Updated(receipt, effect))
  BY <1>2, ReceiptFacts, Returning DEF Update, TypeOK
<1> QED BY <1>1, <1>2

LEMMA MoveFacts ==
  ASSUME TypeOK, receipt # NoReceipt, NEW p \in Procs, NEW from, NEW to \in Folders,
         NEW next, Move(p, from, to, next)
  PROVE  /\ receipt' \in {r \in Receipt : Valid(r)} /\ receipt' # NoReceipt
         /\ UNCHANGED <<claimed, record, bounds>>
         /\ \/ /\ receipt.state = from /\ receipt'.state = to /\ Moves(p, next)
               /\ saved'[p] = saved[p] \/ (next = "idle" /\ saved'[p] = NothingSaved)
            \/ UNCHANGED receipt /\ Moves(p, "idle") /\ saved'[p] = NothingSaved
<1>1. CASE receipt.state = from /\ Valid(Moved(receipt, to))
  BY <1>1, MovedFacts, GoingOn, Returning DEF Move, GotoOrReturn
<1>2. CASE ~(receipt.state = from /\ Valid(Moved(receipt, to)))
  BY <1>2, ReceiptFacts, Returning DEF Move, TypeOK
<1> QED BY <1>1, <1>2

-----------------------------------------------------------------------------
(***************************************************************************)
(* Steps that leave the receipt in its folder and log nothing.             *)
(***************************************************************************)
LEMMA StayingStep ==
  ASSUME IInv, NEW p \in Procs, receipt # NoReceipt,
         receipt' \in {r \in Receipt : Valid(r)}, receipt'.state = receipt.state,
         receipt' # NoReceipt, claimed' \in BOOLEAN,
         UNCHANGED <<events, handoff, rerouted>>, killed' \in BOOLEAN,
         commands' \in 0..MaxCommands, deaths' \in 0..MaxDeaths,
         NEW call \in Calls \cup {"idle"}, Moves(p, call),
         call \notin {"doneEvent", "handoff"}, SavedJob(p)',
         Suspended(p)' => Suspended(p)
  PROVE  IInv'
<1>1. /\ pc' \in [Procs -> Calls \cup {"idle"}] /\ pc'[p] = call
      /\ \A q \in Procs \ {p} : pc'[q] = pc[q] /\ saved'[q] = saved[q]
  BY MovesFacts DEF IInv
<1>2. TypeOK'
  BY <1>1 DEF IInv, TypeOK, Moves
<1>3. \A s : Has(s)' <=> Has(s)
  BY DEF Has
<1>4. Delivered'
  BY DEF Delivered
<1>5. SuspendedInv'
  BY <1>1, <1>3 DEF IInv, SuspendedInv, SavedJob, Suspended
<1>6. CompletedInv'
  BY <1>1, <1>3 DEF IInv, CompletedInv, At
<1>7. CompletedOnce' /\ ReroutedStaysDead'
  BY <1>3 DEF IInv, CompletedOnce, ReroutedStaysDead
<1> QED BY <1>2, <1>4, <1>5, <1>6, <1>7 DEF IInv

\* A command that returns and moved nothing.
LEMMA ReturningStep ==
  ASSUME IInv, NEW p \in Procs, receipt # NoReceipt,
         receipt' \in {r \in Receipt : Valid(r)}, receipt'.state = receipt.state,
         receipt' # NoReceipt, claimed' \in BOOLEAN,
         UNCHANGED <<events, handoff, rerouted>>, killed' \in BOOLEAN,
         commands' \in 0..MaxCommands, deaths' \in 0..MaxDeaths,
         Moves(p, "idle"), saved'[p] = NothingSaved
  PROVE  IInv'
<1>1. pc'[p] = "idle"
  BY MovesFacts DEF IInv
<1>2. SavedJob(p)' /\ ~Suspended(p)'
  BY <1>1 DEF SavedJob, Suspended, Suspending
<1> QED BY <1>2, StayingStep

\* A command that goes on and has nothing saved, before and after.
LEMMA PlainStep ==
  ASSUME IInv, NEW p \in Procs, receipt # NoReceipt, pc[p] \notin Suspending,
         receipt' \in {r \in Receipt : Valid(r)}, receipt'.state = receipt.state,
         receipt' # NoReceipt, claimed' \in BOOLEAN,
         UNCHANGED <<events, handoff, rerouted>>, killed' \in BOOLEAN,
         commands' \in 0..MaxCommands, deaths' \in 0..MaxDeaths,
         NEW call \in Calls \cup {"idle"}, Moves(p, call), saved'[p] = saved[p],
         call \notin (Suspending \ {"route"}) \cup {"doneEvent", "handoff"}
  PROVE  IInv'
<1>1. pc'[p] = call /\ saved[p] = NothingSaved
  BY MovesFacts DEF IInv, SuspendedInv, SavedJob
<1>2. SavedJob(p)' /\ ~Suspended(p)'
  BY <1>1 DEF SavedJob, Suspended
<1> QED BY <1>2, StayingStep

LEMMA Unchanged ==
  ASSUME IInv, NEW p \in Procs, pc[p] # "idle"
  PROVE  /\ receipt # NoReceipt /\ receipt \in {r \in Receipt : Valid(r)}
         /\ SavedJob(p) /\ claimed \in BOOLEAN /\ killed \in BOOLEAN
         /\ commands \in 0..MaxCommands /\ deaths \in 0..MaxDeaths
BY DEF IInv, TypeOK, Delivered, SuspendedInv

\* A step that updates the receipt, or reads it only.
LEMMA UpdateStep ==
  ASSUME IInv, NEW p \in Procs, pc[p] # "idle", pc[p] \notin Suspending,
         NEW effect \in DoneEffects, NEW claim \in BOOLEAN,
         NEW next \in Calls \cup {"idle"}, Update(p, effect, claim, next),
         next \notin Suspending \cup {"doneEvent", "handoff"}
  PROVE  IInv'
<1>1. receipt # NoReceipt /\ TypeOK
  BY Unchanged DEF IInv
<1>2. /\ receipt' \in {r \in Receipt : Valid(r)} /\ receipt'.state = receipt.state
      /\ receipt' # NoReceipt /\ claimed' \in BOOLEAN /\ UNCHANGED <<record, bounds>>
      /\ \/ Moves(p, next) /\ saved'[p] = saved[p]
         \/ Moves(p, "idle") /\ saved'[p] = NothingSaved
  BY <1>1, UpdateFacts
<1>3. /\ UNCHANGED <<events, handoff, rerouted>> /\ killed' \in BOOLEAN
      /\ commands' \in 0..MaxCommands /\ deaths' \in 0..MaxDeaths
  BY <1>2, Unchanged DEF record, bounds
<1> QED BY <1>1, <1>2, <1>3, PlainStep, ReturningStep

LEMMA ReadingStep ==
  ASSUME IInv, NEW p \in Procs, pc[p] # "idle", pc[p] \notin Suspending,
         UNCHANGED <<receipt, claimed, record, bounds>>,
         NEW next \in Calls \cup {"idle"}, GotoOrReturn(p, next) \/ Goto(p, next),
         next \notin (Suspending \ {"route"}) \cup {"doneEvent", "handoff"}
  PROVE  IInv'
<1>1. /\ UNCHANGED <<receipt, events, handoff, rerouted>> /\ killed' \in BOOLEAN
      /\ claimed' \in BOOLEAN
      /\ commands' \in 0..MaxCommands /\ deaths' \in 0..MaxDeaths
  BY Unchanged DEF record, bounds
<1>2. CASE Goto(p, next)
  <2>1. Moves(p, next) /\ saved'[p] = saved[p]
    BY <1>2, GoingOn DEF IInv
  <2> QED BY <1>1, <2>1, Unchanged, PlainStep
<1>3. CASE Return(p)
  <2>1. Moves(p, "idle") /\ saved'[p] = NothingSaved
    BY <1>3, Returning DEF IInv
  <2> QED BY <1>1, <2>1, Unchanged, ReturningStep
<1> QED BY <1>2, <1>3 DEF GotoOrReturn

-----------------------------------------------------------------------------
(***************************************************************************)
(* Steps that move the receipt.                                            *)
(***************************************************************************)

\* While the receipt is in unread/ or active/ nobody has completed or
\* rerouted the task.
LEMMA OpenFacts ==
  ASSUME IInv, receipt # NoReceipt, receipt.state \in {"unread", "active"}
  PROVE  /\ \A p \in Procs : ~Suspended(p) /\ ~At(p, "doneEvent") /\ ~At(p, "handoff")
         /\ ~rerouted /\ ~handoff /\ events["done"] = 0
<1>1. ~Has("dead") /\ ~Has("done")
  BY DEF Has
<1>2. events["done"] \in Nat
  BY DEF IInv, TypeOK
<1> QED BY <1>1, <1>2 DEF IInv, SuspendedInv, CompletedInv, CompletedOnce, ReroutedStaysDead

LEMMA OpenStep ==
  ASSUME IInv, NEW p \in Procs, receipt # NoReceipt, receipt.state \in {"unread", "active"},
         receipt' \in {r \in Receipt : Valid(r)}, receipt' # NoReceipt,
         UNCHANGED <<claimed, record, bounds>>,
         NEW call \in Calls \cup {"idle"}, Moves(p, call), SavedJob(p)', call # "handoff",
         call = "doneEvent" => receipt'.state = "done",
         Suspended(p)' => receipt'.state = "dead"
  PROVE  IInv'
<1>1. /\ pc' \in [Procs -> Calls \cup {"idle"}] /\ pc'[p] = call
      /\ \A q \in Procs \ {p} : pc'[q] = pc[q] /\ saved'[q] = saved[q]
  BY MovesFacts DEF IInv
<1>2. UNCHANGED <<events, handoff, rerouted, killed, commands, deaths>>
  BY DEF record, bounds
<1>3. TypeOK'
  BY <1>1, <1>2 DEF IInv, TypeOK, Moves
<1>4. Delivered'
  BY DEF Delivered
<1>5. SuspendedInv'
  <2>1. \A q \in Procs : Suspended(q)' => q = p
    BY <1>1, OpenFacts DEF Suspended
  <2>2. \A q \in Procs : SavedJob(q)'
    BY <1>1 DEF IInv, SuspendedInv, SavedJob
  <2> QED BY <1>2, <2>1, <2>2, OpenFacts DEF SuspendedInv, Has
<1>6. CompletedInv'
  <2>1. \A q \in Procs : At(q, "doneEvent")' => q = p
    BY <1>1, OpenFacts DEF At
  <2>2. \A q \in Procs : ~At(q, "handoff")'
    BY <1>1, OpenFacts DEF At
  <2>3. At(p, "doneEvent")' => Has("done")'
    BY <1>1 DEF At, Has
  <2> QED BY <1>2, <2>1, <2>2, <2>3, OpenFacts DEF CompletedInv
<1>7. CompletedOnce' /\ ReroutedStaysDead'
  BY <1>2, OpenFacts DEF CompletedOnce, ReroutedStaysDead
<1> QED BY <1>3, <1>4, <1>5, <1>6, <1>7 DEF IInv

\* The moves of read, done and down.
LEMMA MoveStep ==
  ASSUME IInv, NEW p \in Procs, pc[p] # "idle", pc[p] \notin Suspending,
         NEW from \in {"unread", "active"}, NEW to \in Folders,
         NEW next \in Calls \cup {"idle"}, Move(p, from, to, next),
         next \notin Suspending \cup {"handoff"}, next = "doneEvent" => to = "done"
  PROVE  IInv'
<1>1. receipt # NoReceipt /\ TypeOK /\ saved[p] = NothingSaved
  BY Unchanged DEF IInv, SavedJob
<1>2. /\ receipt' \in {r \in Receipt : Valid(r)} /\ receipt' # NoReceipt
      /\ UNCHANGED <<claimed, record, bounds>>
      /\ \/ /\ receipt.state = from /\ receipt'.state = to /\ Moves(p, next)
            /\ saved'[p] = saved[p] \/ (next = "idle" /\ saved'[p] = NothingSaved)
         \/ UNCHANGED receipt /\ Moves(p, "idle") /\ saved'[p] = NothingSaved
  BY <1>1, MoveFacts
<1>3. CASE receipt.state = from /\ receipt'.state = to /\ Moves(p, next) /\ saved'[p] = NothingSaved
  <2>1. pc'[p] = next
    BY <1>1, <1>3, MovesFacts
  <2>2. SavedJob(p)' /\ ~Suspended(p)'
    BY <1>3, <2>1 DEF SavedJob, Suspended, Suspending
  <2> QED BY <1>1, <1>2, <1>3, <2>2, OpenStep
<1>4. CASE UNCHANGED receipt /\ Moves(p, "idle") /\ saved'[p] = NothingSaved
  BY <1>1, <1>2, <1>4, Unchanged, ReturningStep DEF record, bounds
<1> QED BY <1>1, <1>2, <1>3, <1>4

LEMMA ToDeadStep ==
  ASSUME IInv, NEW p \in Procs, ToDead(p)
  PROVE  IInv'
<1>1. At(p, "toDead") /\ pc[p] # "idle" /\ "dead" \in Folders
  BY DEF ToDead, At, Folders
<1>2. receipt # NoReceipt /\ TypeOK /\ saved[p].state \in {"unread", "active"}
  BY <1>1, Unchanged DEF IInv, SavedJob, At, Suspending, TypeOK, Snapshot
<1>3. /\ receipt' \in {r \in Receipt : Valid(r)} /\ receipt' # NoReceipt
      /\ UNCHANGED <<claimed, record, bounds>>
      /\ \/ /\ receipt.state = saved[p].state /\ receipt'.state = "dead" /\ Moves(p, "route")
            /\ saved'[p] = saved[p]
         \/ UNCHANGED receipt /\ Moves(p, "idle") /\ saved'[p] = NothingSaved
  <2>1. PICK from : from = saved[p].state
    OBVIOUS
  <2>2. Move(p, from, "dead", "route")
    BY <2>1 DEF ToDead
  <2> QED BY <1>1, <1>2, <2>1, <2>2, MoveFacts
<1>4. CASE receipt.state = saved[p].state /\ receipt'.state = "dead" /\ Moves(p, "route") /\ saved'[p] = saved[p]
  <2>1. pc'[p] = "route"
    BY <1>2, <1>4, MovesFacts DEF Calls
  <2>2. SavedJob(p)'
    BY <1>2, <1>4, <2>1 DEF SavedJob, Suspending
  <2> QED BY <1>2, <1>3, <1>4, <2>2, OpenStep DEF Calls
<1>5. CASE UNCHANGED receipt /\ Moves(p, "idle") /\ saved'[p] = NothingSaved
  BY <1>1, <1>2, <1>3, <1>5, Unchanged, ReturningStep DEF record, bounds
<1> QED BY <1>3, <1>4, <1>5

\* The restore takes the receipt out of dead/: nobody else has suspended it,
\* and no replacement was routed.
LEMMA ReviveStep ==
  ASSUME IInv, NEW p \in Procs, Revive(p)
  PROVE  IInv'
<1>1. At(p, "revive") /\ pc[p] # "idle"
  BY DEF Revive, At
<1>2. receipt # NoReceipt /\ TypeOK /\ saved[p].state \in {"unread", "active"}
  BY <1>1, Unchanged DEF IInv, SavedJob, At, Suspending, TypeOK, Snapshot
<1>3. PICK to \in {"unread", "active"} : to = saved[p].state
  BY <1>2
<1>4. /\ receipt' \in {r \in Receipt : Valid(r)} /\ receipt' # NoReceipt
      /\ UNCHANGED <<claimed, record, bounds>>
      /\ \/ /\ receipt.state = "dead" /\ receipt'.state = to /\ Moves(p, "reapply")
            /\ saved'[p] = saved[p]
         \/ UNCHANGED receipt /\ Moves(p, "idle") /\ saved'[p] = NothingSaved
  <2>1. Move(p, "dead", to, "reapply") /\ to \in Folders
    BY <1>3 DEF Revive, Folders
  <2> QED BY <1>2, <2>1, MoveFacts
<1>5. CASE receipt.state = "dead" /\ receipt'.state = to /\ Moves(p, "reapply") /\ saved'[p] = saved[p]
  <2>1. /\ pc' \in [Procs -> Calls \cup {"idle"}] /\ pc'[p] = "reapply"
        /\ \A q \in Procs \ {p} : pc'[q] = pc[q] /\ saved'[q] = saved[q]
    BY <1>2, <1>5, MovesFacts DEF Calls
  <2>2. Suspended(p)
    BY <1>1, <1>2, NothingSavedTyped DEF Suspended, At
  <2>3. ~rerouted /\ \A q \in Procs : Suspended(q) => q = p
    BY <2>2 DEF IInv, SuspendedInv
  <2>4. UNCHANGED <<events, handoff, rerouted, killed, commands, deaths>>
    BY <1>4 DEF record, bounds
  <2>5. ~Has("done") /\ events["done"] # 1 /\ ~handoff
    BY <1>2, <1>5 DEF Has, IInv, CompletedOnce
  <2>6. TypeOK'
    BY <1>4, <1>5, <2>1, <2>4 DEF IInv, TypeOK, Moves
  <2>7. Delivered'
    BY <1>4 DEF Delivered
  <2>8. SuspendedInv'
    <3>1. \A q \in Procs : ~Suspended(q)'
      BY <2>1, <2>3 DEF Suspended
    <3>2. SavedJob(p)'
      BY <1>2, <1>5, <2>1 DEF SavedJob, Suspending
    <3>3. \A q \in Procs : SavedJob(q)'
      BY <2>1, <3>2 DEF IInv, SuspendedInv, SavedJob
    <3> QED BY <3>1, <3>3 DEF SuspendedInv
  <2>9. CompletedInv'
    <3>1. \A q \in Procs : ~At(q, "doneEvent") /\ ~At(q, "handoff")
      BY <2>5 DEF IInv, CompletedInv
    <3> QED BY <2>1, <3>1 DEF CompletedInv, At
  <2>10. CompletedOnce' /\ ReroutedStaysDead'
    BY <2>3, <2>4, <2>5 DEF IInv, CompletedOnce, ReroutedStaysDead
  <2> QED BY <2>6, <2>7, <2>8, <2>9, <2>10 DEF IInv
<1>6. CASE UNCHANGED receipt /\ Moves(p, "idle") /\ saved'[p] = NothingSaved
  BY <1>1, <1>2, <1>4, <1>6, Unchanged, ReturningStep DEF record, bounds
<1> QED BY <1>4, <1>5, <1>6

-----------------------------------------------------------------------------
(***************************************************************************)
(* Steps that log or route.                                                *)
(***************************************************************************)
LEMMA DoneEventStep ==
  ASSUME IInv, NEW p \in Procs, DoneEvent(p)
  PROVE  IInv'
<1>1. /\ At(p, "doneEvent") /\ pc[p] # "idle" /\ receipt # NoReceipt
      /\ Has("done") /\ events["done"] = 0 /\ ~handoff /\ saved[p] = NothingSaved
  BY Unchanged DEF DoneEvent, IInv, CompletedInv, CompletedOnce, SuspendedInv, SavedJob, At, Suspending
<1>2. Moves(p, "handoff") /\ saved'[p] = NothingSaved
  BY <1>1, GoingOn DEF DoneEvent, IInv
<1>3. /\ pc' \in [Procs -> Calls \cup {"idle"}] /\ pc'[p] = "handoff"
      /\ \A q \in Procs \ {p} : pc'[q] = pc[q] /\ saved'[q] = saved[q]
  BY <1>2, MovesFacts DEF IInv, Calls
<1>4. /\ events' \in [{"accept", "done"} -> Nat] /\ events'["done"] = 1
      /\ UNCHANGED <<receipt, claimed, handoff, rerouted, killed, commands, deaths>>
  BY <1>1 DEF DoneEvent, IInv, TypeOK, bounds
<1>5. TypeOK'
  BY <1>2, <1>3, <1>4 DEF IInv, TypeOK, Moves
<1>6. Delivered'
  BY <1>1, <1>4 DEF Delivered
<1>7. SuspendedInv'
  BY <1>2, <1>3, <1>4 DEF IInv, SuspendedInv, SavedJob, Suspended, Suspending, Has
<1>8. CompletedInv'
  BY <1>1, <1>3, <1>4 DEF IInv, CompletedInv, At
<1>9. CompletedOnce' /\ ReroutedStaysDead'
  BY <1>1, <1>4 DEF IInv, CompletedOnce, ReroutedStaysDead, Has
<1> QED BY <1>5, <1>6, <1>7, <1>8, <1>9 DEF IInv

LEMMA HandoffStep ==
  ASSUME IInv, NEW p \in Procs, Handoff(p)
  PROVE  IInv'
<1>1. At(p, "handoff") /\ receipt # NoReceipt /\ events["done"] = 1
  BY DEF Handoff, IInv, CompletedInv, Delivered, At
<1>2. Moves(p, "idle") /\ saved'[p] = NothingSaved
  BY Returning DEF Handoff, IInv
<1>3. /\ pc' \in [Procs -> Calls \cup {"idle"}] /\ pc'[p] = "idle"
      /\ \A q \in Procs \ {p} : pc'[q] = pc[q] /\ saved'[q] = saved[q]
  BY <1>2, MovesFacts DEF IInv
<1>4. UNCHANGED <<receipt, claimed, events, rerouted, killed, commands, deaths>> /\ handoff'
  BY DEF Handoff, bounds
<1>5. TypeOK'
  BY <1>2, <1>3, <1>4 DEF IInv, TypeOK, Moves, Handoff
<1>6. Delivered'
  BY <1>1, <1>4 DEF Delivered
<1>7. SuspendedInv'
  BY <1>2, <1>3, <1>4 DEF IInv, SuspendedInv, SavedJob, Suspended, Suspending, Has
<1>8. CompletedInv'
  BY <1>3, <1>4 DEF IInv, CompletedInv, At, Has
<1>9. CompletedOnce' /\ ReroutedStaysDead'
  BY <1>1, <1>4 DEF IInv, CompletedOnce, ReroutedStaysDead, Has
<1> QED BY <1>5, <1>6, <1>7, <1>8, <1>9 DEF IInv

LEMMA RouteSucceedsStep ==
  ASSUME IInv, NEW p \in Procs, RouteSucceeds(p)
  PROVE  IInv'
<1>1. At(p, "route") /\ receipt # NoReceipt
  BY DEF RouteSucceeds, IInv, Delivered, At
<1>2. Moves(p, "idle") /\ saved'[p] = NothingSaved
  BY Returning DEF RouteSucceeds, IInv
<1>3. /\ pc' \in [Procs -> Calls \cup {"idle"}] /\ pc'[p] = "idle"
      /\ \A q \in Procs \ {p} : pc'[q] = pc[q] /\ saved'[q] = saved[q]
  BY <1>2, MovesFacts DEF IInv
<1>4. /\ UNCHANGED <<receipt, claimed, events, handoff, killed, commands, deaths>>
      /\ rerouted' \in BOOLEAN /\ (rerouted' => rerouted \/ Suspended(p))
  BY <1>1 DEF RouteSucceeds, bounds, Suspended, At, IInv, TypeOK
<1>5. rerouted' => Has("dead") /\ \A q \in Procs \ {p} : ~Suspended(q)
  BY <1>4 DEF IInv, SuspendedInv, ReroutedStaysDead
<1>6. TypeOK'
  BY <1>2, <1>3, <1>4 DEF IInv, TypeOK, Moves
<1>7. Delivered'
  BY <1>1, <1>4 DEF Delivered
<1>8. SuspendedInv'
  <2>1. ~Suspended(p)' /\ \A q \in Procs \ {p} : Suspended(q)' => Suspended(q)
    BY <1>3 DEF Suspended
  <2>2. \A q \in Procs : SavedJob(q)'
    BY <1>2, <1>3 DEF IInv, SuspendedInv, SavedJob, Suspending
  <2> QED BY <1>4, <1>5, <2>1, <2>2 DEF IInv, SuspendedInv, Has
<1>9. CompletedInv'
  BY <1>3, <1>4 DEF IInv, CompletedInv, At, Has
<1>10. CompletedOnce' /\ ReroutedStaysDead'
  BY <1>4, <1>5 DEF IInv, CompletedOnce, ReroutedStaysDead, Has
<1> QED BY <1>6, <1>7, <1>8, <1>9, <1>10 DEF IInv

\* The events that nothing depends on.
LEMMA AcceptEventStep ==
  ASSUME IInv, NEW p \in Procs, AcceptEvent(p)
  PROVE  IInv'
<1>1. receipt # NoReceipt
  BY DEF AcceptEvent, IInv, Delivered, At
<1>2. Moves(p, "idle") /\ saved'[p] = NothingSaved
  BY Returning DEF AcceptEvent, IInv
<1>3. /\ pc' \in [Procs -> Calls \cup {"idle"}] /\ pc'[p] = "idle"
      /\ \A q \in Procs \ {p} : pc'[q] = pc[q] /\ saved'[q] = saved[q]
  BY <1>2, MovesFacts DEF IInv
<1>4. /\ events' \in [{"accept", "done"} -> Nat] /\ events'["done"] = events["done"]
      /\ UNCHANGED <<receipt, claimed, handoff, rerouted, killed, commands, deaths>>
  BY DEF AcceptEvent, IInv, TypeOK, bounds
<1>5. TypeOK'
  BY <1>2, <1>3, <1>4 DEF IInv, TypeOK, Moves
<1>6. Delivered'
  BY <1>1, <1>4 DEF Delivered
<1>7. SuspendedInv'
  BY <1>2, <1>3, <1>4 DEF IInv, SuspendedInv, SavedJob, Suspended, Suspending, Has
<1>8. CompletedInv'
  BY <1>3, <1>4 DEF IInv, CompletedInv, At, Has
<1>9. CompletedOnce' /\ ReroutedStaysDead'
  BY <1>4 DEF IInv, CompletedOnce, ReroutedStaysDead, Has
<1> QED BY <1>5, <1>6, <1>7, <1>8, <1>9 DEF IInv

-----------------------------------------------------------------------------
(***************************************************************************)
(* The commands.                                                           *)
(***************************************************************************)
LEMMA DeliverStep ==
  ASSUME IInv, Deliver
  PROVE  IInv'
<1>1. /\ NewReceipt \in {r \in Receipt : Valid(r)} /\ NewReceipt # NoReceipt
  BY TaskLifecycleAssumption DEF NewReceipt, Receipt, Folders, Valid
<1>2. /\ receipt = NoReceipt /\ receipt' = NewReceipt
      /\ UNCHANGED <<claimed, pc, verb, saved, events, handoff, rerouted, killed, commands, deaths>>
  BY DEF Deliver, record, bounds
<1>3. \A p \in Procs : pc[p] = "idle" /\ ~Suspended(p)
  BY <1>2 DEF IInv, Delivered, Suspended
<1>4. TypeOK'
  BY <1>1, <1>2 DEF IInv, TypeOK
<1>5. SuspendedInv'
  BY <1>2, <1>3 DEF IInv, SuspendedInv, SavedJob, Suspended
<1>6. CompletedInv'
  BY <1>2, <1>3 DEF CompletedInv, At
<1>7. CompletedOnce' /\ ReroutedStaysDead'
  BY <1>2 DEF IInv, CompletedOnce, ReroutedStaysDead, Has
<1> QED BY <1>1, <1>2, <1>4, <1>5, <1>6, <1>7 DEF IInv, Delivered

LEMMA StartStep ==
  ASSUME IInv, NEW p \in Procs, NEW v \in Verbs, Start(p, v)
  PROVE  IInv'
<1>1. receipt # NoReceipt /\ At(p, "idle")
  BY DEF Start
<1>2. FirstCall(v) \in {"loadActive", "list", "snapshot", "look"} /\ v \in AllVerbs
  BY TaskLifecycleAssumption DEF FirstCall
<1>3. PICK call : call = FirstCall(v)
  OBVIOUS
<1>4. Moves(p, call) /\ saved'[p] = saved[p]
  BY <1>2, <1>3 DEF Start, Moves, IInv, TypeOK
<1>5. /\ UNCHANGED <<receipt, claimed, events, handoff, rerouted, killed, deaths>>
      /\ commands' \in 0..MaxCommands
  BY TaskLifecycleAssumption DEF Start, record, IInv, TypeOK
<1>6. pc'[p] = call /\ saved[p] = NothingSaved
  BY <1>1, <1>2, <1>3, <1>4, MovesFacts DEF IInv, SuspendedInv, SavedJob, At, Suspending, Calls
<1>7. SavedJob(p)' /\ ~Suspended(p)' /\ call \notin {"doneEvent", "handoff"}
  BY <1>2, <1>3, <1>4, <1>6 DEF SavedJob, Suspended, Suspending
<1>8. call \in Calls
  BY <1>2, <1>3 DEF Calls
<1> QED BY <1>1, <1>4, <1>5, <1>7, <1>8, StayingStep DEF IInv, TypeOK

LEMMA ReadStep ==
  ASSUME IInv, NEW p \in Procs, Read(p)
  PROVE  IInv'
<1>1. AfterRead(verb[p]) \in {"claim", "finish", "idle"}
  BY DEF AfterRead
<1> USE DEF At, Suspending, Calls
<1>2. CASE LoadActive(p)
  BY <1>2, ReadingStep DEF LoadActive
<1>3. CASE Look(p)
  <2>1. PICK next : next = IF receipt.state = "unread" THEN "ack" ELSE AfterRead(verb[p])
    OBVIOUS
  <2>2. next \in {"ack", "claim", "finish", "idle"} /\ GotoOrReturn(p, next)
    BY <1>1, <1>3, <2>1 DEF Look
  <2> QED BY <1>3, <2>2, ReadingStep DEF Look
<1>4. CASE Ack(p)
  BY <1>4, UpdateStep DEF Ack, DoneEffects, IInv, TypeOK
<1>5. CASE Activate(p)
  <2>1. PICK next : next = AfterRead(verb[p])
    OBVIOUS
  <2>2. next \in {"claim", "finish", "idle"} /\ Move(p, "unread", "active", next) /\ pc[p] = "activate"
    BY <1>1, <1>5, <2>1 DEF Activate
  <2> QED BY <2>2, MoveStep DEF Folders
<1> QED BY <1>2, <1>3, <1>4, <1>5 DEF Read

LEMMA AcceptStep ==
  ASSUME IInv, NEW p \in Procs, Accept(p)
  PROVE  IInv'
<1>1. CASE Claim(p)
  BY <1>1, UpdateStep DEF Claim, DoneEffects, At, Suspending, Calls
<1> QED BY <1>1, AcceptEventStep DEF Accept

LEMMA DoneStep ==
  ASSUME IInv, NEW p \in Procs, Done(p)
  PROVE  IInv'
<1>1. CASE Finish(p)
  BY <1>1, UpdateStep DEF Finish, DoneEffects, At, Suspending, Calls
<1>2. CASE ToDone(p)
  BY <1>2, MoveStep DEF ToDone, Folders, At, Suspending, Calls
<1> QED BY <1>1, <1>2, DoneEventStep, HandoffStep DEF Done

LEMMA DownStep ==
  ASSUME IInv, NEW p \in Procs, Down(p)
  PROVE  IInv'
<1>1. CASE List(p)
  BY <1>1, ReadingStep DEF List, At, Suspending, Calls
<1>2. CASE Requeue(p)
  BY <1>2, UpdateStep DEF Requeue, DoneEffects, At, Suspending, Calls
<1>3. CASE ToUnread(p)
  BY <1>3, MoveStep DEF ToUnread, Folders, At, Suspending, Calls
<1>4. CASE Kill(p)
  <2>1. Moves(p, "idle") /\ saved'[p] = NothingSaved /\ pc[p] # "idle"
    BY <1>4, Returning DEF Kill, At, IInv
  <2> QED BY <1>4, <2>1, Unchanged, ReturningStep DEF Kill, bounds
<1> QED BY <1>1, <1>2, <1>3, <1>4 DEF Down

LEMMA SuspendStep ==
  ASSUME IInv, NEW p \in Procs, Suspend(p)
  PROVE  IInv'
<1>1. CASE TakeSnapshot(p)
  <2>1. /\ pc[p] = "snapshot" /\ receipt # NoReceipt /\ receipt \in {r \in Receipt : Valid(r)}
        /\ saved[p] = NothingSaved /\ UNCHANGED <<receipt, claimed, record, bounds>>
    BY <1>1, Unchanged DEF TakeSnapshot, At, SavedJob, Suspending
  <2>2. CASE receipt.state \in {"done", "dead"}
    BY <1>1, <2>1, <2>2, ReadingStep DEF TakeSnapshot, Suspending, Calls
  <2>3. CASE receipt.state \notin {"done", "dead"}
    <3>1. PICK s : s = [state |-> receipt.state, claimed |-> claimed, doneAt |-> receipt.doneAt]
      OBVIOUS
    <3>2. s \in Snapshot /\ s.state \in {"unread", "active"}
      BY <2>1, <2>3, <3>1 DEF Snapshot, Receipt, Folders, IInv, TypeOK
    <3>3. /\ pc' = [pc EXCEPT ![p] = "clear"] /\ saved' = [saved EXCEPT ![p] = s]
          /\ UNCHANGED verb
      BY <1>1, <2>3, <3>1 DEF TakeSnapshot
    <3>4. Moves(p, "clear") /\ saved'[p] = s
      BY <3>2, <3>3 DEF Moves, IInv, TypeOK
    <3>5. pc'[p] = "clear"
      BY <3>4, MovesFacts DEF IInv, Calls
    <3>6. SavedJob(p)' /\ ~Suspended(p)'
      BY <3>2, <3>4, <3>5 DEF SavedJob, Suspended, Suspending
    <3> QED BY <2>1, <3>4, <3>6, Unchanged, StayingStep DEF Calls, record, bounds
  <2> QED BY <2>2, <2>3
<1>2. CASE Clear(p)
  <2>1. /\ pc[p] = "clear" /\ receipt # NoReceipt /\ TypeOK /\ saved[p].state # "none"
    BY <1>2, Unchanged DEF Clear, At, SavedJob, Suspending, IInv
  <2>2. /\ receipt' \in {r \in Receipt : Valid(r)} /\ receipt'.state = receipt.state
        /\ receipt' # NoReceipt /\ claimed' \in BOOLEAN /\ UNCHANGED <<record, bounds>>
        /\ \/ Moves(p, "toDead") /\ saved'[p] = saved[p]
           \/ Moves(p, "idle") /\ saved'[p] = NothingSaved
    BY <1>2, <2>1, UpdateFacts DEF Clear, DoneEffects
  <2>3. /\ UNCHANGED <<events, handoff, rerouted>> /\ killed' \in BOOLEAN
        /\ commands' \in 0..MaxCommands /\ deaths' \in 0..MaxDeaths
    BY <2>1, <2>2, Unchanged DEF record, bounds
  <2>4. CASE Moves(p, "toDead") /\ saved'[p] = saved[p]
    <3>1. pc'[p] = "toDead"
      BY <2>1, <2>4, MovesFacts DEF Calls
    <3>2. SavedJob(p)' /\ ~Suspended(p)'
      BY <2>1, <2>4, <3>1 DEF SavedJob, Suspended, Suspending
    <3> QED BY <2>1, <2>2, <2>3, <2>4, <3>2, StayingStep DEF Calls
  <2> QED BY <2>1, <2>2, <2>3, <2>4, ReturningStep
<1>3. CASE RouteFails(p)
  <2>1. pc[p] = "route" /\ UNCHANGED <<receipt, claimed, record, bounds>> /\ receipt # NoReceipt
    BY <1>3, Unchanged DEF RouteFails, At
  <2>2. CASE saved[p] = NothingSaved
    <3>1. Moves(p, "idle") /\ saved'[p] = NothingSaved
      BY <1>3, <2>2, Returning DEF RouteFails, GotoOrReturn, IInv
    <3> QED BY <2>1, <3>1, Unchanged, ReturningStep DEF record, bounds
  <2>3. CASE saved[p] # NothingSaved
    <3>1. Moves(p, "revive") /\ saved'[p] = saved[p] /\ Suspended(p)
      BY <1>3, <2>1, <2>3, GoingOn DEF RouteFails, GotoOrReturn, IInv, Suspended
    <3>2. pc'[p] = "revive"
      BY <3>1, MovesFacts DEF IInv, Calls
    <3>3. saved[p].state # "none"
      BY <2>1, <2>3, Unchanged DEF SavedJob
    <3>4. SavedJob(p)'
      BY <3>1, <3>2, <3>3 DEF SavedJob, Suspending
    <3> QED BY <2>1, <3>1, <3>4, Unchanged, StayingStep DEF Calls, record, bounds
  <2> QED BY <2>2, <2>3
<1>4. CASE Reapply(p)
  <2>1. /\ pc[p] = "reapply" /\ receipt # NoReceipt /\ TypeOK /\ UNCHANGED <<record, bounds>>
    BY <1>4, Unchanged DEF Reapply, At, IInv
  <2>2. Moves(p, "idle") /\ saved'[p] = NothingSaved
    BY <1>4, <2>1, Returning DEF Reapply
  <2>3. PICK effect \in DoneEffects :
          IF Valid(Updated(receipt, effect))
          THEN receipt' = Updated(receipt, effect) /\ claimed' = saved[p].claimed
          ELSE UNCHANGED <<receipt, claimed>>
    BY <1>4 DEF Reapply, DoneEffects
  <2>4. saved[p].claimed \in BOOLEAN
    BY <2>1 DEF TypeOK, Snapshot
  <2>5. /\ receipt' \in {r \in Receipt : Valid(r)} /\ receipt'.state = receipt.state
        /\ receipt' # NoReceipt /\ claimed' \in BOOLEAN
    BY <2>1, <2>3, <2>4, UpdatedFacts, Unchanged
  <2> QED BY <2>1, <2>2, <2>5, Unchanged, ReturningStep DEF record, bounds
<1> QED BY <1>1, <1>2, <1>3, <1>4, ToDeadStep, RouteSucceedsStep, ReviveStep DEF Suspend

LEMMA DieStep ==
  ASSUME IInv, NEW p \in Procs, Die(p)
  PROVE  IInv'
<1>1. pc[p] # "idle" /\ Moves(p, "idle") /\ saved'[p] = NothingSaved
  BY Returning DEF Die, At, IInv
<1>2. deaths' \in 0..MaxDeaths
  BY TaskLifecycleAssumption DEF Die, IInv, TypeOK
<1> QED BY <1>1, <1>2, Unchanged, ReturningStep DEF Die, record

LEMMA InitIInv == Init => IInv
<1> SUFFICES ASSUME Init PROVE IInv
  OBVIOUS
<1>1. TypeOK
  <2>1. /\ pc \in [Procs -> Calls \cup {"idle"}] /\ verb \in [Procs -> AllVerbs]
        /\ saved \in [Procs -> Snapshot]
    BY NothingSavedTyped DEF Init, AllVerbs
  <2>2. commands \in 0..MaxCommands /\ deaths \in 0..MaxDeaths
    BY TaskLifecycleAssumption DEF Init
  <2>3. events \in [{"accept", "done"} -> Nat]
    BY DEF Init
  <2> QED BY <2>1, <2>2, <2>3 DEF Init, TypeOK
<1>2. \A p \in Procs : pc[p] = "idle" /\ saved[p] = NothingSaved
  BY DEF Init
<1>3. events["done"] = 0 /\ ~handoff /\ ~rerouted
  BY DEF Init
<1>4. SuspendedInv
  BY <1>2 DEF SuspendedInv, SavedJob, Suspended, Suspending
<1> QED BY <1>1, <1>2, <1>3, <1>4 DEF IInv, Delivered, CompletedInv, At, CompletedOnce, ReroutedStaysDead

LEMMA StepIInv == IInv /\ [Next]_vars => IInv'
<1> SUFFICES ASSUME IInv, [Next]_vars PROVE IInv'
  OBVIOUS
<1>1. CASE UNCHANGED vars
  BY <1>1 DEF vars, IInv, TypeOK, Delivered, SuspendedInv, SavedJob, Suspended, CompletedInv, At,
     CompletedOnce, ReroutedStaysDead, Has
<1> QED BY <1>1, DeliverStep, StartStep, ReadStep, AcceptStep, DoneStep, DownStep, SuspendStep,
           DieStep DEF Next

\* Receipt, claim and what suspend has saved stay consistent with the steps of
\* the commands that work on them.
THEOREM InductiveInvariant == Spec => []IInv
BY InitIInv, StepIInv, PTL DEF Spec

\* Every receipt the commands write passes Receipt.Validate.
THEOREM TypeCorrect == Spec => []TypeOK
<1>1. IInv => TypeOK
  BY DEF IInv
<1> QED BY <1>1, InductiveInvariant, PTL

\* TaskDone logs a completion at most once and only for a receipt that is and
\* stays done, and hands the review off only after that.
THEOREM CompletesOnce == Spec => []CompletedOnce
<1>1. IInv => CompletedOnce
  BY DEF IInv
<1> QED BY <1>1, InductiveInvariant, PTL

\* No restore and no completion brings a task back whose replacement was
\* routed after its suspension.
THEOREM ReroutedIsDead == Spec => []ReroutedStaysDead
<1>1. IInv => ReroutedStaysDead
  BY DEF IInv
<1> QED BY <1>1, InductiveInvariant, PTL

-----------------------------------------------------------------------------
(***************************************************************************)
(* The commands go through the store: what they do to the receipt is what  *)
(* AtomicReceipt offers, along the folder edges that ReceiptStore checks   *)
(* and proves to be implemented.                                           *)
(***************************************************************************)
Store == INSTANCE AtomicReceipt

UsesTheStore == Store!Spec

LEMMA UpdateIsStoreStep ==
  ASSUME receipt # NoReceipt, NEW p \in Procs, NEW effect \in DoneEffects,
         NEW claim, NEW next, Update(p, effect, claim, next)
  PROVE  [Store!Next]_receipt
<1>1. CASE Valid(Updated(receipt, effect))
  <2>1. Store!Update(effect)
    BY <1>1 DEF Update, Store!Update, Store!Updated, Store!DoneAfter, Store!Valid,
                Updated, DoneAfter, Valid
  <2> QED BY <2>1 DEF Store!Next, Store!DoneEffects, DoneEffects
<1>2. CASE ~Valid(Updated(receipt, effect))
  BY <1>2 DEF Update
<1> QED BY <1>1, <1>2

LEMMA MoveIsStoreStep ==
  ASSUME receipt # NoReceipt, NEW p \in Procs, NEW from, NEW to, <<from, to>> \in Edges,
         NEW next, Move(p, from, to, next)
  PROVE  [Store!Next]_receipt
<1>1. CASE receipt.state = from /\ Valid(Moved(receipt, to))
  <2>1. Store!Move(from, to)
    BY <1>1 DEF Move, Store!Move, Store!Moved, Store!Valid, Moved, Valid
  <2>2. <<from, to>> \in Store!Edges
    BY DEF Store!Edges, Edges
  <2> QED BY <2>1, <2>2 DEF Store!Next
<1>2. CASE ~(receipt.state = from /\ Valid(Moved(receipt, to)))
  BY <1>2 DEF Move
<1> QED BY <1>1, <1>2

LEMMA StepUsesTheStore ==
  ASSUME IInv, [Next]_vars
  PROVE  [Store!Next]_receipt
<1>1. CASE Deliver
  BY <1>1 DEF Deliver, Store!Next, Store!Create, Store!NewReceipt, NewReceipt
<1>2. ASSUME NEW p \in Procs, pc[p] # "idle" PROVE receipt # NoReceipt
  BY <1>2 DEF IInv, Delivered
<1>3. ASSUME NEW p \in Procs, Ack(p) \/ Claim(p) \/ Finish(p) \/ Requeue(p) \/ Clear(p)
      PROVE  [Store!Next]_receipt
  BY <1>2, <1>3, UpdateIsStoreStep DEF Ack, Claim, Finish, Requeue, Clear, At, DoneEffects
<1>4. ASSUME NEW p \in Procs, Activate(p) \/ ToDone(p) \/ ToUnread(p)
      PROVE  [Store!Next]_receipt
  BY <1>2, <1>4, MoveIsStoreStep DEF Activate, ToDone, ToUnread, At, Edges
<1>5. ASSUME NEW p \in Procs, ToDead(p) \/ Revive(p)
      PROVE  [Store!Next]_receipt
  <2>1. saved[p].state \in {"unread", "active"}
    BY <1>5 DEF ToDead, Revive, At, IInv, TypeOK, Snapshot, SuspendedInv, SavedJob, Suspending
  <2> QED BY <1>2, <1>5, <2>1, MoveIsStoreStep DEF ToDead, Revive, At, Edges
<1>6. ASSUME NEW p \in Procs, Reapply(p)
      PROVE  [Store!Next]_receipt
  <2>1. PICK effect \in DoneEffects :
          IF Valid(Updated(receipt, effect))
          THEN receipt' = Updated(receipt, effect)
          ELSE UNCHANGED receipt
    BY <1>6 DEF Reapply, DoneEffects
  <2>2. receipt # NoReceipt
    BY <1>2, <1>6 DEF Reapply, At
  <2>3. CASE Valid(Updated(receipt, effect))
    <3>1. Store!Update(effect)
      BY <2>1, <2>2, <2>3 DEF Store!Update, Store!Updated, Store!DoneAfter, Store!Valid,
                              Updated, DoneAfter, Valid
    <3> QED BY <3>1 DEF Store!Next, Store!DoneEffects, DoneEffects
  <2> QED BY <2>1, <2>3
<1>7. ASSUME UNCHANGED receipt PROVE [Store!Next]_receipt
  BY <1>7
<1> QED
  BY <1>1, <1>3, <1>4, <1>5, <1>6, <1>7
     DEF Next, vars, Start, Read, LoadActive, Look, Accept, AcceptEvent, Done, DoneEvent, Handoff,
         Down, List, Kill, Suspend, TakeSnapshot, RouteSucceeds, RouteFails, Die

\* Every command is a sequence of calls that the store offers: the receipt it
\* leaves behaves as AtomicReceipt, which ReceiptStore implements.
THEOREM CommandsUseTheStore == Spec => UsesTheStore
<1>1. Init => Store!Init
  BY DEF Init, Store!Init
<1>2. IInv /\ [Next]_vars => [Store!Next]_receipt
  BY StepUsesTheStore
<1> QED BY <1>1, <1>2, InductiveInvariant, PTL DEF Spec, UsesTheStore, Store!Spec
=============================================================================
