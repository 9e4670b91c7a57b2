------------------------- MODULE ReceiptStoreProofs -------------------------
(***************************************************************************)
(* What ReceiptStore guarantees for any number of processes and of         *)
(* updates: with any number of faults, the types, the exclusion of the     *)
(* receipt lock and that the receipt is never lost; without faults, also   *)
(* that no update is lost, that one folder holds the receipt at rest, and  *)
(* that the files implement AtomicReceipt.  And what ReadReceipt, which    *)
(* takes no lock, may return beside them.                                  *)
(***************************************************************************)
EXTENDS ReceiptReader, TLAPS

USE DEF Folders, DoneEffects, CriticalSteps, Steps

-----------------------------------------------------------------------------
\* The search: it returns a folder that holds a file, the first one by Rank.
LEMMA FoundIsFirst ==
    ASSUME NEW inbox, CopiesIn(inbox) # {}
    PROVE  /\ FoundIn(inbox) \in CopiesIn(inbox)
           /\ \A g \in CopiesIn(inbox) : Rank[FoundIn(inbox)] <= Rank[g]
<1> DEFINE C == CopiesIn(inbox)
<1>1. \E f \in C : \A g \in C : Rank[f] <= Rank[g]
  <2>1. CASE "unread" \in C
    BY <2>1 DEF CopiesIn, Rank
  <2>2. CASE "unread" \notin C /\ "active" \in C
    BY <2>2 DEF CopiesIn, Rank
  <2>3. CASE "unread" \notin C /\ "active" \notin C /\ "done" \in C
    BY <2>3 DEF CopiesIn, Rank
  <2>4. CASE "unread" \notin C /\ "active" \notin C /\ "done" \notin C
    BY <2>4 DEF CopiesIn, Rank
  <2>5. QED
    BY <2>1, <2>2, <2>3, <2>4
<1>2. QED
  BY <1>1, Zenon DEF FoundIn

\* One copy is what the store holds.
LEMMA HeldSingle ==
    ASSUME NEW inbox, NEW f \in Folders, CopiesIn(inbox) = {f}
    PROVE  HeldIn(inbox) = inbox[f]
BY FoundIsFirst DEF HeldIn

\* Of two copies the store holds the one whose folder ranks first.
LEMMA HeldPair ==
    ASSUME NEW inbox, NEW f \in Folders, NEW g \in Folders,
           CopiesIn(inbox) = {f, g}, Rank[f] < Rank[g]
    PROVE  HeldIn(inbox) = inbox[f]
BY FoundIsFirst DEF HeldIn, Rank

-----------------------------------------------------------------------------
(***************************************************************************)
(* TypeOK is not inductive: that a write leaves a valid file in its folder *)
(* depends on what its process loaded, and that is still so at the write   *)
(* because the lock kept the others out.                                   *)
(***************************************************************************)
HolderInv == \A p \in Procs : InCritical(p) <=> lock = p

\* What a process is about to write is the outcome of its call on the file
\* it found, which is still there.
WriteInv ==
    \A p \in Procs : pc[p] = "write" =>
        /\ path[p] \in Copies
        /\ buf[p] = Outcome(call[p], files[path[p]])
        /\ call[p].kind = "move" => path[p] = call[p].from

\* What a process is about to remove has its copy in the destination.
RemoveInv ==
    \A p \in Procs : pc[p] = "remove" =>
        /\ call[p].kind = "move"
        /\ path[p] = call[p].from
        /\ path[p] \in Copies
        /\ files[call[p].to] = Moved(files[path[p]], call[p].to)
        /\ Valid(files[call[p].to])

IInv == TypeOK /\ HolderInv /\ WriteInv /\ RemoveInv

\* A call is an update or one of the moves; a move changes the folder.
LEMMA CallShape ==
    ASSUME NEW c \in Calls
    PROVE  /\ c.kind \in {"update", "move"}
           /\ c.effect \in DoneEffects
           /\ c.from \in Folders /\ c.to \in Folders
           /\ c.kind = "move" => <<c.from, c.to>> \in Edges /\ c.from # c.to
<1>1. CASE c \in UpdateCalls
  BY <1>1 DEF UpdateCalls, UpdateCall
<1>2. CASE c \in MoveCalls
  <2>1. PICK e \in Edges : c = MoveCall(e)
    BY <1>2 DEF MoveCalls
  <2>2. /\ c.kind = "move" /\ c.effect = "keep"
        /\ c.from = e[1] /\ c.to = e[2]
    BY <2>1 DEF MoveCall
  <2>3. /\ e = <<e[1], e[2]>>
        /\ e[1] \in Folders /\ e[2] \in Folders /\ e[1] # e[2]
    BY DEF Edges
  <2>4. QED
    BY <2>2, <2>3
<1>3. QED
  BY <1>1, <1>2 DEF Calls

\* The outcome of a call is a receipt, in the folder the call leaves it in.
LEMMA OutcomeShape ==
    ASSUME NEW c \in Calls, NEW r \in Receipt
    PROVE  /\ Outcome(c, r) \in Receipt
           /\ Outcome(c, r).state = IF c.kind = "update" THEN r.state ELSE c.to
           /\ Outcome(c, r).rev = IF c.kind = "update" THEN r.rev + 1 ELSE r.rev
<1>1. /\ c.kind \in {"update", "move"}
      /\ c.effect \in {"keep", "set", "clear"}
      /\ c.to \in Folders
  BY CallShape
<1>2. DoneAfter(r, c.effect) \in {"nil", "set"}
  BY <1>1 DEF DoneAfter, Receipt
<1>3. CASE c.kind = "update"
  BY <1>2, <1>3 DEF Outcome, Updated, Receipt
<1>4. CASE c.kind = "move"
  BY <1>1, <1>4 DEF Outcome, Moved, Receipt
<1>5. QED
  BY <1>1, <1>3, <1>4

LEMMA InitIInv == Init => IInv
BY ReceiptStoreAssumption
   DEF Init, IInv, TypeOK, HolderInv, WriteInv, RemoveInv, InCritical, FileOf,
       Calls, UpdateCalls, UpdateCall, NoCall, NewReceipt, Receipt, Valid


\* Leaving a call restores the initial locals.
LEMMA LeaveTypes ==
    ASSUME TypeOK, NEW p \in Procs, Leave(p)
    PROVE  /\ pc' \in [Procs -> Steps]
           /\ call' \in [Procs -> Calls]
           /\ path' \in [Procs -> Folders]
           /\ buf' \in [Procs -> {r \in Receipt : Valid(r)}]
           /\ pc' = [pc EXCEPT ![p] = "idle"]
           /\ \A q \in Procs \ {p} : call'[q] = call[q] /\ path'[q] = path[q] /\ buf'[q] = buf[q]
BY DEF Leave, TypeOK, NoCall, Calls, UpdateCalls, UpdateCall, NewReceipt, Receipt, Valid

\* Only one process is between write and remove, so a step of another one
\* disturbs nobody who is.
LEMMA StepIInv ==
    ASSUME IInv, [Next]_vars
    PROVE  IInv'
<1> USE ReceiptStoreAssumption
<1>1. ASSUME CreateReceipt PROVE IInv'
  <2>1. TypeOK'
    BY <1>1 DEF CreateReceipt, IInv, TypeOK, FileOf, NewReceipt, Receipt, Valid
  <2>2. HolderInv'
    BY <1>1 DEF CreateReceipt, IInv, HolderInv, InCritical
  <2>3. \A p \in Procs : pc[p] # "write" /\ pc[p] # "remove"
    BY <1>1 DEF CreateReceipt, IInv, WriteInv, RemoveInv
  <2>4. QED
    BY <1>1, <2>1, <2>2, <2>3 DEF CreateReceipt, IInv, WriteInv, RemoveInv
<1>2. ASSUME NEW p \in Procs, NEW c \in Calls, Start(p, c) PROVE IInv'
  <2>1. TypeOK'
    BY <1>2 DEF Start, Goto, IInv, TypeOK, FileOf
  <2>2. HolderInv'
    BY <1>2 DEF Start, Goto, IInv, TypeOK, HolderInv, InCritical
  <2>3. WriteInv' /\ RemoveInv'
    BY <1>2 DEF Start, Goto, IInv, TypeOK, WriteInv, RemoveInv, Copies, CopiesIn
  <2>4. QED
    BY <2>1, <2>2, <2>3 DEF IInv
<1>3. ASSUME NEW p \in Procs, Lock(p) PROVE IInv'
  <2>1. TypeOK'
    BY <1>3 DEF Lock, Goto, IInv, TypeOK, FileOf
  <2>2. HolderInv'
    BY <1>3 DEF Lock, Goto, IInv, TypeOK, HolderInv, InCritical
  <2>3. WriteInv' /\ RemoveInv'
    BY <1>3 DEF Lock, Goto, IInv, TypeOK, WriteInv, RemoveInv, Copies, CopiesIn
  <2>4. QED
    BY <2>1, <2>2, <2>3 DEF IInv
<1>4. ASSUME NEW p \in Procs, Load(p) PROVE IInv'
  <2>1. /\ Found \in Copies
        /\ Found \in Folders
        /\ files[Found] \in Receipt
    BY <1>4, FoundIsFirst DEF Load, Found, IInv, TypeOK, Copies, CopiesIn
  <2>2. Outcome(call[p], files[Found]) \in {r \in Receipt : Valid(r)}
    BY <1>4, <2>1, OutcomeShape DEF Load, Accepted, IInv, TypeOK
  <2>3. TypeOK'
    BY <1>4, <2>1, <2>2 DEF Load, Goto, IInv, TypeOK, FileOf
  <2>4. HolderInv'
    BY <1>4 DEF Load, Goto, IInv, TypeOK, HolderInv, InCritical
  <2>5. WriteInv'
    BY <1>4, <2>1 DEF Load, Goto, Accepted, IInv, TypeOK, WriteInv, Copies, CopiesIn
  <2>6. RemoveInv'
    BY <1>4 DEF Load, Goto, IInv, TypeOK, RemoveInv, Copies, CopiesIn
  <2>7. QED
    BY <2>3, <2>4, <2>5, <2>6 DEF IInv
<1>5. ASSUME NEW p \in Procs, Refuse(p) \/ WriteFails(p) \/ RemoveFails(p) PROVE IInv'
  <2>1. TypeOK'
    BY <1>5 DEF Refuse, WriteFails, RemoveFails, Goto, IInv, TypeOK, FileOf
  <2>2. HolderInv'
    BY <1>5 DEF Refuse, WriteFails, RemoveFails, Goto, IInv, TypeOK, HolderInv, InCritical
  <2>3. WriteInv' /\ RemoveInv'
    BY <1>5 DEF Refuse, WriteFails, RemoveFails, Goto, IInv, TypeOK, WriteInv, RemoveInv, Copies, CopiesIn
  <2>4. QED
    BY <2>1, <2>2, <2>3 DEF IInv
<1>6. ASSUME NEW p \in Procs, WriteUpdate(p) PROVE IInv'
  <2>1. /\ buf[p] = Outcome(call[p], files[path[p]])
        /\ path[p] \in Folders /\ files[path[p]] \in Receipt
        /\ files[path[p]].state = path[p]
    BY <1>6 DEF WriteUpdate, Goto, IInv, WriteInv, TypeOK, FileOf, Copies, CopiesIn
  <2>2. buf[p] \in FileOf(path[p])
    BY <1>6, <2>1, OutcomeShape DEF WriteUpdate, IInv, TypeOK, FileOf
  <2>3. TypeOK'
    BY <1>6, <2>2 DEF WriteUpdate, Goto, IInv, TypeOK, FileOf
  <2>4. HolderInv'
    BY <1>6 DEF WriteUpdate, Goto, IInv, TypeOK, HolderInv, InCritical
  <2>5. \A q \in Procs \ {p} : pc'[q] \notin {"write", "remove"}
    BY <1>6 DEF WriteUpdate, Goto, IInv, TypeOK, HolderInv, InCritical
  <2>6. pc'[p] = "unlock"
    BY <1>6 DEF WriteUpdate, Goto, IInv, TypeOK
  <2>7. QED
    BY <2>3, <2>4, <2>5, <2>6 DEF IInv, WriteInv, RemoveInv
<1>7. ASSUME NEW p \in Procs, WriteMove(p) PROVE IInv'
  <2>1. /\ buf[p] = Outcome(call[p], files[path[p]])
        /\ path[p] \in Copies /\ path[p] \in Folders /\ files[path[p]] \in Receipt
        /\ path[p] = call[p].from
        /\ call[p] \in Calls /\ call[p].kind = "move"
    BY <1>7 DEF WriteMove, Goto, IInv, WriteInv, TypeOK, FileOf, Copies, CopiesIn
  <2>2. call[p].to \in Folders /\ call[p].from # call[p].to
    BY <2>1, CallShape
  <2>3. buf[p] = Moved(files[path[p]], call[p].to)
    BY <2>1 DEF Outcome
  <2>4. buf[p] \in FileOf(call[p].to)
    BY <2>1, OutcomeShape DEF IInv, TypeOK, FileOf
  <2>5. TypeOK'
    BY <1>7, <2>2, <2>4 DEF WriteMove, Goto, IInv, TypeOK, FileOf
  <2>6. HolderInv'
    BY <1>7 DEF WriteMove, Goto, IInv, TypeOK, HolderInv, InCritical
  <2>7. \A q \in Procs \ {p} : pc'[q] \notin {"write", "remove"}
    BY <1>7 DEF WriteMove, Goto, IInv, TypeOK, HolderInv, InCritical
  <2>8. pc'[p] = "remove"
    BY <1>7 DEF WriteMove, Goto, IInv, TypeOK
  <2>9. /\ files'[path[p]] = files[path[p]]
        /\ files'[call[p].to] = buf[p]
        /\ Valid(buf[p])
    BY <1>7, <2>1, <2>2 DEF WriteMove, IInv, TypeOK
  <2>10. RemoveInv'
    BY <1>7, <2>1, <2>3, <2>7, <2>9 DEF WriteMove, RemoveInv, Copies, CopiesIn
  <2>11. QED
    BY <2>5, <2>6, <2>7, <2>8, <2>10 DEF IInv, WriteInv
<1>8. ASSUME NEW p \in Procs, Remove(p) PROVE IInv'
  <2>1. TypeOK'
    BY <1>8 DEF Remove, Goto, IInv, TypeOK, FileOf
  <2>2. HolderInv'
    BY <1>8 DEF Remove, Goto, IInv, TypeOK, HolderInv, InCritical
  <2>3. \A q \in Procs : pc'[q] \notin {"write", "remove"}
    BY <1>8 DEF Remove, Goto, IInv, TypeOK, HolderInv, InCritical
  <2>4. QED
    BY <2>1, <2>2, <2>3 DEF IInv, WriteInv, RemoveInv
<1>9. ASSUME NEW p \in Procs, Unlock(p) \/ Crash(p) PROVE IInv'
  <2>1. TypeOK'
    BY <1>9, LeaveTypes DEF Unlock, Crash, IInv, TypeOK, FileOf
  <2>2. pc' = [pc EXCEPT ![p] = "idle"]
    BY <1>9 DEF Unlock, Crash, Leave
  <2>3. HolderInv'
    BY <1>9, <2>2 DEF Unlock, Crash, IInv, TypeOK, HolderInv, InCritical
  <2>4. WriteInv' /\ RemoveInv'
    BY <1>9, <2>2, LeaveTypes DEF Unlock, Crash, IInv, TypeOK, WriteInv, RemoveInv, Copies, CopiesIn
  <2>5. QED
    BY <2>1, <2>3, <2>4 DEF IInv
<1>10. CASE UNCHANGED vars
  BY <1>10 DEF vars, IInv, TypeOK, FileOf, HolderInv, InCritical, WriteInv, RemoveInv, Copies, CopiesIn
<1>11. QED
  BY <1>1, <1>2, <1>3, <1>4, <1>5, <1>6, <1>7, <1>8, <1>9, <1>10 DEF Next, Step, Work


\* The strengthening is inductive, for any number of faults.
THEOREM InductiveInvariant == Spec => []IInv
<1>1. IInv /\ [Next]_vars => IInv'
  BY StepIInv
<1>2. QED
  BY InitIInv, <1>1, PTL DEF Spec

\* Every file on disk is a valid receipt whose folder_state names its folder.
THEOREM TypeCorrect == Spec => []TypeOK
<1>1. IInv => TypeOK
  BY DEF IInv
<1>2. QED
  BY InductiveInvariant, <1>1, PTL

\* Two processes are never both between flock and the deferred unlock.
THEOREM LockExclusion == Spec => []LockExclusive
<1>1. IInv => LockExclusive
  BY DEF IInv, HolderInv, LockExclusive
<1>2. QED
  BY InductiveInvariant, <1>1, PTL

\* No step, crash or failed removal takes the receipt out of every folder.
THEOREM NeverLost == Spec => ReceiptNeverLost
<1>1. ASSUME IInv, [Next]_vars PROVE [Copies # {} => Copies' # {}]_files
  <2>1. ASSUME files' # files, Copies # {}
        PROVE  Copies' # {}
    <3>1. ASSUME NEW p \in Procs, WriteUpdate(p) PROVE Copies' # {}
      <4>1. buf[p] # NoFile /\ path[p] \in Folders
        BY <1>1, ReceiptStoreAssumption DEF IInv, TypeOK
      <4>2. files'[path[p]] = buf[p]
        BY <1>1, <3>1, <4>1 DEF WriteUpdate, IInv, TypeOK
      <4>3. QED
        BY <4>1, <4>2 DEF Copies, CopiesIn
    <3>2. ASSUME NEW p \in Procs, WriteMove(p) PROVE Copies' # {}
      <4>1. buf[p] # NoFile /\ call[p].to \in Folders
        <5>1. call[p] \in Calls /\ buf[p] \in Receipt
          BY <1>1 DEF IInv, TypeOK
        <5>2. QED
          BY <5>1, ReceiptStoreAssumption, CallShape
      <4>2. files'[call[p].to] = buf[p]
        BY <1>1, <3>2, <4>1 DEF WriteMove, IInv, TypeOK
      <4>3. QED
        BY <4>1, <4>2 DEF Copies, CopiesIn
    <3>3. ASSUME NEW p \in Procs, Remove(p) PROVE Copies' # {}
      <4>1. /\ call[p] \in Calls /\ call[p].kind = "move"
            /\ path[p] = call[p].from /\ path[p] \in Copies
            /\ files[call[p].to] = Moved(files[path[p]], call[p].to)
        BY <1>1, <3>3 DEF Remove, Goto, IInv, TypeOK, RemoveInv
      <4>2. call[p].to \in Folders /\ call[p].to # path[p]
        BY <4>1, CallShape
      <4>3. files[path[p]] \in Receipt
        BY <1>1, <4>1 DEF IInv, TypeOK, Copies, CopiesIn
      <4>4. Moved(files[path[p]], call[p].to) \in Receipt
        BY <4>2, <4>3 DEF Moved, Receipt
      <4>5. files'[call[p].to] # NoFile
        BY <1>1, <3>3, <4>1, <4>2, <4>4, ReceiptStoreAssumption DEF Remove, IInv, TypeOK
      <4>6. QED
        BY <4>2, <4>5 DEF Copies, CopiesIn
    <3>4. CreateReceipt \/ \E p \in Procs : WriteUpdate(p) \/ WriteMove(p) \/ Remove(p)
      BY <1>1, <2>1 DEF Next, Step, Work, Start, Lock, Load, Refuse, Unlock,
                        WriteFails, RemoveFails, Crash, vars
    <3>5. QED
      BY <2>1, <3>1, <3>2, <3>3, <3>4 DEF CreateReceipt
  <2>2. QED
    BY <2>1
<1>2. QED
  BY InductiveInvariant, <1>1, PTL DEF Spec, ReceiptNeverLost

-----------------------------------------------------------------------------
(***************************************************************************)
(* Without faults a move that was begun is finished before anybody else    *)
(* looks: two copies exist only between its write and its removal, and all *)
(* copies carry every update.                                              *)
(***************************************************************************)
Calm == \A p \in Procs : pc[p] # "remove"

SingleInv == Calm => \A f, g \in Copies : f = g

PairInv == \A p \in Procs : pc[p] = "remove" => Copies = {path[p], call[p].to}

RevInv == /\ \A f \in Copies : files[f].rev = committed
          /\ Copies = {} => committed = 0

CalmIInv == IInv /\ SingleInv /\ PairInv /\ RevInv

LEMMA InitCalm == Init => CalmIInv
BY InitIInv DEF Init, CalmIInv, SingleInv, PairInv, RevInv, Copies, CopiesIn

\* Whoever is about to write has found the only copy.
LEMMA WriterCalm ==
    ASSUME CalmIInv, NEW p \in Procs, pc[p] = "write"
    PROVE  Calm /\ Copies = {path[p]}
<1>1. Calm
  BY DEF CalmIInv, IInv, HolderInv, InCritical, Calm
<1>2. path[p] \in Copies
  BY DEF CalmIInv, IInv, WriteInv
<1>3. QED
  BY <1>1, <1>2 DEF CalmIInv, SingleInv

LEMMA StepCalm ==
    ASSUME MaxFaults = 0, CalmIInv, [Next]_vars
    PROVE  CalmIInv'
<1> USE ReceiptStoreAssumption
<1>1. IInv'
  BY StepIInv DEF CalmIInv
<1>2. ASSUME CreateReceipt PROVE (SingleInv /\ PairInv /\ RevInv)'
  <2>1. \A p \in Procs : pc'[p] # "remove"
    BY <1>2 DEF CreateReceipt, CalmIInv, IInv, RemoveInv
  <2>2. files' = [files EXCEPT !["unread"] = NewReceipt] /\ committed' = committed
    BY <1>2 DEF CreateReceipt
  <2>3. Copies' = {"unread"}
    BY <1>2, <2>2 DEF CreateReceipt, Copies, CopiesIn, CalmIInv, IInv, TypeOK, NewReceipt, Receipt
  <2>4. files'["unread"].rev = 0 /\ committed' = 0
    BY <1>2, <2>2 DEF CreateReceipt, NewReceipt, CalmIInv, RevInv, IInv, TypeOK
  <2>5. QED
    BY <2>1, <2>3, <2>4 DEF SingleInv, PairInv, RevInv
<1>3. ASSUME NEW p \in Procs, WriteUpdate(p) PROVE (SingleInv /\ PairInv /\ RevInv)'
  <2>1. /\ pc[p] = "write" /\ pc' = [pc EXCEPT ![p] = "unlock"]
        /\ files' = [files EXCEPT ![path[p]] = buf[p]]
        /\ committed' = committed + 1
        /\ call[p].kind = "update"
    BY <1>3 DEF WriteUpdate, Goto
  <2>2. Copies = {path[p]} /\ Calm
    BY <2>1, WriterCalm
  <2>3. /\ path[p] \in Folders /\ files[path[p]] \in Receipt /\ call[p] \in Calls
        /\ buf[p] \in Receipt
        /\ buf[p] = Outcome(call[p], files[path[p]])
    BY <2>1, <2>2 DEF CalmIInv, IInv, TypeOK, WriteInv, Copies, CopiesIn
  <2>4. buf[p].rev = committed + 1
    BY <2>1, <2>2, <2>3, OutcomeShape DEF CalmIInv, RevInv
  <2>5. Copies' = {path[p]}
    BY <2>1, <2>2, <2>3 DEF Copies, CopiesIn, CalmIInv, IInv, TypeOK
  <2>6. files'[path[p]] = buf[p]
    BY <2>1, <2>3 DEF CalmIInv, IInv, TypeOK
  <2>7. \A q \in Procs : pc'[q] # "remove"
    BY <2>1, <2>2 DEF Calm, CalmIInv, IInv, TypeOK
  <2>8. QED
    BY <2>1, <2>4, <2>5, <2>6, <2>7 DEF SingleInv, PairInv, RevInv
<1>4. ASSUME NEW p \in Procs, WriteMove(p) PROVE (SingleInv /\ PairInv /\ RevInv)'
  <2>1. /\ pc[p] = "write" /\ pc' = [pc EXCEPT ![p] = "remove"]
        /\ files' = [files EXCEPT ![call[p].to] = buf[p]]
        /\ committed' = committed /\ call' = call /\ path' = path
        /\ call[p].kind = "move"
    BY <1>4 DEF WriteMove, Goto
  <2>2. Copies = {path[p]} /\ Calm
    BY <2>1, WriterCalm
  <2>3. /\ path[p] \in Folders /\ files[path[p]] \in Receipt /\ call[p] \in Calls
        /\ buf[p] \in Receipt
        /\ buf[p] = Outcome(call[p], files[path[p]])
    BY <2>1, <2>2 DEF CalmIInv, IInv, TypeOK, WriteInv, Copies, CopiesIn
  <2>4. buf[p].rev = committed
    BY <2>1, <2>2, <2>3, OutcomeShape DEF CalmIInv, RevInv
  <2>5. call[p].to \in Folders /\ path[p] # call[p].to
    BY <2>1, <2>3, CallShape DEF CalmIInv, IInv, WriteInv
  <2>6. Copies' = {path[p], call[p].to}
    BY <2>1, <2>2, <2>3, <2>5 DEF Copies, CopiesIn, CalmIInv, IInv, TypeOK
  <2>7. files'[path[p]] = files[path[p]] /\ files'[call[p].to] = buf[p]
    BY <2>1, <2>3, <2>5 DEF CalmIInv, IInv, TypeOK
  <2>8. pc'[p] = "remove" /\ \A q \in Procs \ {p} : pc'[q] # "remove"
    BY <2>1, <2>2 DEF Calm, CalmIInv, IInv, TypeOK
  <2>9. RevInv'
    BY <2>1, <2>2, <2>4, <2>6, <2>7 DEF CalmIInv, RevInv
  <2>10. QED
    BY <2>1, <2>6, <2>8, <2>9 DEF SingleInv, PairInv, Calm
<1>5. ASSUME NEW p \in Procs, Remove(p) PROVE (SingleInv /\ PairInv /\ RevInv)'
  <2>1. /\ pc[p] = "remove" /\ pc' = [pc EXCEPT ![p] = "unlock"]
        /\ files' = [files EXCEPT ![path[p]] = NoFile]
        /\ committed' = committed
    BY <1>5 DEF Remove, Goto
  <2>2. /\ Copies = {path[p], call[p].to}
        /\ path[p] = call[p].from /\ call[p] \in Calls /\ call[p].kind = "move"
    BY <2>1 DEF CalmIInv, PairInv, IInv, RemoveInv, TypeOK
  <2>3. call[p].to \in Folders /\ path[p] \in Folders /\ path[p] # call[p].to
    BY <2>2, CallShape
  <2>4. Copies' = {call[p].to}
    BY <2>1, <2>2, <2>3 DEF Copies, CopiesIn, CalmIInv, IInv, TypeOK
  <2>5. files'[call[p].to] = files[call[p].to]
    BY <2>1, <2>3 DEF CalmIInv, IInv, TypeOK
  <2>6. \A q \in Procs : pc'[q] # "remove"
    BY <2>1 DEF CalmIInv, IInv, TypeOK, HolderInv, InCritical
  <2>7. QED
    BY <2>1, <2>2, <2>4, <2>5, <2>6 DEF SingleInv, PairInv, RevInv, CalmIInv
<1>6. ASSUME NEW p \in Procs, ~WriteUpdate(p), ~WriteMove(p), ~Remove(p), Step(p)
      PROVE  (SingleInv /\ PairInv /\ RevInv)'
  <2>1. UNCHANGED <<files, committed>>
    BY <1>6 DEF Step, Work, Start, Lock, Load, Refuse, Unlock, WriteFails, RemoveFails, Crash
  <2>2. faults = 0
    BY MaxFaults = 0 DEF CalmIInv, IInv, TypeOK
  <2>3. \A q \in Procs : (pc[q] = "remove") <=> (pc'[q] = "remove")
    BY <1>6, <2>2 DEF Step, Work, Start, Lock, Load, Refuse, Unlock, Leave, Goto,
                      WriteFails, RemoveFails, Crash, CalmIInv, IInv, TypeOK
  <2>4. \A q \in Procs : pc[q] = "remove" => path'[q] = path[q] /\ call'[q] = call[q]
    BY <1>6, <2>2 DEF Step, Work, Start, Lock, Load, Refuse, Unlock, Leave, Goto,
                      WriteFails, RemoveFails, Crash, CalmIInv, IInv, TypeOK
  <2>5. Copies' = Copies
    BY <2>1 DEF Copies, CopiesIn
  <2>6. QED
    BY <2>1, <2>3, <2>4, <2>5 DEF CalmIInv, SingleInv, PairInv, RevInv, Calm
<1>7. CASE UNCHANGED vars
  BY <1>1, <1>7 DEF vars, CalmIInv, SingleInv, PairInv, RevInv, Calm, Copies, CopiesIn
<1>8. QED
  BY <1>1, <1>2, <1>3, <1>4, <1>5, <1>6, <1>7 DEF Next, CalmIInv


\* Under MaxFaults = 0 the stronger invariant is inductive.
THEOREM CalmInvariant ==
    ASSUME MaxFaults = 0
    PROVE  Spec => []CalmIInv
<1>1. CalmIInv /\ [Next]_vars => CalmIInv'
  BY StepCalm, MaxFaults = 0
<1>2. QED
  BY InitCalm, <1>1, PTL DEF Spec

\* Without faults the receipt found counts every update that reached the disk.
THEOREM NoUpdateLost ==
    ASSUME MaxFaults = 0
    PROVE  Spec => []NoLostUpdate
<1>1. CalmIInv => NoLostUpdate
  BY FoundIsFirst DEF CalmIInv, RevInv, NoLostUpdate, Copies, Found
<1>2. Spec => []CalmIInv
  BY CalmInvariant, MaxFaults = 0
<1>3. QED
  BY <1>1, <1>2, PTL

\* Without faults exactly one folder holds the receipt when nobody is inside.
THEOREM OneCopy ==
    ASSUME MaxFaults = 0
    PROVE  Spec => []OneCopyAtRest
<1>1. CalmIInv => OneCopyAtRest
  BY ReceiptStoreAssumption
     DEF CalmIInv, SingleInv, Calm, OneCopyAtRest, IInv, HolderInv, InCritical, TypeOK
<1>2. Spec => []CalmIInv
  BY CalmInvariant, MaxFaults = 0
<1>3. QED
  BY <1>1, <1>2, PTL


-----------------------------------------------------------------------------
(***************************************************************************)
(* The files implement the abstract receipt.  A move whose source ranks    *)
(* first takes effect at the removal, any other one at the write.          *)
(***************************************************************************)
LEMMA RankOrder ==
    ASSUME NEW f \in Folders, NEW g \in Folders, f # g
    PROVE  Rank[f] < Rank[g] \/ Rank[g] < Rank[f]
BY DEF Rank

\* The step of MoveReceipt that takes effect is an abstract move.
LEMMA MoveTakesEffect ==
    ASSUME NEW c \in Calls, c.kind = "move",
           NEW r \in Receipt, r.state = c.from, Valid(Moved(r, c.to)),
           Held = r, Held' = Moved(r, c.to)
    PROVE  Abstract!Next
<1>1. <<c.from, c.to>> \in Edges
  BY CallShape
<1>2. Abstract!Move(c.from, c.to)
  BY ReceiptStoreAssumption DEF Abstract!Move, Abstract!Moved, Abstract!Valid, Moved, Valid
<1>3. QED
  BY <1>1, <1>2 DEF Abstract!Next, Abstract!Edges, Edges

LEMMA StepRefines ==
    ASSUME MaxFaults = 0, CalmIInv, [Next]_vars
    PROVE  [Abstract!Next]_Held
<1> USE ReceiptStoreAssumption
<1>1. ASSUME CreateReceipt PROVE Abstract!Next
  <2>1. Held = NoFile
    BY <1>1 DEF CreateReceipt, Copies, Held, HeldIn
  <2>2. files' = [files EXCEPT !["unread"] = NewReceipt]
    BY <1>1 DEF CreateReceipt
  <2>3. CopiesIn(files') = {"unread"}
    BY <1>1, <2>2 DEF CreateReceipt, Copies, CopiesIn, CalmIInv, IInv, TypeOK, NewReceipt, Receipt
  <2>4. Held' = NewReceipt
    <3>1. files'["unread"] = NewReceipt
      BY <2>2 DEF CalmIInv, IInv, TypeOK
    <3>2. Held' = files'["unread"]
      BY <2>3, HeldSingle DEF Held
    <3>3. QED
      BY <3>1, <3>2
  <2>5. QED
    BY <2>1, <2>4 DEF Abstract!Next, Abstract!Create, Abstract!NewReceipt, NewReceipt
<1>2. ASSUME NEW p \in Procs, WriteUpdate(p) PROVE Abstract!Next
  <2>1. /\ pc[p] = "write"
        /\ files' = [files EXCEPT ![path[p]] = buf[p]]
        /\ call[p].kind = "update"
    BY <1>2 DEF WriteUpdate, Goto
  <2>2. CopiesIn(files) = {path[p]}
    BY <2>1, WriterCalm DEF Copies
  <2>3. /\ path[p] \in Folders /\ files[path[p]] \in Receipt /\ call[p] \in Calls
        /\ buf[p] \in Receipt /\ Valid(buf[p])
        /\ buf[p] = Updated(files[path[p]], call[p].effect)
    BY <2>1, <2>2 DEF CalmIInv, IInv, TypeOK, WriteInv, CopiesIn, Outcome
  <2>4. CopiesIn(files') = {path[p]}
    BY <2>1, <2>2, <2>3 DEF CopiesIn, CalmIInv, IInv, TypeOK
  <2>5. Held = files[path[p]]
    BY <2>2, <2>3, HeldSingle DEF Held
  <2>6. Held' = buf[p]
    <3>1. files'[path[p]] = buf[p]
      BY <2>1, <2>3 DEF CalmIInv, IInv, TypeOK
    <3>2. Held' = files'[path[p]]
      BY <2>3, <2>4, HeldSingle DEF Held
    <3>3. QED
      BY <3>1, <3>2
  <2>7. call[p].effect \in DoneEffects
    BY <2>3, CallShape
  <2>8. QED
    BY <2>3, <2>5, <2>6, <2>7
       DEF Abstract!Next, Abstract!Update, Abstract!Updated, Abstract!DoneAfter,
           Abstract!Valid, Abstract!DoneEffects, Updated, DoneAfter, Valid
<1>3. ASSUME NEW p \in Procs, WriteMove(p) PROVE [Abstract!Next]_Held
  <2>1. /\ pc[p] = "write"
        /\ files' = [files EXCEPT ![call[p].to] = buf[p]]
        /\ call[p].kind = "move"
    BY <1>3 DEF WriteMove, Goto
  <2>2. CopiesIn(files) = {path[p]}
    BY <2>1, WriterCalm DEF Copies
  <2>3. /\ path[p] \in Folders /\ files[path[p]] \in Receipt /\ call[p] \in Calls
        /\ files[path[p]].state = path[p] /\ path[p] = call[p].from
        /\ buf[p] \in Receipt /\ Valid(buf[p])
        /\ buf[p] = Moved(files[path[p]], call[p].to)
    BY <2>1, <2>2 DEF CalmIInv, IInv, TypeOK, FileOf, WriteInv, CopiesIn, Outcome
  <2>4. call[p].to \in Folders /\ path[p] # call[p].to
    BY <2>1, <2>3, CallShape
  <2>5. /\ CopiesIn(files') = {path[p], call[p].to}
        /\ files'[path[p]] = files[path[p]]
        /\ files'[call[p].to] = buf[p]
    BY <2>1, <2>2, <2>3, <2>4 DEF CopiesIn, CalmIInv, IInv, TypeOK
  <2>6. Held = files[path[p]]
    BY <2>2, <2>3, HeldSingle DEF Held
  <2>7. CASE Rank[path[p]] < Rank[call[p].to]
    <3>1. Held' = files[path[p]]
      BY <2>3, <2>4, <2>5, <2>7, HeldPair DEF Held
    <3>2. QED
      BY <2>6, <3>1
  <2>8. CASE Rank[call[p].to] < Rank[path[p]]
    <3>1. CopiesIn(files') = {call[p].to, path[p]}
      BY <2>5
    <3>2. Held' = buf[p]
      BY <2>3, <2>4, <2>5, <2>8, <3>1, HeldPair DEF Held
    <3>3. QED
      BY <2>1, <2>3, <2>6, <3>2, MoveTakesEffect
  <2>9. QED
    BY <2>3, <2>4, <2>7, <2>8, RankOrder
<1>4. ASSUME NEW p \in Procs, Remove(p) PROVE [Abstract!Next]_Held
  <2>1. /\ pc[p] = "remove"
        /\ files' = [files EXCEPT ![path[p]] = NoFile]
    BY <1>4 DEF Remove, Goto
  <2>2. /\ CopiesIn(files) = {path[p], call[p].to}
        /\ path[p] = call[p].from /\ call[p] \in Calls /\ call[p].kind = "move"
        /\ files[call[p].to] = Moved(files[path[p]], call[p].to)
        /\ Valid(files[call[p].to])
    BY <2>1 DEF CalmIInv, PairInv, IInv, RemoveInv, TypeOK, Copies
  <2>3. call[p].to \in Folders /\ path[p] \in Folders /\ path[p] # call[p].to
    BY <2>2, CallShape
  <2>4. files[path[p]] \in Receipt /\ files[path[p]].state = path[p]
    BY <2>2, <2>3 DEF CopiesIn, CalmIInv, IInv, TypeOK, FileOf
  <2>5. /\ CopiesIn(files') = {call[p].to}
        /\ files'[call[p].to] = files[call[p].to]
    BY <2>1, <2>2, <2>3 DEF CopiesIn, CalmIInv, IInv, TypeOK
  <2>6. Held' = files[call[p].to]
    BY <2>3, <2>5, HeldSingle DEF Held
  <2>7. CASE Rank[path[p]] < Rank[call[p].to]
    <3>1. Held = files[path[p]]
      BY <2>2, <2>3, <2>7, HeldPair DEF Held
    <3>2. QED
      BY <2>2, <2>4, <2>6, <3>1, MoveTakesEffect
  <2>8. CASE Rank[call[p].to] < Rank[path[p]]
    <3>1. CopiesIn(files) = {call[p].to, path[p]}
      BY <2>2
    <3>2. Held = files[call[p].to]
      BY <2>3, <2>8, <3>1, HeldPair DEF Held
    <3>3. QED
      BY <2>6, <3>2
  <2>9. QED
    BY <2>3, <2>7, <2>8, RankOrder
<1>5. ASSUME NEW p \in Procs, ~WriteUpdate(p), ~WriteMove(p), ~Remove(p), Step(p)
      PROVE  Held' = Held
  <2>1. files' = files
    BY <1>5 DEF Step, Work, Start, Lock, Load, Refuse, Unlock, WriteFails, RemoveFails, Crash
  <2>2. QED
    BY <2>1 DEF Held
<1>6. CASE UNCHANGED vars
  BY <1>6 DEF vars, Held
<1>7. QED
  BY <1>1, <1>2, <1>3, <1>4, <1>5, <1>6 DEF Next

\* Without faults the store, for any number of processes, is a receipt that
\* is created once and then updated and moved in single steps.
THEOREM Refinement ==
    ASSUME MaxFaults = 0
    PROVE  Spec => ImplementsAtomicReceipt
<1>1. Init => Abstract!Init
  BY DEF Init, Abstract!Init, Held, HeldIn, CopiesIn
<1>2. CalmIInv /\ [Next]_vars => [Abstract!Next]_Held
  BY StepRefines, MaxFaults = 0
<1>3. Spec => []CalmIInv
  BY CalmInvariant, MaxFaults = 0
<1>4. QED
  BY <1>1, <1>2, <1>3, PTL DEF Spec, ImplementsAtomicReceipt, Abstract!Spec

-----------------------------------------------------------------------------
(***************************************************************************)
(* ReadReceipt beside the writers.  A reader changes nothing of the store, *)
(* so what was proved of Spec holds of ReaderSpec.                         *)
(***************************************************************************)
LEMMA ReaderStepIsStoreStep ==
    ASSUME [ReaderNext]_allVars
    PROVE  [Next]_vars
BY DEF ReaderNext, allVars, vars

\* Any number of readers leave the store's behaviours as they were.
THEOREM ReadersChangeNothing == ReaderSpec => Spec
<1>1. ReaderInit => Init
  BY DEF ReaderInit
<1>2. [ReaderNext]_allVars => [Next]_vars
  BY ReaderStepIsStoreStep
<1>3. QED
  BY <1>1, <1>2, PTL DEF ReaderSpec, Spec

\* The folders by rank.
LEMMA FolderRank ==
    /\ \A f \in Folders : Rank[f] \in 1..Last
    /\ \A i \in 1..Last : FolderAt(i) \in Folders /\ Rank[FolderAt(i)] = i
    /\ \A f \in Folders : FolderAt(Rank[f]) = f
<1>1. \A f \in Folders : Rank[f] \in 1..Last
  BY DEF Rank, Last
<1>2. \A f, g \in Folders : Rank[f] = Rank[g] => f = g
  BY DEF Rank
<1>3. ASSUME NEW i \in 1..Last
      PROVE  FolderAt(i) \in Folders /\ Rank[FolderAt(i)] = i
  <2>1. \E f \in Folders : Rank[f] = i
    <3>1. i = 1 \/ i = 2 \/ i = 3 \/ i = 4
      BY DEF Last
    <3>2. /\ Rank["unread"] = 1 /\ Rank["active"] = 2
          /\ Rank["done"] = 3 /\ Rank["dead"] = 4
      BY DEF Rank
    <3>3. QED
      BY <3>1, <3>2
  <2>2. QED
    BY <2>1, Zenon DEF FolderAt
<1>4. ASSUME NEW f \in Folders PROVE FolderAt(Rank[f]) = f
  BY <1>1, <1>2, <1>3, <1>4
<1>5. QED
  BY <1>1, <1>3, <1>4

\* What the store holds is a receipt of some folder, or no file.
LEMMA HeldShape ==
    ASSUME TypeOK
    PROVE  /\ Held \in Receipt \cup {NoFile}
           /\ Copies = {} <=> Held = NoFile
           /\ Held # NoFile => Found \in Copies /\ Held = files[Found]
<1>1. CASE Copies = {}
  BY <1>1 DEF Held, HeldIn, Copies
<1>2. CASE Copies # {}
  <2>1. Found \in Copies
    BY <1>2, FoundIsFirst DEF Found, Copies
  <2>2. Held = files[Found]
    BY <1>2 DEF Held, HeldIn, Found, Copies
  <2>3. files[Found] \in Receipt /\ files[Found] # NoFile
    BY <2>1 DEF TypeOK, Copies, CopiesIn
  <2>4. QED
    BY <1>2, <2>1, <2>2, <2>3
<1>3. QED
  BY <1>1, <1>2

(***************************************************************************)
(* The search has passed the folders that rank before the one it is at: as *)
(* long as no file appeared or went since the read began, none of them     *)
(* holds a copy, the folder whose glob matched still does, and the store   *)
(* is not empty if it was not.                                             *)
(***************************************************************************)
OutsideInv == \A r \in Readers : at[r] = 0 => result[r] = NoResult /\ ~opening[r]

SearchInv ==
    \A r \in Readers : Reading(r) /\ ~crossed[r] =>
        /\ \A f \in Copies : Rank[f] >= at[r]
        /\ opening[r] => FolderAt(at[r]) \in Copies
        /\ held[r] # NoFile => Copies # {}

ReaderIInv == IInv /\ ReaderTypeOK /\ OutsideInv /\ SearchInv /\ NotFoundMeansMoved

LEMMA InitReader == ReaderInit => ReaderIInv
<1>1. ReaderInit => Init
  BY DEF ReaderInit
<1>2. Init => IInv
  BY InitIInv
<1>3. ASSUME ReaderInit PROVE ReaderTypeOK /\ OutsideInv /\ SearchInv /\ NotFoundMeansMoved
  <2>1. TypeOK
    BY <1>1, <1>2, <1>3 DEF IInv
  <2>2. QED
    BY <1>3, <2>1, ReceiptReaderAssumption
       DEF ReaderInit, ReaderTypeOK, OutsideInv, SearchInv, NotFoundMeansMoved,
           Reading, Last
<1>4. QED
  BY <1>1, <1>2, <1>3 DEF ReaderIInv

\* A step of the store shows to every read under way.
LEMMA StoreStepReader ==
    ASSUME ReaderIInv, TypeOK', UNCHANGED readVars, Observe
    PROVE  (ReaderTypeOK /\ OutsideInv /\ SearchInv /\ NotFoundMeansMoved)'
<1>1. /\ at' = at /\ opening' = opening /\ result' = result
      /\ at \in [Readers -> 0..Last]
      /\ opening \in [Readers -> BOOLEAN]
      /\ result \in [Readers -> Receipt \cup {NoResult, NotFound}]
      /\ held \in [Readers -> Receipt \cup {NoFile}]
      /\ crossed \in [Readers -> BOOLEAN]
  BY DEF readVars, ReaderIInv, ReaderTypeOK
<1>2. \A r \in Readers :
        /\ held'[r] = IF at[r] = 0 THEN NoFile ELSE held[r]
        /\ crossed'[r] = (/\ at[r] # 0
                          /\ \/ crossed[r]
                             \/ result[r] = NoResult /\ at[r] # 0 /\ Copies' # Copies)
  BY <1>1 DEF Observe
<1>3. ReaderTypeOK'
  <2>1. held' \in [Readers -> Receipt \cup {NoFile}]
    BY <1>1 DEF Observe
  <2>2. crossed' \in [Readers -> BOOLEAN]
    BY <1>1 DEF Observe
  <2>3. QED
    BY <1>1, <2>1, <2>2 DEF ReaderTypeOK
<1>4. OutsideInv'
  BY <1>1 DEF ReaderIInv, OutsideInv
<1>5. SearchInv'
  <2>1. SUFFICES ASSUME NEW r \in Readers, at[r] # 0, result[r] = NoResult, ~crossed'[r]
                 PROVE  /\ \A f \in Copies' : Rank[f] >= at[r]
                        /\ opening[r] => FolderAt(at[r]) \in Copies'
                        /\ held'[r] # NoFile => Copies' # {}
    BY <1>1 DEF SearchInv, Reading, FolderAt
  <2>2. Copies' = Copies /\ ~crossed[r] /\ held'[r] = held[r]
    BY <1>2, <2>1
  <2>3. QED
    BY <2>1, <2>2 DEF ReaderIInv, SearchInv, Reading
<1>6. NotFoundMeansMoved'
  <2>1. SUFFICES ASSUME NEW r \in Readers, result[r] = NotFound
                 PROVE  crossed'[r] \/ held'[r] = NoFile
    BY <1>1 DEF NotFoundMeansMoved
  <2>2. crossed[r] \/ held[r] = NoFile
    BY <2>1 DEF ReaderIInv, NotFoundMeansMoved
  <2>3. QED
    BY <1>2, <2>2
<1>7. QED
  BY <1>3, <1>4, <1>5, <1>6

\* What a step of one reader leaves of the histories.
LEMMA ObserveRead ==
    ASSUME ReaderIInv, UNCHANGED vars, Observe, at' \in [Readers -> 0..Last],
           NEW r \in Readers
    PROVE  /\ Copies' = Copies
           /\ held' \in [Readers -> Receipt \cup {NoFile}]
           /\ crossed' \in [Readers -> BOOLEAN]
           /\ held'[r] = IF at'[r] = 0 THEN NoFile ELSE IF at[r] = 0 THEN Held ELSE held[r]
           /\ crossed'[r] = (at'[r] # 0 /\ crossed[r])
<1>1. Copies' = Copies
  BY DEF vars, Copies, CopiesIn
<1>2. /\ Held \in Receipt \cup {NoFile}
      /\ held \in [Readers -> Receipt \cup {NoFile}]
      /\ crossed \in [Readers -> BOOLEAN]
  BY HeldShape DEF ReaderIInv, IInv, ReaderTypeOK
<1>3. held' \in [Readers -> Receipt \cup {NoFile}]
  BY <1>2 DEF Observe
<1>4. crossed' \in [Readers -> BOOLEAN]
  BY <1>2 DEF Observe
<1>5. held'[r] = IF at'[r] = 0 THEN NoFile ELSE IF at[r] = 0 THEN Held ELSE held[r]
  BY DEF Observe
<1>6. crossed'[r] = (at'[r] # 0 /\ crossed[r])
  BY <1>1, <1>2 DEF Observe
<1>7. QED
  BY <1>1, <1>3, <1>4, <1>5, <1>6

\* A step of one reader: the four facts of the reader that takes it, and the
\* others are where they were.
LEMMA ReadStepReader ==
    ASSUME ReaderIInv, NEW p \in Readers, ReadStep(p), UNCHANGED vars, Observe
    PROVE  ReaderIInv'
<1> USE ReceiptReaderAssumption
<1>1. /\ at \in [Readers -> 0..Last]
      /\ opening \in [Readers -> BOOLEAN]
      /\ result \in [Readers -> Receipt \cup {NoResult, NotFound}]
  BY DEF ReaderIInv, ReaderTypeOK
<1>2. /\ IInv' /\ TypeOK'
      /\ files' = files /\ Copies' = Copies
  <2>1. IInv'
    BY StepIInv DEF ReaderIInv
  <2>2. QED
    BY <2>1 DEF IInv, vars, Copies, CopiesIn
<1>3. /\ at' \in [Readers -> 0..Last]
      /\ opening' \in [Readers -> BOOLEAN]
      /\ result' \in [Readers -> Receipt \cup {NoResult, NotFound}]
      /\ \A r \in Readers \ {p} :
           at'[r] = at[r] /\ opening'[r] = opening[r] /\ result'[r] = result[r]
  <2>1. CASE StartRead(p)
    BY <1>1, <2>1 DEF StartRead, Last
  <2>2. CASE GlobHit(p)
    BY <1>1, <2>2 DEF GlobHit
  <2>3. CASE GlobMiss(p)
    BY <1>1, <2>3 DEF GlobMiss, Last
  <2>4. CASE Open(p)
    <3>1. at[p] \in 1..Last
      BY <1>1, <2>4 DEF Open, Reading, Last
    <3>2. files[FolderAt(at[p])] \in Receipt \cup {NoFile}
      BY <3>1, FolderRank DEF ReaderIInv, IInv, TypeOK
    <3>3. QED
      BY <1>1, <2>4, <3>2 DEF Open
  <2>5. CASE ReturnRead(p)
    BY <1>1, <2>5 DEF ReturnRead, Last
  <2>6. QED
    BY <2>1, <2>2, <2>3, <2>4, <2>5 DEF ReadStep
<1>4. ReaderTypeOK'
  BY <1>2, <1>3, ObserveRead DEF ReaderTypeOK
<1>5. ASSUME NEW r \in Readers
      PROVE  /\ held'[r] = IF at'[r] = 0 THEN NoFile ELSE IF at[r] = 0 THEN Held ELSE held[r]
             /\ crossed'[r] = (at'[r] # 0 /\ crossed[r])
  BY <1>3, ObserveRead
<1>6. /\ at[p] = 0 => result[p] = NoResult /\ ~opening[p]
      /\ Reading(p) /\ ~crossed[p] =>
           /\ \A f \in Copies : Rank[f] >= at[p]
           /\ opening[p] => FolderAt(at[p]) \in Copies
           /\ held[p] # NoFile => Copies # {}
      /\ result[p] = NotFound => crossed[p] \/ held[p] = NoFile
  BY DEF ReaderIInv, OutsideInv, SearchInv, NotFoundMeansMoved
<1> DEFINE Outside(r) == at'[r] = 0 => result'[r] = NoResult /\ ~opening'[r]
           Search(r) == at'[r] # 0 /\ result'[r] = NoResult /\ ~crossed'[r] =>
                          /\ \A f \in Copies : Rank[f] >= at'[r]
                          /\ opening'[r] => FolderAt(at'[r]) \in Copies
                          /\ held'[r] # NoFile => Copies # {}
           Told(r) == result'[r] = NotFound => crossed'[r] \/ held'[r] = NoFile
<1>7. ASSUME NEW r \in Readers \ {p} PROVE Outside(r) /\ Search(r) /\ Told(r)
  <2>1. /\ at'[r] = at[r] /\ opening'[r] = opening[r] /\ result'[r] = result[r]
        /\ held'[r] = IF at[r] = 0 THEN NoFile ELSE held[r]
        /\ crossed'[r] = (at[r] # 0 /\ crossed[r])
    BY <1>3, <1>5
  <2>2. QED
    BY <2>1 DEF ReaderIInv, OutsideInv, SearchInv, NotFoundMeansMoved, Reading
<1>8. Outside(p) /\ Search(p) /\ Told(p)
  <2>1. CASE StartRead(p)
    <3>1. at[p] = 0 /\ at'[p] = 1 /\ opening'[p] = opening[p] /\ result'[p] = result[p]
      BY <1>1, <2>1 DEF StartRead
    <3>2. result[p] = NoResult /\ ~opening[p] /\ held'[p] = Held
      BY <1>5, <1>6, <3>1
    <3>3. \A f \in Copies : Rank[f] >= 1
      BY FolderRank DEF Copies, CopiesIn, Last
    <3>4. Held # NoFile => Copies # {}
      BY HeldShape DEF ReaderIInv, IInv
    <3>5. QED
      BY <3>1, <3>2, <3>3, <3>4
  <2>2. CASE GlobHit(p)
    <3>1. /\ at[p] # 0 /\ result[p] = NoResult
          /\ at' = at /\ result' = result
          /\ files[FolderAt(at[p])] # NoFile
      BY <2>2 DEF GlobHit, Reading
    <3>2. at[p] \in 1..Last
      BY <1>1, <3>1 DEF Last
    <3>3. FolderAt(at[p]) \in Copies
      BY <3>1, <3>2, FolderRank DEF Copies, CopiesIn
    <3>4. held'[p] = held[p] /\ crossed'[p] = crossed[p]
      BY <1>4, <1>5, <3>1 DEF ReaderIInv, ReaderTypeOK
    <3>5. QED
      BY <1>6, <3>1, <3>3, <3>4 DEF Reading
  <2>3. CASE GlobMiss(p)
    <3>1. /\ at[p] # 0 /\ result[p] = NoResult /\ ~opening[p]
          /\ opening' = opening
          /\ files[FolderAt(at[p])] = NoFile
          /\ IF at[p] < Last
             THEN at' = [at EXCEPT ![p] = @ + 1] /\ result' = result
             ELSE result' = [result EXCEPT ![p] = NotFound] /\ at' = at
      BY <2>3 DEF GlobMiss, Reading
    <3>2. at[p] \in 1..Last /\ at'[p] # 0
      BY <1>1, <3>1 DEF Last
    <3>3. held'[p] = held[p] /\ crossed'[p] = crossed[p]
      BY <1>4, <1>5, <3>1, <3>2 DEF ReaderIInv, ReaderTypeOK
    <3>4. ASSUME ~crossed[p], NEW f \in Copies PROVE Rank[f] >= at[p] + 1
      <4>1. Rank[f] >= at[p] /\ f \in Folders /\ files[f] # NoFile
        BY <1>6, <3>1, <3>4 DEF Reading, Copies, CopiesIn
      <4>2. Rank[f] \in 1..Last /\ Rank[f] # at[p]
        BY <3>1, <4>1, FolderRank
      <4>3. QED
        BY <3>2, <4>1, <4>2 DEF Last
    <3>5. CASE at[p] < Last
      <4>1. at'[p] = at[p] + 1 /\ result'[p] = NoResult /\ ~opening'[p]
        BY <1>1, <3>1, <3>5
      <4>2. QED
        BY <1>6, <3>1, <3>3, <3>4, <4>1 DEF Reading
    <3>6. CASE ~(at[p] < Last)
      <4>1. at[p] = 4 /\ result'[p] = NotFound
        BY <1>1, <3>1, <3>2, <3>6 DEF Last
      <4>2. ~crossed[p] => Copies = {}
        <5>1. ASSUME ~crossed[p], NEW f \in Copies PROVE FALSE
          <6>1. Rank[f] \in 1..4
            BY FolderRank DEF Copies, CopiesIn, Last
          <6>2. QED
            BY <3>4, <4>1, <5>1, <6>1
        <5>2. QED
          BY <5>1
      <4>3. ~crossed[p] => held[p] = NoFile
        BY <1>6, <3>1, <4>2 DEF Reading
      <4>4. QED
        BY <3>2, <3>3, <4>1, <4>3
    <3>7. QED
      BY <3>5, <3>6
  <2>4. CASE Open(p)
    <3>1. /\ at[p] # 0 /\ result[p] = NoResult /\ opening[p]
          /\ at' = at /\ opening' = opening
          /\ result'[p] = IF files[FolderAt(at[p])] = NoFile
                          THEN NotFound ELSE files[FolderAt(at[p])]
      BY <1>1, <2>4 DEF Open, Reading
    <3>2. at[p] \in 1..Last
      BY <1>1, <3>1 DEF Last
    <3>3. FolderAt(at[p]) \in Folders /\ files[FolderAt(at[p])] \in Receipt \cup {NoFile}
      BY <3>2, FolderRank DEF ReaderIInv, IInv, TypeOK
    <3>4. held'[p] = held[p] /\ crossed'[p] = crossed[p]
      BY <1>4, <1>5, <3>1 DEF ReaderIInv, ReaderTypeOK
    <3>5. result'[p] = NotFound => crossed[p]
      BY <1>6, <3>1, <3>3 DEF Reading, Copies, CopiesIn
    <3>6. result'[p] # NoResult
      BY <3>1, <3>3
    <3>7. QED
      BY <3>1, <3>4, <3>5, <3>6
  <2>5. CASE ReturnRead(p)
    <3>1. at'[p] = 0 /\ ~opening'[p] /\ result'[p] = NoResult
      BY <1>1, <2>5 DEF ReturnRead
    <3>2. QED
      BY <3>1
  <2>6. QED
    BY <2>1, <2>2, <2>3, <2>4, <2>5 DEF ReadStep
<1>9. \A r \in Readers : Outside(r) /\ Search(r) /\ Told(r)
  BY <1>7, <1>8
<1>10. OutsideInv' /\ SearchInv' /\ NotFoundMeansMoved'
  BY <1>2, <1>9 DEF OutsideInv, SearchInv, NotFoundMeansMoved, Reading, FolderAt
<1>11. QED
  BY <1>2, <1>4, <1>10 DEF ReaderIInv

LEMMA StepReader ==
    ASSUME ReaderIInv, [ReaderNext]_allVars
    PROVE  ReaderIInv'
<1>1. IInv'
  BY StepIInv, ReaderStepIsStoreStep DEF ReaderIInv
<1>2. ASSUME Next, UNCHANGED readVars, Observe PROVE ReaderIInv'
  BY <1>1, <1>2, StoreStepReader DEF ReaderIInv, IInv
<1>3. ASSUME NEW r \in Readers, ReadStep(r), UNCHANGED vars, Observe PROVE ReaderIInv'
  BY <1>3, ReadStepReader
<1>4. CASE UNCHANGED allVars
  BY <1>1, <1>4
     DEF ReaderIInv, IInv, ReaderTypeOK, OutsideInv, SearchInv, NotFoundMeansMoved, Reading,
         FolderAt, Copies, CopiesIn, allVars, vars, readVars, historyVars
<1>5. QED
  BY <1>2, <1>3, <1>4 DEF ReaderNext

\* The strengthening is inductive, for any number of readers and of faults.
THEOREM ReaderInductive == ReaderSpec => []ReaderIInv
<1>1. ReaderIInv /\ [ReaderNext]_allVars => ReaderIInv'
  BY StepReader
<1>2. QED
  BY InitReader, <1>1, PTL DEF ReaderSpec

\* A reader is at a folder of the inbox and returns a receipt or an error.
THEOREM ReaderTypes == ReaderSpec => []ReaderTypeOK
<1>1. ReaderIInv => ReaderTypeOK
  BY DEF ReaderIInv
<1>2. QED
  BY ReaderInductive, <1>1, PTL

\* ReadReceipt only reports "not found" of a receipt that was not there when
\* it began or that a file operation took from under the search, whatever
\* crashes and failed removals there are.
THEOREM NotFoundForCause == ReaderSpec => []NotFoundMeansMoved
<1>1. ReaderIInv => NotFoundMeansMoved
  BY DEF ReaderIInv
<1>2. QED
  BY ReaderInductive, <1>1, PTL

-----------------------------------------------------------------------------
(***************************************************************************)
(* Without faults every copy carries every update, so whichever copy a     *)
(* read meets is as new as the store was when it began.                    *)
(***************************************************************************)
BehindInv == \A r \in Readers : held[r] # NoFile => held[r].rev <= committed

FreshIInv == ReaderIInv /\ CalmIInv /\ BehindInv /\ ReadNotStale

\* The number of updates on disk never goes down.
LEMMA CommittedGrows ==
    ASSUME IInv, [Next]_vars
    PROVE  committed' \in Nat /\ committed <= committed'
BY DEF IInv, TypeOK, vars, Next, CreateReceipt, Step, Start, Work, Lock, Load, Refuse, WriteUpdate, WriteMove,
       Remove, Unlock, WriteFails, RemoveFails, Crash

LEMMA StepFresh ==
    ASSUME MaxFaults = 0, FreshIInv, [ReaderNext]_allVars
    PROVE  FreshIInv'
<1> USE ReceiptReaderAssumption, ReceiptStoreAssumption
<1>1. ReaderIInv'
  BY StepReader DEF FreshIInv
<1>2. CalmIInv'
  BY StepCalm, ReaderStepIsStoreStep DEF FreshIInv
<1>3. committed \in Nat /\ committed' \in Nat /\ committed <= committed'
  BY CommittedGrows, ReaderStepIsStoreStep DEF FreshIInv, ReaderIInv, IInv, TypeOK
<1>4. Held # NoFile => Held \in Receipt /\ Held.rev = committed
  BY HeldShape DEF FreshIInv, CalmIInv, RevInv, IInv, TypeOK, Copies, CopiesIn
<1>5. ASSUME NEW r \in Readers
      PROVE  /\ held[r] # NoFile => held[r] \in Receipt /\ held[r].rev <= committed
             /\ result[r] \in Receipt /\ held[r] # NoFile => result[r].rev >= held[r].rev
             /\ at[r] = 0 => result[r] = NoResult
  BY DEF FreshIInv, ReaderIInv, ReaderTypeOK, BehindInv, ReadNotStale, OutsideInv
<1>6. ASSUME Observe PROVE BehindInv'
  <2>1. SUFFICES ASSUME NEW r \in Readers, held'[r] # NoFile
                 PROVE  held'[r].rev <= committed'
    BY DEF BehindInv
  <2>2. held'[r] = Held \/ held'[r] = held[r]
    BY <1>6, <2>1 DEF Observe
  <2>3. CASE held'[r] = Held
    BY <1>3, <1>4, <2>1, <2>3
  <2>4. CASE held'[r] = held[r]
    <3>1. held[r] \in Receipt /\ held[r].rev <= committed
      BY <1>5, <2>1, <2>4
    <3>2. held[r].rev \in Nat
      BY <3>1 DEF Receipt
    <3>3. QED
      BY <1>3, <2>4, <3>1, <3>2
  <2>5. QED
    BY <2>2, <2>3, <2>4
<1>7. ASSUME Observe, UNCHANGED readVars PROVE ReadNotStale'
  <2>1. SUFFICES ASSUME NEW r \in Readers, result[r] \in Receipt, held'[r] # NoFile
                 PROVE  result[r].rev >= held'[r].rev
    BY <1>7 DEF readVars, ReadNotStale
  <2>2. at[r] # 0
    BY <1>5, <2>1
  <2>3. held'[r] = held[r]
    BY <1>7, <2>1, <2>2 DEF Observe, readVars
  <2>4. QED
    BY <1>5, <2>1, <2>3
<1>8. ASSUME NEW p \in Readers, ReadStep(p), UNCHANGED vars, Observe PROVE ReadNotStale'
  <2>1. SUFFICES ASSUME NEW r \in Readers, result'[r] \in Receipt, held'[r] # NoFile
                 PROVE  result'[r].rev >= held'[r].rev
    BY DEF ReadNotStale
  <2>2. CASE result'[r] = result[r]
    <3>1. at[r] # 0 /\ result[r] \in Receipt
      BY <1>5, <2>1, <2>2
    <3>2. held'[r] = held[r]
      BY <1>8, <2>1, <3>1 DEF Observe
    <3>3. QED
      BY <1>5, <2>1, <2>2, <3>1, <3>2
  <2>3. CASE result'[r] # result[r]
    <3>1. result \in [Readers -> Receipt \cup {NoResult, NotFound}]
      BY DEF FreshIInv, ReaderIInv, ReaderTypeOK
    <3>2. r = p /\ Open(p)
      BY <1>8, <2>1, <2>3, <3>1 DEF ReadStep, StartRead, GlobHit, GlobMiss, Open, ReturnRead
    <3>3. /\ at[p] # 0 /\ at' = at
          /\ result'[p] = IF files[FolderAt(at[p])] = NoFile
                          THEN NotFound ELSE files[FolderAt(at[p])]
      BY <3>1, <3>2 DEF Open, Reading
    <3>4. FolderAt(at[p]) \in Folders
      BY <3>3, FolderRank DEF FreshIInv, ReaderIInv, ReaderTypeOK, Last
    <3>5. files[FolderAt(at[p])] # NoFile /\ result'[p] = files[FolderAt(at[p])]
      BY <2>1, <3>2, <3>3
    <3>6. result'[p].rev = committed
      BY <3>4, <3>5 DEF FreshIInv, CalmIInv, RevInv, Copies, CopiesIn
    <3>7. held'[p] = held[p]
      BY <1>8, <2>1, <3>2, <3>3 DEF Observe
    <3>8. held[p] \in Receipt /\ held[p].rev <= committed
      BY <1>5, <2>1, <3>2, <3>7
    <3>9. held[p].rev \in Nat
      BY <3>8 DEF Receipt
    <3>10. QED
      BY <1>3, <3>2, <3>6, <3>7, <3>8, <3>9
  <2>4. QED
    BY <2>2, <2>3
<1>9. CASE UNCHANGED allVars
  <2>1. BehindInv' /\ ReadNotStale'
    BY <1>9 DEF FreshIInv, BehindInv, ReadNotStale, allVars, vars, readVars, historyVars
  <2>2. QED
    BY <1>1, <1>2, <2>1 DEF FreshIInv
<1>10. QED
  BY <1>1, <1>2, <1>6, <1>7, <1>8, <1>9 DEF ReaderNext, FreshIInv

\* Without faults a successful read never returns an older update than the
\* one the store held when the read began, although it takes no lock.
THEOREM ReadsAreFresh ==
    ASSUME MaxFaults = 0
    PROVE  ReaderSpec => []ReadNotStale
<1>1. ReaderInit => FreshIInv
  <2>1. ReaderInit => Init
    BY DEF ReaderInit
  <2>2. QED
    BY <2>1, InitReader, InitCalm, ReceiptReaderAssumption
       DEF ReaderInit, FreshIInv, BehindInv, ReadNotStale
<1>2. FreshIInv /\ [ReaderNext]_allVars => FreshIInv'
  BY StepFresh, MaxFaults = 0
<1>3. FreshIInv => ReadNotStale
  BY DEF FreshIInv
<1>4. QED
  BY <1>1, <1>2, <1>3, PTL DEF ReaderSpec
=============================================================================
