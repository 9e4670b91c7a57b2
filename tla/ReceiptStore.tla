---------------------------- MODULE ReceiptStore ----------------------------
(***************************************************************************)
(* The receipt half of internal/mailbox/store.go for one (agent, message): *)
(* four inbox folders that each hold at most one file of the receipt, the  *)
(* flock taken per receipt, and UpdateReceipt and MoveReceipt run by       *)
(* several processes, broken into the steps another process, a crash or a  *)
(* full disk can fall between.                                             *)
(*                                                                         *)
(* A write is one step: writeFileAtomically writes a temporary file and    *)
(* renames it.  The search for the file and the read of it are one step    *)
(* (Load), because both run under the lock and only lock holders change    *)
(* the files; ReceiptReader models the reads that take no lock.            *)
(***************************************************************************)
EXTENDS Receipts

CONSTANTS
  Procs,        \* processes that change the receipt (CLI commands, daemon)
  NoProc,       \* nobody holds the lock
  NoFile,       \* a folder without a file of this receipt
  MaxUpdates,   \* bound: no update starts after this many are on disk
  MaxFaults     \* bound: crashes and failed removals

ASSUME ReceiptStoreAssumption ==
    /\ NoProc \notin Procs
    /\ NoFile \notin Receipt
    /\ MaxUpdates \in Nat
    /\ MaxFaults \in Nat

\* A call of UpdateReceipt or MoveReceipt, with its arguments.
UpdateCall(effect) == [kind |-> "update", effect |-> effect,
                       from |-> "unread", to |-> "unread"]
MoveCall(edge) == [kind |-> "move", effect |-> "keep",
                   from |-> edge[1], to |-> edge[2]]
UpdateCalls == {UpdateCall(effect) : effect \in DoneEffects}
MoveCalls == {MoveCall(edge) : edge \in Edges}
Calls == UpdateCalls \cup MoveCalls
NoCall == UpdateCall("keep")    \* the arguments of no call

VARIABLES
  files,      \* per folder, the receipt's file or NoFile
  lock,       \* locks/receipts/<agent>/<message>.lock
  pc,         \* where each process is in its call
  call,       \* the call each process is in
  path,       \* the folder findReceiptPath found for it
  buf,        \* the receipt it is about to write
  committed,  \* history: how many updates reached the disk
  faults      \* history: how many faults happened

vars == <<files, lock, pc, call, path, buf, committed, faults>>

CriticalSteps == {"load", "write", "remove", "unlock"}
Steps == {"idle", "lock"} \cup CriticalSteps

FileOf(f) == {r \in Receipt : r.state = f /\ Valid(r)} \cup {NoFile}

\* Every file carries the folder_state of its folder and passes Validate.
TypeOK ==
    /\ files \in [Folders -> Receipt \cup {NoFile}]
    /\ \A f \in Folders : files[f] \in FileOf(f)
    /\ lock \in Procs \cup {NoProc}
    /\ pc \in [Procs -> Steps]
    /\ call \in [Procs -> Calls]
    /\ path \in [Procs -> Folders]
    /\ buf \in [Procs -> {r \in Receipt : Valid(r)}]
    /\ committed \in Nat
    /\ faults \in 0..MaxFaults

Init ==
    /\ files = [f \in Folders |-> NoFile]
    /\ lock = NoProc
    /\ pc = [p \in Procs |-> "idle"]
    /\ call = [p \in Procs |-> NoCall]
    /\ path = [p \in Procs |-> "unread"]
    /\ buf = [p \in Procs |-> NewReceipt]
    /\ committed = 0
    /\ faults = 0

-----------------------------------------------------------------------------
\* The folders of an inbox that hold a file, the one findReceiptPath returns,
\* and what is read there.
CopiesIn(inbox) == {f \in Folders : inbox[f] # NoFile}
FoundIn(inbox) ==
    CHOOSE f \in CopiesIn(inbox) : \A g \in CopiesIn(inbox) : Rank[f] <= Rank[g]
HeldIn(inbox) == IF CopiesIn(inbox) = {} THEN NoFile ELSE inbox[FoundIn(inbox)]

Copies == CopiesIn(files)
Found == FoundIn(files)
Held == HeldIn(files)

Goto(p, from, to) == pc[p] = from /\ pc' = [pc EXCEPT ![p] = to]

\* The call is over: its arguments and locals are gone.
Leave(p) ==
    /\ pc' = [pc EXCEPT ![p] = "idle"]
    /\ call' = [call EXCEPT ![p] = NoCall]
    /\ path' = [path EXCEPT ![p] = "unread"]
    /\ buf' = [buf EXCEPT ![p] = NewReceipt]

\* CreateReceipt: the message identifier is fresh, so it is called once.
CreateReceipt ==
    /\ Copies = {}
    /\ files' = [files EXCEPT !["unread"] = NewReceipt]
    /\ UNCHANGED <<lock, pc, call, path, buf, committed, faults>>

Start(p, c) ==
    /\ Goto(p, "idle", "lock")
    /\ c.kind = "update" => committed < MaxUpdates
    /\ call' = [call EXCEPT ![p] = c]
    /\ UNCHANGED <<files, lock, path, buf, committed, faults>>

\* flock(LOCK_EX) blocks while another open file description holds the lock.
Lock_NoWait(p) ==
    /\ Goto(p, "lock", "load")
    /\ lock' = p
    /\ UNCHANGED <<files, call, path, buf, committed, faults>>

Lock(p) ==
    /\ lock = NoProc
    /\ Goto(p, "lock", "load")
    /\ lock' = p
    /\ UNCHANGED <<files, call, path, buf, committed, faults>>

\* The receipt a call would write over the one it found.
Outcome_KeepState(c, r) == IF c.kind = "update" THEN Updated(r, c.effect) ELSE r

Outcome(c, r) ==
    IF c.kind = "update" THEN Updated(r, c.effect) ELSE Moved(r, c.to)

\* A move requires the receipt in its source folder; both validate the result.
Accepted(c, f) ==
    /\ c.kind = "move" => f = c.from
    /\ Valid(Outcome(c, files[f]))

Load(p) ==
    /\ Goto(p, "load", "write")
    /\ Copies # {}
    /\ Accepted(call[p], Found)
    /\ path' = [path EXCEPT ![p] = Found]
    /\ buf' = [buf EXCEPT ![p] = Outcome(call[p], files[Found])]
    /\ UNCHANGED <<files, lock, call, committed, faults>>

\* Every error return before the write: the deferred unlock still runs.
Refuse_KeepLock(p) ==
    /\ pc[p] = "load"
    /\ Copies # {} => ~Accepted(call[p], Found)
    /\ Leave(p)
    /\ UNCHANGED <<files, lock, committed, faults>>

Refuse(p) ==
    /\ Goto(p, "load", "unlock")
    /\ Copies # {} => ~Accepted(call[p], Found)
    /\ UNCHANGED <<files, lock, call, path, buf, committed, faults>>

WriteUpdate(p) ==
    /\ call[p].kind = "update"
    /\ Goto(p, "write", "unlock")
    /\ files' = [files EXCEPT ![path[p]] = buf[p]]
    /\ committed' = committed + 1
    /\ UNCHANGED <<lock, call, path, buf, faults>>

\* MoveReceipt writes the new file first and removes the old one second.
WriteMove_RemoveFirst(p) ==
    /\ call[p].kind = "move"
    /\ IF files[path[p]] # NoFile
       THEN /\ pc[p] = "write"
            /\ files' = [files EXCEPT ![path[p]] = NoFile]
            /\ UNCHANGED pc
       ELSE /\ Goto(p, "write", "unlock")
            /\ files' = [files EXCEPT ![call[p].to] = buf[p]]
    /\ UNCHANGED <<lock, call, path, buf, committed, faults>>

WriteMove_NoRemove(p) ==
    /\ call[p].kind = "move"
    /\ Goto(p, "write", "unlock")
    /\ files' = [files EXCEPT ![call[p].to] = buf[p]]
    /\ UNCHANGED <<lock, call, path, buf, committed, faults>>

WriteMove(p) ==
    /\ call[p].kind = "move"
    /\ Goto(p, "write", "remove")
    /\ files' = [files EXCEPT ![call[p].to] = buf[p]]
    /\ UNCHANGED <<lock, call, path, buf, committed, faults>>

Remove(p) ==
    /\ Goto(p, "remove", "unlock")
    /\ files' = [files EXCEPT ![path[p]] = NoFile]
    /\ UNCHANGED <<lock, call, path, buf, committed, faults>>

Unlock(p) ==
    /\ pc[p] = "unlock"
    /\ lock' = NoProc
    /\ Leave(p)
    /\ UNCHANGED <<files, committed, faults>>

\* No space left for the temporary file: nothing visible has changed.
WriteFails(p) ==
    /\ Goto(p, "write", "unlock")
    /\ UNCHANGED <<files, lock, call, path, buf, committed, faults>>

\* The directory sync after the rename or the removal fails: both files stay.
RemoveFails(p) ==
    /\ faults < MaxFaults
    /\ Goto(p, "remove", "unlock")
    /\ faults' = faults + 1
    /\ UNCHANGED <<files, lock, call, path, buf, committed>>

\* The process is killed: the kernel drops its flock, the files stay.
Crash(p) ==
    /\ faults < MaxFaults
    /\ pc[p] # "idle"
    /\ lock' = IF lock = p THEN NoProc ELSE lock
    /\ faults' = faults + 1
    /\ Leave(p)
    /\ UNCHANGED <<files, committed>>

\* The steps of a call once it has started, faults aside.
Work(p) == \/ Lock(p) \/ Load(p) \/ Refuse(p)
           \/ WriteUpdate(p) \/ WriteMove(p) \/ Remove(p) \/ Unlock(p)

Step(p) == \/ \E c \in Calls : Start(p, c)
           \/ Work(p)
           \/ WriteFails(p) \/ RemoveFails(p) \/ Crash(p)

Next == CreateReceipt \/ \E p \in Procs : Step(p)

Spec == Init /\ [][Next]_vars

(***************************************************************************)
(* A process that holds the lock does a few file operations and never      *)
(* waits for anything else, so its steps are weakly fair.  The kernel      *)
(* hands a released flock to a waiter, so a process is not passed over for *)
(* ever: strong fairness of Lock.  Nothing obliges a call to be started.   *)
(***************************************************************************)
Fairness == \A p \in Procs :
    /\ WF_vars(Load(p) \/ Refuse(p) \/ WriteUpdate(p) \/ WriteMove(p)
                       \/ Remove(p) \/ Unlock(p))
    /\ SF_vars(Lock(p))

FairSpec == Spec /\ Fairness

-----------------------------------------------------------------------------
(***************************************************************************)
(* Properties.                                                             *)
(***************************************************************************)
InCritical(p) == pc[p] \in CriticalSteps

\* flockPath: between Flock(LOCK_EX) and the deferred unlock a process is
\* alone with the receipt, whatever return or crash ends its call.
LockExclusive == \A p, q \in Procs : InCritical(p) /\ InCritical(q) => p = q

\* MoveReceipt writes the destination before it removes the source, so no
\* step, crash or failed removal ever leaves the receipt in no folder.
ReceiptNeverLost == [][Copies # {} => Copies' # {}]_files

\* UpdateReceipt is a read-modify-write under the lock: the file the store
\* finds counts every update on disk, whatever moves ran in between.
NoLostUpdate == Copies # {} => files[Found].rev = committed

\* When nobody is inside the store, the receipt is in exactly one folder.
OneCopyAtRest ==
    lock = NoProc => \A f, g \in Copies : f = g

\* A call that was started returns (or its process dies), because every path
\* through UpdateReceipt and MoveReceipt reaches the deferred unlock.
CallsReturn == \A p \in Procs : (pc[p] # "idle") ~> (pc[p] = "idle")

\* The files implement the receipt that changes in one step: what the store
\* finds is the abstract receipt.  A move takes effect when the source is
\* removed if its folder is searched first, and at the write otherwise.
Abstract == INSTANCE AtomicReceipt
    WITH receipt <- Held, NoReceipt <- NoFile

ImplementsAtomicReceipt == Abstract!Spec
=============================================================================
