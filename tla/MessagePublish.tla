--------------------------- MODULE MessagePublish ---------------------------
(***************************************************************************)
(* Sending a message (Send and Reply; the coordinator makes the same       *)
(* calls): AllocateSeq under locks/sequence.lock, CreateMessage through a  *)
(* staging directory, and CreateReceipt in the recipient's unread/, run by *)
(* several processes that may fail or be killed between any two steps.     *)
(*                                                                         *)
(* A staging directory is named after the message and the process, so it   *)
(* is private to its sender; one left behind by a kill is never used.      *)
(***************************************************************************)
EXTENDS Naturals

CONSTANTS
  Senders,     \* processes that send
  NoSender,    \* nobody holds sequence.lock
  MaxSeq,      \* bound: nobody starts to send at this value of next-seq
  MaxFaults    \* bound: kills and I/O errors

ASSUME MessagePublishAssumption ==
    /\ NoSender \notin Senders
    /\ MaxSeq \in Nat
    /\ MaxFaults \in Nat

Parts == {"envelope", "body"}

VARIABLES
  nextSeq,    \* state/next-seq, 0 while it does not exist
  lock,       \* locks/sequence.lock
  pc,
  seq,        \* the number each process computed
  staged,     \* the files in its staging directory
  messages,   \* the directories under messages/: number, sender and files
  receipts,   \* the numbers of the messages with a receipt
  issued,     \* history: numbers AllocateSeq returned
  sent,       \* history: numbers of messages reported as sent
  faults

vars == <<nextSeq, lock, pc, seq, staged, messages, receipts, issued, sent, faults>>

Allocating == {"read", "write", "unlock", "fail"}
Publishing == {"envelope", "body", "rename"}
Steps == {"idle", "lock", "receipt", "return"} \cup Allocating \cup Publishing

Message == [seq : Nat, from : Senders, parts : SUBSET Parts]

\* The lock is held from Flock to the deferred unlock of AllocateSeq.
TypeOK ==
    /\ nextSeq \in Nat
    /\ lock \in Senders \cup {NoSender}
    /\ pc \in [Senders -> Steps]
    /\ seq \in [Senders -> Nat]
    /\ staged \in [Senders -> SUBSET Parts]
    /\ messages \subseteq Message
    /\ receipts \subseteq Nat
    /\ issued \subseteq Nat
    /\ sent \subseteq Nat
    /\ \A p \in Senders : lock = p <=> pc[p] \in Allocating
    /\ faults \in 0..MaxFaults

Init ==
    /\ nextSeq = 0
    /\ lock = NoSender
    /\ pc = [p \in Senders |-> "idle"]
    /\ seq = [p \in Senders |-> 0]
    /\ staged = [p \in Senders |-> {}]
    /\ messages = {} /\ receipts = {} /\ issued = {} /\ sent = {}
    /\ faults = 0

-----------------------------------------------------------------------------
Published(n) == \E m \in messages : m.seq = n

Goto(p, from, to) == pc[p] = from /\ pc' = [pc EXCEPT ![p] = to]

\* The command is over, its staging directory removed or never looked at.
Leave(p) ==
    /\ pc' = [pc EXCEPT ![p] = "idle"]
    /\ seq' = [seq EXCEPT ![p] = 0]
    /\ staged' = [staged EXCEPT ![p] = {}]

Start(p) ==
    /\ nextSeq < MaxSeq
    /\ Goto(p, "idle", "lock")
    /\ UNCHANGED <<nextSeq, lock, seq, staged, messages, receipts, issued, sent, faults>>

Lock_NoWait(p) ==
    /\ Goto(p, "lock", "read")
    /\ lock' = p
    /\ UNCHANGED <<nextSeq, seq, staged, messages, receipts, issued, sent, faults>>

Lock(p) ==
    /\ lock = NoSender
    /\ Goto(p, "lock", "read")
    /\ lock' = p
    /\ UNCHANGED <<nextSeq, seq, staged, messages, receipts, issued, sent, faults>>

ReadSeq(p) ==
    /\ Goto(p, "read", "write")
    /\ seq' = [seq EXCEPT ![p] = nextSeq + 1]
    /\ UNCHANGED <<nextSeq, lock, staged, messages, receipts, issued, sent, faults>>

WriteSeq(p) ==
    /\ Goto(p, "write", "unlock")
    /\ nextSeq' = seq[p]
    /\ UNCHANGED <<lock, seq, staged, messages, receipts, issued, sent, faults>>

\* The write fails before its rename, or at the directory sync after it.
WriteSeqFails(p) ==
    /\ faults < MaxFaults
    /\ Goto(p, "write", "fail")
    /\ nextSeq' \in {nextSeq, seq[p]}
    /\ faults' = faults + 1
    /\ UNCHANGED <<lock, seq, staged, messages, receipts, issued, sent>>

\* The deferred unlock, when AllocateSeq returns a number ...
Unlock(p) ==
    /\ Goto(p, "unlock", "envelope")
    /\ lock' = NoSender
    /\ issued' = issued \cup {seq[p]}
    /\ UNCHANGED <<nextSeq, seq, staged, messages, receipts, sent, faults>>

\* ... and when it returns an error.
UnlockFailed_Keep(p) ==
    /\ pc[p] = "fail"
    /\ Leave(p)
    /\ UNCHANGED <<nextSeq, lock, messages, receipts, issued, sent, faults>>

UnlockFailed(p) ==
    /\ pc[p] = "fail"
    /\ lock' = NoSender
    /\ Leave(p)
    /\ UNCHANGED <<nextSeq, messages, receipts, issued, sent, faults>>

\* CreateMessage writes both files into its staging directory ...
StageEnvelope_Early(p) ==
    /\ Goto(p, "envelope", "rename")
    /\ staged' = [staged EXCEPT ![p] = {"envelope"}]
    /\ UNCHANGED <<nextSeq, lock, seq, messages, receipts, issued, sent, faults>>

StageEnvelope(p) ==
    /\ Goto(p, "envelope", "body")
    /\ staged' = [staged EXCEPT ![p] = {"envelope"}]
    /\ UNCHANGED <<nextSeq, lock, seq, messages, receipts, issued, sent, faults>>

StageBody(p) ==
    /\ Goto(p, "body", "rename")
    /\ staged' = [staged EXCEPT ![p] = @ \cup {"body"}]
    /\ UNCHANGED <<nextSeq, lock, seq, messages, receipts, issued, sent, faults>>

\* ... and renames it to messages/<id>.  A name that is taken is an error, as
\* it is for the receipt; because of SequenceUnique no name ever is.
Rename(p) ==
    /\ Goto(p, "rename", "receipt")
    /\ ~Published(seq[p])
    /\ messages' = messages \cup {[seq |-> seq[p], from |-> p, parts |-> staged[p]]}
    /\ UNCHANGED <<nextSeq, lock, seq, staged, receipts, issued, sent, faults>>

CreateReceipt(p) ==
    /\ Goto(p, "receipt", "return")
    /\ seq[p] \notin receipts
    /\ receipts' = receipts \cup {seq[p]}
    /\ UNCHANGED <<nextSeq, lock, seq, staged, messages, issued, sent, faults>>

Return(p) ==
    /\ pc[p] = "return"
    /\ sent' = sent \cup {seq[p]}
    /\ Leave(p)
    /\ UNCHANGED <<nextSeq, lock, messages, receipts, issued, faults>>

\* A kill at any step, or an I/O error outside AllocateSeq; an error of the
\* directory sync after a rename is one at the next step.
Die_RollBack(p) ==
    /\ faults < MaxFaults
    /\ pc[p] # "idle"
    /\ lock' = IF lock = p THEN NoSender ELSE lock
    /\ faults' = faults + 1
    /\ messages' = {m \in messages : m.seq # seq[p]}
    /\ Leave(p)
    /\ UNCHANGED <<nextSeq, receipts, issued, sent>>

Die(p) ==
    /\ faults < MaxFaults
    /\ pc[p] # "idle"
    /\ lock' = IF lock = p THEN NoSender ELSE lock
    /\ faults' = faults + 1
    /\ Leave(p)
    /\ UNCHANGED <<nextSeq, messages, receipts, issued, sent>>

Allocate(p) == Lock(p) \/ ReadSeq(p) \/ WriteSeq(p) \/ Unlock(p) \/ UnlockFailed(p)
Publish(p) == \/ StageEnvelope(p) \/ StageBody(p) \/ Rename(p)
              \/ CreateReceipt(p) \/ Return(p)

Next == \E p \in Senders : \/ Start(p) \/ Allocate(p) \/ Publish(p)
                           \/ WriteSeqFails(p) \/ Die(p)

Spec == Init /\ [][Next]_vars

\* A process that sends is scheduled, and a released flock goes to a waiter.
Fairness == \A p \in Senders :
    /\ WF_vars(ReadSeq(p) \/ WriteSeq(p) \/ Unlock(p) \/ UnlockFailed(p) \/ Publish(p))
    /\ SF_vars(Lock(p))

FairSpec == Spec /\ Fairness

-----------------------------------------------------------------------------
(***************************************************************************)
(* Properties.                                                             *)
(***************************************************************************)
\* DESIGN.md 16.5, "sequence numbers are unique under concurrency":
\* AllocateSeq never returns a number twice, whatever calls failed before.
SequenceUnique ==
    [][\A p \in Senders : pc[p] = "unlock" /\ pc'[p] = "envelope"
                            => seq[p] \notin issued]_vars

\* DESIGN.md 16.5, "canonical message exists before any visible receipt",
\* and "no partial envelope or body reads": behind every receipt is one
\* message, with both of its files.
MessageBeforeReceipt ==
    \A n \in receipts : \E m \in messages : m.seq = n /\ m.parts = Parts

\* DESIGN.md 5.2: send succeeds only once message and receipt exist, and
\* nothing takes them away.
SentIsDelivered == \A n \in sent : n \in receipts /\ Published(n)

\* A send that was started ends, whatever happened to the sends before it.
SendsReturn == \A p \in Senders : (pc[p] # "idle") ~> (pc[p] = "idle")

\* Senders implement the log: a message is delivered when its receipt is there.
Log == INSTANCE MessageLog
    WITH delivered <- {[seq |-> m.seq, from |-> m.from] :
                         m \in {x \in messages : x.seq \in receipts}}

ImplementsMessageLog == Log!Spec
=============================================================================
