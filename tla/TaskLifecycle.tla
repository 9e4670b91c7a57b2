---------------------------- MODULE TaskLifecycle ----------------------------
(***************************************************************************)
(* The commands of internal/session that work on one delivered task that   *)
(* requires a claim: read, task accept, task done, down's requeue, and     *)
(* the suspend and restore of a rerouted task.  A command is a sequence of *)
(* calls on the mailbox store, each one step (ReceiptStore implements      *)
(* AtomicReceipt); between two of them any other command may run, or this  *)
(* one may be killed.                                                      *)
(***************************************************************************)
EXTENDS Receipts

CONSTANTS
  Procs,        \* processes that run commands on this message
  Verbs,        \* the commands they run
  NoReceipt,    \* the message has not been delivered
  MaxCommands,  \* bound: commands started
  MaxDeaths     \* bound: commands killed or failed on I/O

AllVerbs == {"read", "accept", "done", "down", "suspend"}

ASSUME TaskLifecycleAssumption ==
    /\ Verbs \subseteq AllVerbs
    /\ NoReceipt \notin Receipt
    /\ MaxCommands \in Nat
    /\ MaxDeaths \in Nat

VARIABLES
  receipt,   \* the receipt in the store
  claimed,   \* whether its ClaimedBy is set (to the recipient, if at all)
  pc,        \* the next store call of each process
  verb,      \* the command it runs
  saved,     \* what suspend keeps in order to restore the receipt
  events,    \* how often each event was appended to the state log
  handoff,   \* whether the review handoff was recorded
  rerouted,  \* whether a replacement was routed after suspending the task
  killed,    \* whether down has killed the tmux session
  commands, deaths

vars == <<receipt, claimed, pc, verb, saved, events, handoff, rerouted, killed,
          commands, deaths>>

Calls == {"loadActive", "look", "ack", "activate",        \* ReadMsg
          "claim", "acceptEvent",                         \* TaskAccept
          "finish", "toDone", "doneEvent", "handoff",     \* TaskDone
          "list", "requeue", "toUnread", "kill",          \* Down
          "snapshot", "clear", "toDead", "route", "revive", "reapply"}

Snapshot == [state : {"none", "unread", "active"}, claimed : BOOLEAN,
             doneAt : {"nil", "set"}]
NothingSaved == [state |-> "none", claimed |-> FALSE, doneAt |-> "nil"]

TypeOK ==
    /\ receipt \in {r \in Receipt : Valid(r)} \cup {NoReceipt}
    /\ claimed \in BOOLEAN
    /\ pc \in [Procs -> Calls \cup {"idle"}]
    /\ verb \in [Procs -> AllVerbs]
    /\ saved \in [Procs -> Snapshot]
    /\ events \in [{"accept", "done"} -> Nat]
    /\ handoff \in BOOLEAN /\ rerouted \in BOOLEAN /\ killed \in BOOLEAN
    /\ commands \in 0..MaxCommands
    /\ deaths \in 0..MaxDeaths

Init ==
    /\ receipt = NoReceipt
    /\ claimed = FALSE
    /\ pc = [p \in Procs |-> "idle"]
    /\ verb = [p \in Procs |-> "read"]
    /\ saved = [p \in Procs |-> NothingSaved]
    /\ events = [e \in {"accept", "done"} |-> 0]
    /\ handoff = FALSE /\ rerouted = FALSE /\ killed = FALSE
    /\ commands = 0
    /\ deaths = 0

record == <<events, handoff, rerouted, killed>>
bounds == <<commands, deaths>>

-----------------------------------------------------------------------------
At(p, call) == pc[p] = call

Goto(p, call) == /\ pc' = [pc EXCEPT ![p] = call]
                 /\ UNCHANGED <<verb, saved>>

\* The command returns, with or without an error.
Return(p) == /\ pc' = [pc EXCEPT ![p] = "idle"]
             /\ verb' = [verb EXCEPT ![p] = "read"]
             /\ saved' = [saved EXCEPT ![p] = NothingSaved]

GotoOrReturn(p, call) == IF call = "idle" THEN Return(p) ELSE Goto(p, call)

\* One UpdateReceipt: the command goes on, or returns the validation error.
Update(p, effect, claim, next) ==
    /\ IF Valid(Updated(receipt, effect))
       THEN receipt' = Updated(receipt, effect) /\ claimed' = claim /\ Goto(p, next)
       ELSE Return(p) /\ UNCHANGED <<receipt, claimed>>
    /\ UNCHANGED <<record, bounds>>

\* One MoveReceipt: it refuses a receipt that is not in its source folder.
MoveUnvalidated(p, from, to, next) ==
    /\ IF receipt.state = from
       THEN receipt' = Moved(receipt, to) /\ GotoOrReturn(p, next)
       ELSE Return(p) /\ UNCHANGED receipt
    /\ UNCHANGED <<claimed, record, bounds>>

MoveUnchecked(p, from, to, next) ==
    /\ IF Valid(Moved(receipt, to))
       THEN receipt' = Moved(receipt, to) /\ GotoOrReturn(p, next)
       ELSE Return(p) /\ UNCHANGED receipt
    /\ UNCHANGED <<claimed, record, bounds>>

Move(p, from, to, next) ==
    /\ IF receipt.state = from /\ Valid(Moved(receipt, to))
       THEN receipt' = Moved(receipt, to) /\ GotoOrReturn(p, next)
       ELSE Return(p) /\ UNCHANGED receipt
    /\ UNCHANGED <<claimed, record, bounds>>

-----------------------------------------------------------------------------
\* The sender's CreateReceipt (send, reply, run add-task).
Deliver ==
    /\ receipt = NoReceipt
    /\ receipt' = NewReceipt
    /\ UNCHANGED <<claimed, pc, verb, saved, record, bounds>>

FirstCall(v) == CASE v = "done" -> "loadActive"
                  [] v = "down" -> "list"
                  [] v = "suspend" -> "snapshot"
                  [] OTHER -> "look"

\* What follows ReadMsg in the command that called it.
AfterRead(v) == CASE v = "accept" -> "claim"
                  [] v = "done" -> "finish"
                  [] OTHER -> "idle"

Start(p, v) ==
    /\ receipt # NoReceipt
    /\ At(p, "idle")
    /\ commands < MaxCommands
    /\ commands' = commands + 1
    /\ pc' = [pc EXCEPT ![p] = FirstCall(v)]
    /\ verb' = [verb EXCEPT ![p] = v]
    /\ UNCHANGED <<receipt, claimed, saved, record, deaths>>

\* loadActiveTask: only an active receipt can be completed.
LoadActive(p) ==
    /\ At(p, "loadActive")
    /\ GotoOrReturn(p, IF receipt.state = "active" THEN "look" ELSE "idle")
    /\ UNCHANGED <<receipt, claimed, record, bounds>>

\* ReadMsg acknowledges and activates a message it saw unread.
Look(p) ==
    /\ At(p, "look")
    /\ GotoOrReturn(p, IF receipt.state = "unread" THEN "ack" ELSE AfterRead(verb[p]))
    /\ UNCHANGED <<receipt, claimed, record, bounds>>

Ack(p) == At(p, "ack") /\ Update(p, "keep", claimed, "activate")

Activate(p) == At(p, "activate") /\ Move(p, "unread", "active", AfterRead(verb[p]))

\* TaskAccept claims the receipt in whatever folder it is by now.
Claim(p) == At(p, "claim") /\ Update(p, "keep", TRUE, "acceptEvent")

AcceptEvent(p) ==
    /\ At(p, "acceptEvent")
    /\ events' = [events EXCEPT !["accept"] = @ + 1]
    /\ Return(p)
    /\ UNCHANGED <<receipt, claimed, handoff, rerouted, killed, bounds>>

\* TaskDone sets done_at first and moves the receipt second.
Finish(p) == At(p, "finish") /\ Update(p, "set", FALSE, "toDone")

ToDone(p) == At(p, "toDone") /\ Move(p, "active", "done", "doneEvent")

DoneEvent(p) ==
    /\ At(p, "doneEvent")
    /\ events' = [events EXCEPT !["done"] = @ + 1]
    /\ Goto(p, "handoff")
    /\ UNCHANGED <<receipt, claimed, handoff, rerouted, killed, bounds>>

Handoff(p) ==
    /\ At(p, "handoff")
    /\ handoff' = TRUE
    /\ Return(p)
    /\ UNCHANGED <<receipt, claimed, events, rerouted, killed, bounds>>

\* Down requeues what it lists in active/ and then kills the session; an
\* error on the way makes it return before that.
List(p) ==
    /\ At(p, "list")
    /\ Goto(p, IF receipt.state = "active" THEN "requeue" ELSE "kill")
    /\ UNCHANGED <<receipt, claimed, record, bounds>>

Requeue(p) == At(p, "requeue") /\ Update(p, "keep", FALSE, "toUnread")

ToUnread(p) == At(p, "toUnread") /\ Move(p, "active", "unread", "kill")

Kill(p) ==
    /\ At(p, "kill")
    /\ killed' = TRUE
    /\ Return(p)
    /\ UNCHANGED <<receipt, claimed, events, handoff, rerouted, bounds>>

\* suspendTaskReceiptForReroute: a done or dead receipt is left alone, and the
\* replacement is routed all the same.
TakeSnapshot(p) ==
    /\ At(p, "snapshot")
    /\ IF receipt.state \in {"done", "dead"}
       THEN Goto(p, "route")
       ELSE /\ pc' = [pc EXCEPT ![p] = "clear"]
            /\ saved' = [saved EXCEPT ![p] =
                           [state |-> receipt.state, claimed |-> claimed,
                            doneAt |-> receipt.doneAt]]
            /\ UNCHANGED verb
    /\ UNCHANGED <<receipt, claimed, record, bounds>>

Clear(p) == At(p, "clear") /\ Update(p, "clear", FALSE, "toDead")

ToDead(p) == At(p, "toDead") /\ Move(p, saved[p].state, "dead", "route")

\* RouteChildTask creates the replacement, or fails; what was suspended is
\* then restored.
RouteSucceeds(p) ==
    /\ At(p, "route")
    /\ rerouted' = (rerouted \/ saved[p] # NothingSaved)
    /\ Return(p)
    /\ UNCHANGED <<receipt, claimed, events, handoff, killed, bounds>>

RouteFails(p) ==
    /\ At(p, "route")
    /\ GotoOrReturn(p, IF saved[p] = NothingSaved THEN "idle" ELSE "revive")
    /\ UNCHANGED <<receipt, claimed, record, bounds>>

\* The restore closure: move back first, then put claim and done_at back.
Revive(p) == At(p, "revive") /\ Move(p, "dead", saved[p].state, "reapply")

Reapply(p) ==
    /\ At(p, "reapply")
    /\ LET effect == IF saved[p].doneAt = "set" THEN "set" ELSE "clear"
       IN  IF Valid(Updated(receipt, effect))
           THEN receipt' = Updated(receipt, effect) /\ claimed' = saved[p].claimed
           ELSE UNCHANGED <<receipt, claimed>>
    /\ Return(p)
    /\ UNCHANGED <<record, bounds>>

\* A kill, an I/O error, or a read that a concurrent move made fail.
Die(p) ==
    /\ ~At(p, "idle")
    /\ deaths < MaxDeaths
    /\ deaths' = deaths + 1
    /\ Return(p)
    /\ UNCHANGED <<receipt, claimed, record, commands>>

Read(p) == LoadActive(p) \/ Look(p) \/ Ack(p) \/ Activate(p)
Accept(p) == Claim(p) \/ AcceptEvent(p)
Done(p) == Finish(p) \/ ToDone(p) \/ DoneEvent(p) \/ Handoff(p)
Down(p) == List(p) \/ Requeue(p) \/ ToUnread(p) \/ Kill(p)
Suspend(p) == TakeSnapshot(p) \/ Clear(p) \/ ToDead(p)
              \/ RouteSucceeds(p) \/ RouteFails(p) \/ Revive(p) \/ Reapply(p)

Next == \/ Deliver
        \/ \E p \in Procs :
             \/ \E v \in Verbs : Start(p, v)
             \/ Read(p) \/ Accept(p) \/ Done(p) \/ Down(p) \/ Suspend(p)
             \/ Die(p)

Spec == Init /\ [][Next]_vars

-----------------------------------------------------------------------------
(***************************************************************************)
(* Properties.                                                             *)
(***************************************************************************)
Has(state) == receipt # NoReceipt /\ receipt.state = state

\* TaskDone: however many completions race with each other, with down and
\* with a reroute, at most one logs task.done, only for a receipt that is and
\* stays done, and the review is handed off only after that.
CompletedOnce ==
    /\ events["done"] <= 1
    /\ events["done"] = 1 => Has("done")
    /\ handoff => events["done"] = 1

\* rerouteBlockerTask: once a replacement was routed for a suspended task,
\* no command on the original brings it back or completes it.
ReroutedStaysDead == rerouted => Has("dead")
=============================================================================
