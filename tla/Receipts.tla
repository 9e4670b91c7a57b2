------------------------------ MODULE Receipts ------------------------------
(***************************************************************************)
(* The receipt of one message in one agent's inbox: its fields as far as   *)
(* the store tells them apart, the validation every write passes, the      *)
(* folder edges the commands take and the order in which the folders are   *)
(* searched.  Pure definitions, shared by the abstract receipt             *)
(* (AtomicReceipt) and by the files that implement it (ReceiptStore).      *)
(***************************************************************************)
EXTENDS Naturals

Folders == {"unread", "active", "done", "dead"}

\* rev is Revision; doneAt says whether the pointer DoneAt is nil.
Receipt == [state : Folders, rev : Nat, doneAt : {"nil", "set"}]

\* Receipt.Validate: the only clauses that relate two fields.
Valid(r) == /\ r.state = "unread" => r.doneAt = "nil"
            /\ r.state = "done" => r.doneAt = "set"

NewReceipt == [state |-> "unread", rev |-> 0, doneAt |-> "nil"]

\* What the callbacks handed to UpdateReceipt do with DoneAt.
DoneEffects == {"keep", "set", "clear"}

DoneAfter(r, effect) == CASE effect = "keep" -> r.doneAt
                          [] effect = "set" -> "set"
                          [] effect = "clear" -> "nil"

\* A callback of UpdateReceipt: every one of them increments Revision.
Updated(r, effect) ==
    [state |-> r.state, rev |-> r.rev + 1, doneAt |-> DoneAfter(r, effect)]

Moved(r, to) == [r EXCEPT !.state = to]

\* Every (from, to) pair some command passes to MoveReceipt: read, done and
\* respond, down, and the suspend and restore of a rerouted task.
Edges == {<<"unread", "active">>, <<"active", "done">>, <<"active", "unread">>,
          <<"unread", "dead">>, <<"active", "dead">>,
          <<"dead", "unread">>, <<"dead", "active">>}

\* findReceiptPath searches the folders in this order.
Rank == [unread |-> 1, active |-> 2, done |-> 3, dead |-> 4]
=============================================================================
