---------------------------- MODULE AtomicReceipt ----------------------------
(***************************************************************************)
(* What the mailbox store promises about one receipt: a single value that  *)
(* is created once, whose fields change in one step (UpdateReceipt) and    *)
(* whose folder changes in one step (MoveReceipt).                         *)
(***************************************************************************)
EXTENDS Receipts

CONSTANT NoReceipt    \* no value of Receipt

VARIABLE receipt

Init == receipt = NoReceipt

Create == /\ receipt = NoReceipt
          /\ receipt' = NewReceipt

Update(effect) == /\ receipt # NoReceipt
                  /\ Valid(Updated(receipt, effect))
                  /\ receipt' = Updated(receipt, effect)

Move(from, to) == /\ receipt # NoReceipt
                  /\ receipt.state = from
                  /\ Valid(Moved(receipt, to))
                  /\ receipt' = Moved(receipt, to)

Next == \/ Create
        \/ \E effect \in DoneEffects : Update(effect)
        \/ \E edge \in Edges : Move(edge[1], edge[2])

Spec == Init /\ [][Next]_receipt
=============================================================================
