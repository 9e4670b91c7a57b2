----------------------------- MODULE MessageLog -----------------------------
(***************************************************************************)
(* What send, reply and the coordinator promise of the mailbox: a message  *)
(* becomes visible in the recipient's inbox in one step, under a sequence  *)
(* number of its own, and stays what its sender wrote.                     *)
(***************************************************************************)
EXTENDS Naturals

CONSTANT Senders

VARIABLE delivered    \* the messages with a receipt: their number and sender

Entry == [seq : Nat, from : Senders]

Init == delivered = {}

Deliver(e) ==
    /\ e \in Entry
    /\ \A d \in delivered : d.seq # e.seq
    /\ delivered' = delivered \cup {e}

Next == \E e \in delivered' : Deliver(e)

Spec == Init /\ [][Next]_delivered
=============================================================================
