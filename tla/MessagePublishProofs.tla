------------------------ MODULE MessagePublishProofs ------------------------
(***************************************************************************)
(* The numbers AllocateSeq returns are unique, a message stands behind     *)
(* every receipt, and the senders implement MessageLog, for any number of  *)
(* senders, kills and I/O errors.                                          *)
(***************************************************************************)
EXTENDS MessagePublish, TLAPS

\* A sender between AllocateSeq and its own return.
InFlight == Publishing \cup {"receipt", "return"}

\* What AllocateSeq relies on while it holds the lock.
SeqInv ==
    /\ \A n \in issued : n <= nextSeq
    /\ \A p \in Senders :
         /\ pc[p] = "write" => seq[p] = nextSeq + 1
         /\ pc[p] = "unlock" => seq[p] = nextSeq /\ seq[p] \notin issued

\* A sender owns the number it was given.
FlightInv ==
    /\ \A p \in Senders : pc[p] \in InFlight => seq[p] \in issued
    /\ \A p, q \in Senders :
         p # q /\ pc[p] \in InFlight /\ pc[q] \in InFlight => seq[p] # seq[q]

\* What is staged and published.
MessageInv ==
    /\ \A p \in Senders :
         /\ pc[p] = "body" => staged[p] = {"envelope"}
         /\ pc[p] = "rename" => staged[p] = Parts
         /\ pc[p] \in Publishing => ~Published(seq[p])
         /\ pc[p] \in {"receipt", "return"} =>
              [seq |-> seq[p], from |-> p, parts |-> Parts] \in messages
    /\ \A m \in messages : m.seq \in issued /\ m.parts = Parts
    /\ \A m, n \in messages : m.seq = n.seq => m = n

\* Receipts come after messages, and the return after both.
ReceiptInv ==
    /\ \A n \in receipts : Published(n)
    /\ \A p \in Senders : pc[p] = "receipt" => seq[p] \notin receipts
    /\ \A p \in Senders : pc[p] = "return" => seq[p] \in receipts
    /\ \A n \in sent : n \in receipts

IInv == TypeOK /\ SeqInv /\ FlightInv /\ MessageInv /\ ReceiptInv

USE DEF Parts, Allocating, Publishing, Steps, InFlight

-----------------------------------------------------------------------------
LEMMA InitIInv == Init => IInv
BY MessagePublishAssumption
   DEF Init, IInv, TypeOK, SeqInv, FlightInv, MessageInv, ReceiptInv, Message

LEMMA StepIInv == IInv /\ [Next]_vars => IInv'
<1> SUFFICES ASSUME IInv, [Next]_vars PROVE IInv'
  OBVIOUS
<1> USE DEF IInv
<1>1. ASSUME NEW p \in Senders, Start(p) PROVE IInv'
  <2> USE <1>1 DEF Start, Goto
  <2>1. TypeOK' BY DEF TypeOK
  <2>2. SeqInv' BY DEF TypeOK, SeqInv
  <2>3. FlightInv' BY DEF TypeOK, FlightInv
  <2>4. MessageInv' BY DEF TypeOK, MessageInv, Published
  <2>5. ReceiptInv' BY DEF TypeOK, ReceiptInv, Published
  <2> QED BY <2>1, <2>2, <2>3, <2>4, <2>5
<1>2. ASSUME NEW p \in Senders, Lock(p) PROVE IInv'
  <2> USE <1>2 DEF Lock, Goto
  <2>1. TypeOK' BY MessagePublishAssumption DEF TypeOK
  <2>2. SeqInv' BY DEF TypeOK, SeqInv
  <2>3. FlightInv' BY DEF TypeOK, FlightInv
  <2>4. MessageInv' BY DEF TypeOK, MessageInv, Published
  <2>5. ReceiptInv' BY DEF TypeOK, ReceiptInv, Published
  <2> QED BY <2>1, <2>2, <2>3, <2>4, <2>5
<1>3. ASSUME NEW p \in Senders, ReadSeq(p) PROVE IInv'
  <2> USE <1>3 DEF ReadSeq, Goto
  <2>1. TypeOK' BY DEF TypeOK
  <2>2. SeqInv' BY DEF TypeOK, SeqInv
  <2>3. FlightInv' BY DEF TypeOK, FlightInv
  <2>4. MessageInv' BY DEF TypeOK, MessageInv, Published
  <2>5. ReceiptInv' BY DEF TypeOK, ReceiptInv, Published
  <2> QED BY <2>1, <2>2, <2>3, <2>4, <2>5
<1>4. ASSUME NEW p \in Senders, WriteSeq(p) PROVE IInv'
  <2> USE <1>4 DEF WriteSeq, Goto
  <2>1. TypeOK' BY DEF TypeOK
  <2>2. SeqInv' BY DEF TypeOK, SeqInv
  <2>3. FlightInv' BY DEF TypeOK, FlightInv
  <2>4. MessageInv' BY DEF TypeOK, MessageInv, Published
  <2>5. ReceiptInv' BY DEF TypeOK, ReceiptInv, Published
  <2> QED BY <2>1, <2>2, <2>3, <2>4, <2>5
<1>5. ASSUME NEW p \in Senders, WriteSeqFails(p) PROVE IInv'
  <2> USE <1>5 DEF WriteSeqFails, Goto
  <2>1. TypeOK' BY MessagePublishAssumption DEF TypeOK
  <2>2. SeqInv' BY DEF TypeOK, SeqInv
  <2>3. FlightInv' BY DEF TypeOK, FlightInv
  <2>4. MessageInv' BY DEF TypeOK, MessageInv, Published
  <2>5. ReceiptInv' BY DEF TypeOK, ReceiptInv, Published
  <2> QED BY <2>1, <2>2, <2>3, <2>4, <2>5
<1>6. ASSUME NEW p \in Senders, Unlock(p) PROVE IInv'
  <2> USE <1>6 DEF Unlock, Goto
  <2>1. TypeOK' BY MessagePublishAssumption DEF TypeOK
  <2>2. SeqInv' BY DEF TypeOK, SeqInv
  <2>3. FlightInv' BY DEF TypeOK, FlightInv, SeqInv
  <2>4. MessageInv' BY DEF TypeOK, MessageInv, SeqInv, Published
  <2>5. ReceiptInv' BY DEF TypeOK, ReceiptInv, Published
  <2> QED BY <2>1, <2>2, <2>3, <2>4, <2>5
<1>7. ASSUME NEW p \in Senders, UnlockFailed(p) PROVE IInv'
  <2> USE <1>7 DEF UnlockFailed, Leave
  <2>1. TypeOK' BY MessagePublishAssumption DEF TypeOK
  <2>2. SeqInv' BY DEF TypeOK, SeqInv
  <2>3. FlightInv' BY DEF TypeOK, FlightInv
  <2>4. MessageInv' BY DEF TypeOK, MessageInv, Published
  <2>5. ReceiptInv' BY DEF TypeOK, ReceiptInv, Published
  <2> QED BY <2>1, <2>2, <2>3, <2>4, <2>5
<1>8. ASSUME NEW p \in Senders, StageEnvelope(p) PROVE IInv'
  <2> USE <1>8 DEF StageEnvelope, Goto
  <2>1. TypeOK' BY DEF TypeOK
  <2>2. SeqInv' BY DEF TypeOK, SeqInv
  <2>3. FlightInv' BY DEF TypeOK, FlightInv
  <2>4. MessageInv' BY DEF TypeOK, MessageInv, Published
  <2>5. ReceiptInv' BY DEF TypeOK, ReceiptInv, Published
  <2> QED BY <2>1, <2>2, <2>3, <2>4, <2>5
<1>9. ASSUME NEW p \in Senders, StageBody(p) PROVE IInv'
  <2> USE <1>9 DEF StageBody, Goto
  <2>1. TypeOK' BY DEF TypeOK
  <2>2. SeqInv' BY DEF TypeOK, SeqInv
  <2>3. FlightInv' BY DEF TypeOK, FlightInv
  <2>4. MessageInv' BY DEF TypeOK, MessageInv, Published
  <2>5. ReceiptInv' BY DEF TypeOK, ReceiptInv, Published
  <2> QED BY <2>1, <2>2, <2>3, <2>4, <2>5
<1>10. ASSUME NEW p \in Senders, Rename(p) PROVE IInv'
  <2> DEFINE new == [seq |-> seq[p], from |-> p, parts |-> staged[p]]
  <2> USE <1>10 DEF Rename, Goto
  <2>1. /\ new \in Message /\ new.seq = seq[p] /\ new.parts = Parts
        /\ new = [seq |-> seq[p], from |-> p, parts |-> Parts]
    BY DEF TypeOK, MessageInv, Message
  <2>2. messages' = messages \cup {new}
    OBVIOUS
  <2> HIDE DEF new
  <2>3. TypeOK' BY <2>1, <2>2 DEF TypeOK
  <2>4. SeqInv' BY DEF TypeOK, SeqInv
  <2>5. FlightInv' BY DEF TypeOK, FlightInv
  <2>6. MessageInv' BY <2>1, <2>2 DEF TypeOK, MessageInv, FlightInv, Published
  <2>7. ReceiptInv' BY <2>1, <2>2 DEF TypeOK, MessageInv, ReceiptInv, Published
  <2> QED BY <2>3, <2>4, <2>5, <2>6, <2>7
<1>11. ASSUME NEW p \in Senders, CreateReceipt(p) PROVE IInv'
  <2> USE <1>11 DEF CreateReceipt, Goto
  <2>1. TypeOK' BY DEF TypeOK
  <2>2. SeqInv' BY DEF TypeOK, SeqInv
  <2>3. FlightInv' BY DEF TypeOK, FlightInv
  <2>4. MessageInv' BY DEF TypeOK, MessageInv, Published
  <2>5. ReceiptInv' BY DEF TypeOK, ReceiptInv, FlightInv, MessageInv, Published
  <2> QED BY <2>1, <2>2, <2>3, <2>4, <2>5
<1>12. ASSUME NEW p \in Senders, Return(p) PROVE IInv'
  <2> USE <1>12 DEF Return, Leave
  <2>1. TypeOK' BY DEF TypeOK
  <2>2. SeqInv' BY DEF TypeOK, SeqInv
  <2>3. FlightInv' BY DEF TypeOK, FlightInv
  <2>4. MessageInv' BY DEF TypeOK, MessageInv, Published
  <2>5. ReceiptInv' BY DEF TypeOK, ReceiptInv, Published
  <2> QED BY <2>1, <2>2, <2>3, <2>4, <2>5
<1>13. ASSUME NEW p \in Senders, Die(p) PROVE IInv'
  <2> USE <1>13 DEF Die, Leave
  <2>1. TypeOK' BY MessagePublishAssumption DEF TypeOK
  <2>2. SeqInv' BY DEF TypeOK, SeqInv
  <2>3. FlightInv' BY DEF TypeOK, FlightInv
  <2>4. MessageInv' BY DEF TypeOK, MessageInv, Published
  <2>5. ReceiptInv' BY DEF TypeOK, ReceiptInv, Published
  <2> QED BY <2>1, <2>2, <2>3, <2>4, <2>5
<1>14. CASE UNCHANGED vars
  BY <1>14 DEF vars, TypeOK, SeqInv, FlightInv, MessageInv, ReceiptInv, Published
<1> QED
  BY <1>1, <1>2, <1>3, <1>4, <1>5, <1>6, <1>7, <1>8, <1>9, <1>10, <1>11, <1>12,
     <1>13, <1>14 DEF Next, Allocate, Publish

\* The invariant holds in every reachable state.
THEOREM InductiveInvariant == Spec => []IInv
BY InitIInv, StepIInv, PTL DEF Spec

-----------------------------------------------------------------------------
\* Every variable keeps its type, and the lock belongs to the process that is
\* inside AllocateSeq.
THEOREM TypeCorrect == Spec => []TypeOK
BY InductiveInvariant, PTL DEF IInv

\* AllocateSeq never returns a number twice: what it computed under the lock
\* is above every number it returned before.
THEOREM UniqueNumbers == Spec => SequenceUnique
<1>1. IInv => (\A p \in Senders : pc[p] = "unlock" /\ pc'[p] = "envelope"
                                    => seq[p] \notin issued)
  BY DEF IInv, SeqInv
<1> QED BY <1>1, InductiveInvariant, PTL DEF SequenceUnique

\* A complete message stands behind every receipt.
THEOREM CanonicalFirst == Spec => []MessageBeforeReceipt
<1>1. IInv => MessageBeforeReceipt
  BY DEF IInv, MessageInv, ReceiptInv, MessageBeforeReceipt, Published
<1> QED BY <1>1, InductiveInvariant, PTL

\* What send reported as sent is in the recipient's inbox.
THEOREM Delivered == Spec => []SentIsDelivered
<1>1. IInv => SentIsDelivered
  BY DEF IInv, ReceiptInv, SentIsDelivered
<1> QED BY <1>1, InductiveInvariant, PTL

-----------------------------------------------------------------------------
\* The messages that are delivered, as ImplementsMessageLog maps them.
Delivery == {[seq |-> m.seq, from |-> m.from] :
               m \in {x \in messages : x.seq \in receipts}}

LEMMA DeliveryElements ==
    \A e : e \in Delivery <=>
             \E m \in messages : /\ m.seq \in receipts
                                 /\ e = [seq |-> m.seq, from |-> m.from]
BY DEF Delivery

\* Only CreateReceipt delivers, and what it delivers is its own message.
LEMMA StepDelivers ==
    ASSUME IInv, [Next]_vars
    PROVE  [\E e \in Delivery' : Log!Deliver(e)]_Delivery
<1> USE DEF IInv
<1>1. ASSUME NEW p \in Senders, Rename(p) PROVE UNCHANGED Delivery
  <2>1. \A n \in receipts : n # seq[p]
    BY <1>1 DEF Rename, ReceiptInv
  <2> DEFINE new == [seq |-> seq[p], from |-> p, parts |-> staged[p]]
  <2>2. messages' = messages \cup {new} /\ new.seq = seq[p] /\ receipts' = receipts
    BY <1>1 DEF Rename
  <2> HIDE DEF new
  <2>3. {x \in messages' : x.seq \in receipts'} = {x \in messages : x.seq \in receipts}
    BY <2>1, <2>2
  <2> QED BY <2>3 DEF Delivery
<1>2. ASSUME NEW p \in Senders, CreateReceipt(p)
      PROVE  \E e \in Delivery' : Log!Deliver(e)
  <2> DEFINE own == [seq |-> seq[p], from |-> p, parts |-> Parts]
             entry == [seq |-> seq[p], from |-> p]
  <2>1. /\ own \in messages /\ own.seq = seq[p] /\ own.from = p
        /\ seq[p] \notin receipts
        /\ messages' = messages /\ receipts' = receipts \cup {seq[p]}
    BY <1>2 DEF CreateReceipt, Goto, MessageInv, TypeOK
  <2>2. \A m \in messages : m.seq = seq[p] => m = own
    BY <2>1 DEF MessageInv
  <2>3. {x \in messages' : x.seq \in receipts'} =
            {x \in messages : x.seq \in receipts} \cup {own}
    BY <2>1, <2>2
  <2>4. Delivery' = Delivery \cup {entry}
    BY <2>1, <2>3 DEF Delivery
  <2>5. entry \in Log!Entry
    BY DEF TypeOK, Log!Entry
  <2>6. \A d \in Delivery : d.seq # entry.seq
    BY <2>1, DeliveryElements
  <2> QED BY <2>4, <2>5, <2>6 DEF Log!Deliver, Delivery
<1>3. ASSUME NEW p \in Senders,
             \/ Start(p) \/ Allocate(p) \/ WriteSeqFails(p) \/ Die(p)
             \/ StageEnvelope(p) \/ StageBody(p) \/ Return(p)
      PROVE  UNCHANGED Delivery
  <2>1. UNCHANGED <<messages, receipts>>
    BY <1>3 DEF Start, Allocate, Lock, ReadSeq, WriteSeq, Unlock, UnlockFailed,
                WriteSeqFails, Die, StageEnvelope, StageBody, Return
  <2> QED BY <2>1 DEF Delivery
<1>4. CASE UNCHANGED vars
  BY <1>4 DEF vars, Delivery
<1> QED BY <1>1, <1>2, <1>3, <1>4 DEF Next, Publish

\* Any number of senders that fail or die anywhere implement the log: numbers
\* are never reused, and a delivered message stays its sender's.
THEOREM Refinement == Spec => ImplementsMessageLog
<1>1. Init => Log!Init
  BY DEF Init, Log!Init
<1>2. IInv /\ [Next]_vars => [Log!Next]_Delivery
  BY StepDelivers DEF Log!Next, Delivery
<1> QED BY <1>1, <1>2, InductiveInvariant, PTL
        DEF Spec, ImplementsMessageLog, Log!Spec, Delivery
=============================================================================
