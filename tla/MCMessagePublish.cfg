\* Three senders under fair scheduling, and two kills or I/O errors.
SPECIFICATION FairSpec
CONSTANTS
  Senders = {s1, s2, s3}
  NoSender = NoSender
  MaxSeq = 2
  MaxFaults = 2
CHECK_DEADLOCK FALSE
INVARIANTS MessageBeforeReceipt
PROPERTIES SequenceUnique SendsReturn ImplementsMessageLog
