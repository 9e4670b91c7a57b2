\* Two writers and one lock-free reader, no fault: every interleaving.
SPECIFICATION ReaderSpec
CONSTANTS
  Procs = {p1, p2}
  Readers = {r1}
  NoProc = NoProc
  NoFile = NoFile
  NoResult = NoResult
  NotFound = NotFound
  MaxUpdates = 2
  MaxFaults = 0
SYMMETRY Symmetry
INVARIANTS ReaderTypeOK NoLostUpdate OneCopyAtRest
           ReadNotStale NotFoundMeansMoved
PROPERTIES ImplementsAtomicReceipt
