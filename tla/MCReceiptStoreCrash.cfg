\* Kills and failed removals between any two steps, under fair scheduling.
SPECIFICATION FairSpec
CONSTANTS
  Procs = {p1, p2}
  NoProc = NoProc
  NoFile = NoFile
  MaxUpdates = 1
  MaxFaults = 2
PROPERTIES ReceiptNeverLost CallsReturn
