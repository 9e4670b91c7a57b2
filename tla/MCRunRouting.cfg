\* An exclusive key and one that may fan out, and one kill or error.
SPECIFICATION FairSpec
CONSTANTS
  Procs = {p1, p2}
  NoProc = NoProc
  Keys = {exclusive, fanout}
  FanoutKeys = {fanout}
  NoKey = NoKey
  MaxTasks = 2
  MaxFaults = 1
INVARIANTS ExclusiveUnlessRestored TaskBehindReceipt SuspendedStaysDead
PROPERTIES LostTaskBlocksKey RerouteKeepsWork RoutesReturn
