\* One command at a time, none killed.
SPECIFICATION Spec
CONSTANTS
  Procs = {p1}
  Domains = {"d1"}
  Requests <- AllRequests
  FanoutClasses = {}
  Kinds = {"wait", "human_decision"}
  MaxReroutes = 1
  MaxTasks = 3
  MaxCommands = 5
  MaxKills = 0
CHECK_DEADLOCK FALSE
INVARIANTS Reconstructible
