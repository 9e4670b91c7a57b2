\* Two processes.
SPECIFICATION Spec
CONSTANTS
  Procs = {p1, p2}
  Domains = {"d1"}
  Requests <- MCRequests
  FanoutClasses = {"research"}
  Kinds = {"wait", "reroute_needed"}
  MaxReroutes = 1
  MaxTasks = 4
  MaxCommands = 5
  MaxKills = 1
SYMMETRY Symmetry
CHECK_DEADLOCK FALSE
INVARIANTS LinksResolve CeilingKept OneHolder RunLoads OpenWorkIsShown PendingIsAnswerable CompletedIsReviewed AttemptsRecorded
PROPERTIES AnswerStands
