\* Two processes, two tasks, three commands, one kill.
SPECIFICATION Spec
CONSTANTS
  Procs = {p1, p2}
  local = local
  remote = remote
  domain = domain
  Agents = {1, 2, 3}
  Allowed = {1, 2, 3}
  Kind <- MCKind
  Domains <- MCDomains
  Priority <- MCPriority
  Unscored = Unscored
  Targets = {local, remote}
  PaneBacked = {local}
  Local = local
  Commanded = {remote}
  Timed = {remote}
  Bound <- MCBound
  Requests <- MCRequests
  Scores = {0, 1}
  MaxTasks = 2
  MaxCommands = 3
  MaxKills = 1
SYMMETRY Symmetry
CHECK_DEADLOCK FALSE
INVARIANTS TypeOK BlockedIsNotRouted ChosenIsPreferred PlacedIsRecorded
PROPERTIES RejectedForCause DispatchIsFinal EnableTriesAll
