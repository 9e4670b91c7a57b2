\* Four commands of any kind by three processes, one of which may die.
SPECIFICATION Spec
CONSTANTS
  Procs = {p1, p2, p3}
  Verbs = {"read", "accept", "done", "down", "suspend"}
  NoReceipt = NoReceipt
  MaxCommands = 4
  MaxDeaths = 1
SYMMETRY Symmetry
CHECK_DEADLOCK FALSE
INVARIANTS TypeOK CompletedOnce ReroutedStaysDead
