\* A message for a pane that is not ready when it arrives.
SPECIFICATION Spec
CONSTANTS
  m1 = m1
  m2 = m2
  a1 = a1
  a2 = a2
  Messages = {m1}
  Agents = {a1}
  Recipient <- AllToFirst
  WithPane = {a1}
  Patient = {a1}
  NoMessage = NoMessage
  MaxChanges = 1
  MaxFaults = 0
PROPERTIES RetryWaits
