\* Two messages for one pane: when they may be typed into it.
SPECIFICATION Spec
CONSTANTS
  m1 = m1
  m2 = m2
  a1 = a1
  a2 = a2
  Messages = {m1, m2}
  Agents = {a1}
  Recipient <- AllToFirst
  WithPane = {a1}
  Patient = {a1}
  NoMessage = NoMessage
  MaxChanges = 1
  MaxFaults = 1
INVARIANTS TypeOK
PROPERTIES QuietBetweenNotifications
