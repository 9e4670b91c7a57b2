\* A message for each of two panes, one of them unready for ever or dead.
SPECIFICATION FairSpec
CONSTANTS
  m1 = m1
  m2 = m2
  a1 = a1
  a2 = a2
  Messages = {m1, m2}
  Agents = {a1, a2}
  Recipient <- OneEach
  WithPane = {a1, a2}
  Patient = {a1}
  NoMessage = NoMessage
  MaxChanges = 1
  MaxFaults = 1
PROPERTIES UnreadIsNotified
