--------------------------- MODULE MCNotifyDaemon ---------------------------
\* NotifyDaemon on small instances: two recipients, or two messages for one.
EXTENDS NotifyDaemon

CONSTANTS m1, m2, a1, a2

OneEach == [m \in Messages |-> IF m = m1 THEN a1 ELSE a2]
AllToFirst == [m \in Messages |-> a1]
=============================================================================
