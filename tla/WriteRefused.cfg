SPECIFICATION Spec
CONSTANTS
  Texts = {t1, t2}
  Gone = Gone
  None = None
  Backends = {"jmap"}
  MaxEdits = 2
  MaxFaults = 1
INVARIANT RecordedStateMatches
CHECK_DEADLOCK FALSE
