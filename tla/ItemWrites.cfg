SPECIFICATION FairSpec
CONSTANTS
  Texts = {t1, t2, t3}
  Gone = Gone
  None = None
  Backends = {"jmap", "graph", "graph_photo", "dav"}
  MaxEdits = 3
  MaxFaults = 2
INVARIANT TypeOK
PROPERTIES ReportsChanges WritesRetried
CHECK_DEADLOCK FALSE
