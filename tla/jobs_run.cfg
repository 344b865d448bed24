SPECIFICATION Spec
CONSTANTS
  None = None
  Gone = Gone
  NumJobs = 2
  Period <- Periods
  Editable = {1}
  SnapshotCap = 1
  MaxTime = 3
  MayAsk = {0, 1}
  StopAllowed = TRUE
  CrashAllowed = TRUE
INVARIANTS
  NoOverlap
PROPERTIES
  SavedNeverBack
