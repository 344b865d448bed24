SPECIFICATION FairSpec
CONSTANTS
  None = None
  Gone = Gone
  NumJobs = 2
  Period <- Periods
  Editable = {}
  SnapshotCap = 1
  MaxTime = 2
  MayAsk = {1}
  StopAllowed = TRUE
  CrashAllowed = TRUE
PROPERTIES
  DueIsSeen
  RunsRecorded
  RequestsServed
