SPECIFICATION BackgroundSpec
CONSTANTS
  Requests = {r1, r2}
  Settings = {k1}
  Jobs = {j1}
  Workers = {w1, w2}
  LastBlob = 3
  Early = {1, 2}
  Damaged = {2}
  BatchLimit = 2
  ReportLimit = 2
  Records = {m1, m2}
  NodeRecord = node
  BatchSize = 2
  Absent = Absent
  MaxMoves = 1
  MaxTokens = 2
CHECK_DEADLOCK FALSE
INVARIANTS
  BackgroundTypeOK
  OneChild
  ChangeNoticed
  ReportComplete
  ImportRestoresThePast
PROPERTIES
  StopsUnlessStuck
  ProgressKept
  VerifierReturns
