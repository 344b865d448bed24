SPECIFICATION MountSpec
CONSTANTS
  Names = {n1, n2}
  Contents = {t1, t2}
  Nothing = Nothing
  Lookers = {l1}
  MaxVersions = 2
PROPERTIES
  UncommittedWorkIsKept
