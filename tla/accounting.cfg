SPECIFICATION Spec
CONSTANTS
  None = None
  v1 = v1
  v2 = v2
  v3 = v3
  c1 = c1
  c2 = c2
  p1 = p1
  p2 = p2
  NumBlobs = 2
  Volumes = {v1, v2}
  Colls = {c1}
  Policies = {p1}
  PolicyOf <- OnePolicy
  MinZones <- AnyZone
  Zone <- OneZone
  RoutingCost <- LocalDisks
  SkipsExisting = {}
  Hints = {TRUE}
  Uploaders = {u1, u2}
  BatchLimit = 1
  MaxQueued = 2
  InitDesired <- DesireAny
  Commands = {"mark_lost", "remove_queued", "migrate", "mount", "decommission"}
  CrashAllowed = TRUE
  MountsMayFail = FALSE
INVARIANTS
  CountAccurate
  NoDoubleReplication
