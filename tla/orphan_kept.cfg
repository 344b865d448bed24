SPECIFICATION Spec
CONSTANTS
  None = None
  v1 = v1
  v2 = v2
  v3 = v3
  c1 = c1
  c2 = c2
  p1 = p1
  p2 = p2
  NumBlobs = 1
  Volumes = {v1, v2}
  Colls = {c1}
  Policies = {p1}
  PolicyOf <- OnePolicy
  MinZones <- AnyZone
  Zone <- OneZone
  RoutingCost <- LocalDisks
  SkipsExisting = {v1, v2}
  Hints = {TRUE, FALSE}
  Uploaders = {u1, u2}
  BatchLimit = 1
  MaxQueued = 1
  InitDesired <- DesireAny
  Commands = {}
  CrashAllowed = TRUE
  MountsMayFail = FALSE
INVARIANTS
  ReplicasIntact
