SPECIFICATION FairSpec
CONSTANTS
  t1 = t1
  p1 = p1
  n1 = n1
  l1 = l1
  f1 = f1
  None = None
  Tabs = {t1}
  Writes = {p1, n1}
  Patches = {p1}
  Mutations = {}
  Logs = {l1}
  Photos = {f1}
  Mishaps = {"failed", "lost", "closed", "blip"}
  MaxCauses = 1
  MaxMade = 1
  MaxRetries = 3
INVARIANT QueuedNotLost AppliedOnce DraftAccountedFor LabourOnce
PROPERTY QueueDrains LabourReachesServer
CHECK_DEADLOCK FALSE
