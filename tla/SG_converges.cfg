\* One resource: one or two edits and disturbances, fair worker and timers.
CONSTANTS
  o1 = o1
  o2 = o2
  c1 = c1
  c2 = c2
  h1 = h1
  Env = Env
  None = None
  Empty = "empty"
  Rank <- MCRank
  ConnOf <- MCConnOf
  Urls <- MCOneUrl
  Objects = {o1}
  Kinds = {"GCSchedule", "ScanAllSchedule", "Configuration", "Quota"}
  Data = {"d1", "d2", "empty"}
  Conns = {c1}
  Instances = {h1}
  DriftDetection = TRUE
  MaxInc = 1
  MaxGen <- MCEdits
  MaxUid = 1
  MaxNow = 0
  MaxLag = 1
  MaxDisturb <- MCDisturbances
SPECIFICATION FairSpec
CHECK_DEADLOCK FALSE
INVARIANTS ReadyMeansApplied
PROPERTIES OwnerConverges DeletionCompletes
