\* Two resources, two connections that appear at any time, a clock tick, drift detection on.
CONSTANTS
  o1 = o1
  o2 = o2
  c1 = c1
  c2 = c2
  h1 = h1
  Env = Env
  None = None
  Empty = "empty"
  Rank <- MCRank
  ConnOf <- MCConnOf
  Urls <- MCOneUrl
  Objects = {o1, o2}
  Kinds = {"GCSchedule"}
  Data = {"d1"}
  Conns = {c1, c2}
  Instances = {h1}
  DriftDetection = TRUE
  MaxInc = 1
  MaxGen <- MCNoEdit
  MaxUid = 2
  MaxNow = 1
  MaxLag = 1
  MaxDisturb <- MCNoDisturbance
SPECIFICATION FairSpec
CHECK_DEADLOCK FALSE
INVARIANT TypeOK
PROPERTIES NoTakeover GuardedWrite OwnerConverges OthersReportConflict
