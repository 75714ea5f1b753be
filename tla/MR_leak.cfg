\* No disturbance at all: a user deletes the resource while its object is being created.
CONSTANTS
  o1 = o1
  o2 = o2
  Env = Env
  HarborName <- MCHarborName
  Objects = {o1}
  Kinds = {"Label"}
  Data = {"d1"}
  CreationPolicies = {"Create"}
  DeletionPolicies = {"Delete"}
  DriftDetection = FALSE
  MaxInc = 1
  MaxGen = 1
  MaxUid = 1
  MaxDisturb = 0
SPECIFICATION Spec
CHECK_DEADLOCK FALSE
INVARIANTS NothingLeftBehind
