\* The connection is deleted and created again under the same name.
CONSTANTS
  o1 = o1
  o2 = o2
  Env = Env
  HarborName <- MCHarborName
  Objects = {o1}
  Kinds = {"Label"}
  Data = {"d1"}
  CreationPolicies = {"Create"}
  DeletionPolicies = {"Orphan"}
  DriftDetection = FALSE
  MaxInc = 1
  MaxGen = 1
  MaxUid = 2
  MaxDisturb = 1
SPECIFICATION FairSpec
CHECK_DEADLOCK FALSE
PROPERTIES OrphanDeletionCompletes
