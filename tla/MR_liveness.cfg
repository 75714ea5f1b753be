\* One resource, two disturbances, fair worker, informer and timers.
CONSTANTS
  o1 = o1
  o2 = o2
  Env = Env
  HarborName <- MCHarborName
  Objects = {o1}
  Kinds = {"Label", "Project"}
  Data = {"d1", "d2"}
  CreationPolicies = {"CreateOrAdopt"}
  DeletionPolicies = {"Delete"}
  DriftDetection = TRUE
  MaxInc = 1
  MaxGen = 1
  MaxUid = 1
  MaxDisturb = 2
SPECIFICATION FairSpec
CHECK_DEADLOCK FALSE
PROPERTIES DeletionCompletes Converges ImplementsCustody
