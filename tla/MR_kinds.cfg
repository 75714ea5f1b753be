\* One resource of each kind: edits, policy changes, deletion, a lost connection, one fault.
CONSTANTS
  o1 = o1
  o2 = o2
  Env = Env
  HarborName <- MCHarborName
  Objects = {o1}
  Kinds <- MCKinds
  Data = {"d1", "d2"}
  CreationPolicies = {"Create", "Adopt", "CreateOrAdopt"}
  DeletionPolicies = {"Delete", "Orphan"}
  DriftDetection = FALSE
  MaxInc = 1
  MaxGen = 2
  MaxUid = 2
  MaxDisturb = 1
SPECIFICATION Spec
CHECK_DEADLOCK FALSE
INVARIANTS TypeOK ReadyMeansApplied CreatePolicyOwnsItsObject
PROPERTIES GuardedMutation CleanedBeforeFinalized
