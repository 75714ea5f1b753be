\* One Robot, one fault: edits, deletion, a foreign Secret, a lifetime that passes.
CONSTANTS
  o1 = o1
  s1 = s1
  s2 = s2
  Env = Env
  None = None
  RobotName <- MCRobotName
  Dest <- MCDest
  Objects = {o1}
  Secrets = {s1}
  Data = {"d1"}
  CreationPolicies = {"Adopt", "CreateOrAdopt"}
  DeletionPolicies = {"Delete"}
  DriftDetection = TRUE
  MaxInc = 1
  MaxGen = 2
  MaxUid = 2
  MaxNow = 1
  MaxDisturb = 1
  LateEvents = FALSE
SPECIFICATION FairSpec
CHECK_DEADLOCK FALSE
INVARIANTS TypeOK AnnouncedAfterStored
PROPERTIES UnrelatedSecretsKept CredentialArrives DeletionCompletes
