\* One Robot; the user changes secretRef.
CONSTANTS
  o1 = o1
  s1 = s1
  s2 = s2
  Env = Env
  None = None
  RobotName <- MCRobotName
  Dest <- MCDest
  Objects = {o1}
  Secrets = {s1, s2}
  Data = {"d1"}
  CreationPolicies = {"CreateOrAdopt"}
  DeletionPolicies = {"Delete"}
  DriftDetection = TRUE
  MaxInc = 1
  MaxGen = 2
  MaxUid = 1
  MaxNow = 0
  MaxDisturb = 0
  LateEvents = TRUE
SPECIFICATION FairSpec
CHECK_DEADLOCK FALSE
PROPERTY CredentialIsWritten
