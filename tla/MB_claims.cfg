\* One Member of a claimed group; a failed call, an incomplete list or a change of the group.
CONSTANTS
  m1 = m1
  m2 = m2
  c1 = c1
  u1 = u1
  g1 = g1
  Env = Env
  RefOf <- MCRefOf
  GroupOf <- MCGroupOf
  Members = {m1}
  Claims = {c1}
  Users = {}
  Groups = {g1}
  Roles = {"guest"}
  CreationPolicies = {"CreateOrAdopt"}
  DeletionPolicies = {"Delete"}
  DriftDetection = FALSE
  Disturbances = {"call", "list", "group"}
  StartUids = {1}
  MaxInc = 1
  MaxGen = 1
  MaxUid = 1
  MaxDisturb = 1
SPECIFICATION FairSpec
CHECK_DEADLOCK FALSE
PROPERTIES ClaimOutlivesItsMembers ClaimDeletionCompletes ResourcesGetReady
