\* One Member of a user: edits, all policies, two connections, one disturbance.
CONSTANTS
  m1 = m1
  m2 = m2
  c1 = c1
  u1 = u1
  g1 = g1
  Env = Env
  RefOf <- MCRefOf
  GroupOf <- MCGroupOf
  Members = {m1}
  Claims = {}
  Users = {u1}
  Groups = {}
  Roles = {"guest", "admin"}
  CreationPolicies = {"Create", "Adopt", "CreateOrAdopt"}
  DeletionPolicies = {"Delete", "Orphan"}
  DriftDetection = TRUE
  Disturbances = {"call", "list", "secret", "crash", "connection", "reference", "group", "membership"}
  StartUids = {1}
  MaxInc = 1
  MaxGen = 2
  MaxUid = 2
  MaxDisturb = 1
SPECIFICATION FairSpec
CHECK_DEADLOCK FALSE
INVARIANTS TypeOK ReadyMeansRole
PROPERTIES GuardedMembership MembershipGoneFirst RolesLeftToOthers MemberDeletionCompletes MembersConverge
