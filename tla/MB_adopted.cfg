\* One Member of a user under Create; another client replaces its membership.
CONSTANTS
  m1 = m1
  m2 = m2
  c1 = c1
  u1 = u1
  g1 = g1
  Env = Env
  RefOf <- MCRefOf
  GroupOf <- MCGroupOf
  Members = {m1}
  Claims = {}
  Users = {u1}
  Groups = {}
  Roles = {"guest", "admin"}
  CreationPolicies = {"Create"}
  DeletionPolicies = {"Delete"}
  DriftDetection = TRUE
  Disturbances = {"membership"}
  StartUids = {1}
  MaxInc = 1
  MaxGen = 1
  MaxUid = 1
  MaxDisturb = 2
SPECIFICATION Spec
CHECK_DEADLOCK FALSE
PROPERTY UnknownMembershipNeedsAdoption
