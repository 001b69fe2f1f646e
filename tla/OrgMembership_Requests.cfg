CONSTANTS
  Users = {u1, u2, u3}
  NoUser = NoUser
  Handlers = {h1, h2}
  Plans = {0, 1}
  Unlimited = Unlimited
  OrgLimit <- MCOrgLimit
  MemberLimit <- MCMemberLimit
  Orgs = {1, 2}
  Kinds <- MCKinds
  Mixes <- MCMixes
  MaxBlocked = 1
SYMMETRY Symmetry
SPECIFICATION Spec
INVARIANTS WithinPlan WelcomedOnce BarredGetNothing
