SPECIFICATION Spec
CONSTANTS
  acme = acme
  globex = globex
  None = None
  Orgs = {acme, globex}
  NumRequests = 3
  Grants = {1, 2}
  OrgOf <- MixedOrgOf
  GrantOrg <- MixedGrantOrg
  Legacy = {3}
  Txs <- Mixed
  Threshold = 1
INVARIANTS
  UsedIsLedger
  OnlyRecordsDeadlock
PROPERTIES
  ImplementsAccount
CHECK_DEADLOCK FALSE
