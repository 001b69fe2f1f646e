SPECIFICATION Spec
CONSTANTS
  acme = acme
  globex = globex
  None = None
  Orgs = {acme}
  NumRequests = 2
  Grants = {1, 2}
  OrgOf <- OneOrgOf
  GrantOrg <- OneGrantOrg
  Legacy = {}
  Txs <- TwoCalls
  Threshold = 1
INVARIANT NoDeadlock
CHECK_DEADLOCK FALSE
