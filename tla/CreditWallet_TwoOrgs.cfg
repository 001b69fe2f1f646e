SPECIFICATION FairSpec
CONSTANTS
  acme = acme
  globex = globex
  Orgs = {acme, globex}
  NumRequests = 2
  NumGrants = 2
  OrgOf <- TwoOrgOf
  GrantOrg <- TwoGrantOrg
  Legacy = {2}
  HoldAmounts = {1, 2}
  Charges = {3}
  GrantAmounts = {2}
  Threshold = 1
  MaxReceives = 2
INVARIANTS
  LedgerAligned
  CreditConserved
PROPERTY HoldsSettle
