SPECIFICATION Spec
CONSTANTS
  acme = acme
  globex = globex
  Orgs = {acme}
  NumRequests = 2
  NumGrants = 1
  OrgOf <- RaceOrgOf
  GrantOrg <- RaceGrantOrg
  Legacy = {2}
  HoldAmounts = {1, 2}
  Charges = {0, 1, 3}
  GrantAmounts = {2, 4}
  Threshold = 1
  MaxReceives = 2
INVARIANTS
  LedgerAligned
  CreditConserved
  ChargeBacked
  OverdraftBounded
  DeletedIsRecorded
PROPERTIES
  SettlementFinal
  ImplementsAccount
