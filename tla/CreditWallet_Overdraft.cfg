SPECIFICATION Spec
CONSTANTS
  acme = acme
  globex = globex
  Orgs = {acme}
  NumRequests = 3
  NumGrants = 1
  OrgOf <- LateOrgOf
  GrantOrg <- RaceGrantOrg
  Legacy = {}
  HoldAmounts = {2}
  Charges = {2}
  GrantAmounts = {2}
  Threshold = 1
  MaxReceives = 1
PROPERTY SingleRequestOverdraws
