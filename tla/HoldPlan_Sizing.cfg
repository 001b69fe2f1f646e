SPECIFICATION Spec
CONSTANTS
  MicrosPerMillion = 4
  MaxOutputTokens = 6
  DefaultMax = 3
  Threshold = 2
  Runes = {0, 1, 6, 17}
  RequestedMaxes <- SmallRequests
  Prices <- SmallPrices
  Balances <- SmallBalances
  InputCounts = {0, 1, 3, 6}
  OutputCounts = {0, 1, 2, 3, 4, 5, 6, 8}
  StreamedRunes = {0, 3, 29}
INVARIANTS
  TypeOK
  PlanPlaceable
  PlanMaximal
  RejectionJustified
  ChargeCovered
  FreezeTight
CHECK_DEADLOCK FALSE
