SPECIFICATION Spec
CONSTANTS
  MicrosPerMillion = 4
  MaxOutputTokens = 6
  DefaultMax = 3
  Threshold = 2
  Runes = {1, 6}
  RequestedMaxes = {5}
  Prices <- OnePrice
  Balances = {3, 4}
  InputCounts = {0, 1, 3, 6}
  OutputCounts = {0, 1, 2, 3, 4, 5, 6, 8}
  StreamedRunes = {0, 3, 29}
INVARIANT OneRequestLeavesCredit
CHECK_DEADLOCK FALSE
