CONSTANTS
  trial = trial
  starter = starter
  p1 = p1
  p2 = p2
  NoSub = NoSub
  NoPay = NoPay
  NoInvoice = NoInvoice
  NoEvent = NoEvent
  Subs <- MCSubs
  PlanOf <- MCPlanOf
  Payments = {p1, p2}
  PaidAt <- MCPaidAt
  Events <- MCEvents
  Histories <- MCHistories
  Handlers = {h1, h2}
  Legacy = {trial}
  MaxMonth = 1
  MaxFailures = 1
SYMMETRY Symmetry
SPECIFICATION Spec
INVARIANTS MonthGrantedOnce PaidForWhenQuiet
PROPERTIES FullRefundStays
