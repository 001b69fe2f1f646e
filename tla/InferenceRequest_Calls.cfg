SPECIFICATION Spec
CONSTANTS
  c1 = c1
  c2 = c2
  u1 = u1
  Calls = {c1, c2}
  Users = {u1}
  UserOf <- OneUser
  Playground = {c1}
  Max = 1
  Unit = 2
  Burst = 4
  Rate = 1
  PlayBurst = 2
  PlayRate = 1
  MaxClock = 3
  MaxCrashes = 1
INVARIANTS
  SlotsMatchCalls
  HoldHandedOver
PROPERTIES
  EverythingReturns
