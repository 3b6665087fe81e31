CONSTANTS
  o1 = o1  o2 = o2  o3 = o3  q1 = q1  q2 = q2
  Order = {o1, o2}
  TierOf <- Ladder
  Period = 1
  Horizon = 1
  Request = {q1, q2}
  Scope <- Scopes
  NoOrder = NoOrder
  Faulty = {o1}
SPECIFICATION FairSpec
CHECK_DEADLOCK FALSE
INVARIANTS
  EntitledAsOrdered
  PaidStaysInReach
PROPERTIES
  ImplementsPurchase
  NoWayBack
  PaidIsRecovered
