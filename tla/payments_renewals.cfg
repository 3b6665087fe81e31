CONSTANTS
  o1 = o1  o2 = o2  o3 = o3  q1 = q1  q2 = q2
  Order = {o1, o2, o3}
  TierOf <- Renewals
  Period = 1
  Horizon = 0
  Request = {q1}
  Scope <- Scopes
  NoOrder = NoOrder
  Faulty = {}
SPECIFICATION Spec
CHECK_DEADLOCK FALSE
INVARIANTS
  PaidTimeIsKept
