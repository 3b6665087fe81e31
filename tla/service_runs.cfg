CONSTANTS
  n1 = n1  r1 = r1  r2 = r2  w1 = w1  w2 = w2  sw = sw  sx = sx  sb = sb  sc = sc
  Run = {r1, r2}
  Session = {sw, sx, sb, sc}
  Worker = {w1, w2}
  Node = {n1}
  KindOf <- Kinds
  Placements <- Places
  HomeOf <- Homes
  MaxAttempts = 2
  MaxInflight = 1
  Nobody = Nobody
  NoRun = NoRun
  CallsMayFail = TRUE
  CountsMayFail = FALSE
SPECIFICATION FairSpec
CHECK_DEADLOCK FALSE
INVARIANTS
  ReceiptTellsOutcome
  ChargesAgree
  InflightBounded
PROPERTIES
  ImplementsDecision
  ActiveRunsMoveOn
  WorkerRunsConclude
  FinishedRunsAreSettled
