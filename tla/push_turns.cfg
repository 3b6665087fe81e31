SPECIFICATION FairSpec
CONSTANTS
  r1 = r1
  r2 = r2
  m1 = m1
  m2 = m2
  c1 = c1
  c2 = c2
  Run = {r1, r2}
  Msg = {m1}
  Courier = {c1, c2}
  MaxTime = 2
  NoRun = NoRun
  Summary = Summary
INVARIANTS EndedTurnsAreMinded
PROPERTIES ImplementsNotices EndedTurnsKeepWords EndedTurnsAreTold
CHECK_DEADLOCK FALSE
