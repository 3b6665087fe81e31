SPECIFICATION FairSpec
CONSTANTS
  r1 = r1  r2 = r2  n1 = n1  n2 = n2
  NoRun = NoRun  NoNode = NoNode
  Run = {r1}
  Node <- MCNode
  MaxRev = 2
  Limit = 1
  MaxFaults = 1
PROPERTIES
  OutboxDrains
  WatchedRunsSettle
CHECK_DEADLOCK FALSE
