SPECIFICATION Spec
CONSTANTS
  r1 = r1  r2 = r2  n1 = n1  n2 = n2
  NoRun = NoRun  NoNode = NoNode
  Run <- MCRun
  Node <- MCNode
  MaxRev = 2
  Limit = 1
  MaxFaults = 1
PROPERTIES
  ImplementsFeed
CHECK_DEADLOCK FALSE
