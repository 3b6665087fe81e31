CONSTANTS
  n1 = n1  n2 = n2  a1 = a1  a2 = a2  b1 = b1  r1 = r1
  Node = {n1, n2}
  Conn = {a1, b1}
  NodeOf <- Dials
  Run = {r1}
  Unnamed = {}
  NoConn = NoConn
  CallsMayFail = TRUE
SPECIFICATION FairSpec
INVARIANTS
  TimersSpareConnected
PROPERTIES
  ImplementsExclusiveLease
  RecoveredWasQuiet
  AbandonedRunsEnd
