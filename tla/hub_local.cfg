SPECIFICATION FairSpec
CONSTANTS
  n1 = n1
  n2 = n2
  f1 = f1
  f2 = f2
  w1 = w1
  foreign = foreign
  worker = worker
  Node = {n1}
  Conn = {f1, f2, w1}
  Body = {foreign, worker}
  LegacyBody = {}
  OfficialBody = worker
  NodeOf <- OneNode
  BodyOf <- Bodies
  NoConn = NoConn
  NoBody = NoBody
  Shared = FALSE
  CallsMayFail = TRUE
  Flaky = {}
PROPERTIES ClosedClientLeaves OrphanLeaseComesBack OfficialTakesOver
