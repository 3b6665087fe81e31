SPECIFICATION Spec
CONSTANTS
  n1 = n1
  n2 = n2
  f1 = f1
  f2 = f2
  w1 = w1
  foreign = foreign
  worker = worker
  Node = {n1, n2}
  Conn = {f1, f2, w1}
  Body = {foreign, worker}
  LegacyBody = {}
  OfficialBody = worker
  NodeOf <- TwoNodes
  BodyOf <- Bodies
  NoConn = NoConn
  NoBody = NoBody
  Shared = TRUE
  CallsMayFail = TRUE
  Flaky = {n2}
INVARIANTS OneClientPerBody ClientsAreServed LiveClientIsRouted
PROPERTIES ImplementsExclusiveLease
