CONSTANTS
  r1 = r1  r2 = r2  i1 = i1  q1 = q1
  Req = {r1, r2}
  Id = {i1}
  IdOf <- Ids
  Requester = {q1}
  From <- Froms
  Device = {d1, d2}
  Local = {d1, d2}
  Connector = {d1, d2}
  Shell = {}
  Modes = {FALSE, TRUE}
  MaxPerRequester = 2
  MaxPerDevice = 2
  NoConn = NoConn
  NoReq = NoReq
SPECIFICATION Spec
INVARIANTS
  AtMostOneAnswer
  OrdinaryRequestsAccounted
  NoOrphanPending
  ReplacedTargetDrained
SYMMETRY SameAgain
