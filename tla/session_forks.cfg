SPECIFICATION FairSpec
CONSTANTS
  s1 = s1  f1 = f1  f2 = f2  b1 = b1  b2 = b2
  NoBody = NoBody  NoTopic = NoTopic
  Source = {s1}
  Fork <- MCFork
  Body <- MCBody
  MaxRev = 1
  MaxTurns = 1
INVARIANTS
  ReadyCopiesAgree
  FenceMatches
PROPERTIES
  ImplementsDecision
  PendingForksEnd
CHECK_DEADLOCK FALSE
