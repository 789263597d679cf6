CONSTANTS
  p1 = p1
  p2 = p2
  Pairs <- MCPairs
  Order <- MCOrder
  Workers = {w1, w2}
  NoPair = NoPair
  NoThread = NoThread
  MaxInvocations = 2
  MaxCrashes = 1
  MaxFailures = 0
SPECIFICATION Spec
PROPERTY Resumable
CHECK_DEADLOCK FALSE
