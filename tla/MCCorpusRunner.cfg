CONSTANTS
  p1 = p1
  p2 = p2
  Pairs <- MCPairs
  Order <- MCOrder
  Workers = {w1, w2}
  NoPair = NoPair
  NoThread = NoThread
  MaxInvocations = 2
  MaxCrashes = 1
  MaxFailures = 1
SPECIFICATION Spec
INVARIANTS
  Accounted
  CompleteIsCertified
  IInv
PROPERTIES
  ImplementsLedger
  Independent
\* A run that has completed every pair need not be invoked again.
CHECK_DEADLOCK FALSE
