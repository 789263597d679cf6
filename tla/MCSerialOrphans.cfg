CONSTANTS
  p1 = p1
  p2 = p2
  p3 = p3
  p4 = p4
  Pairs <- MCPairs
  Order <- MCOrder
  Candidateless = {p1}
  Hopeless <- MCHopeless
  Unimproved <- MCUnimproved
  NoPair = NoPair
  MaxInvocations = 1
  Killable = FALSE
  MaxMishaps = 1
SPECIFICATION Spec
INVARIANT
  Serial
CHECK_DEADLOCK FALSE
