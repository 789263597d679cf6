CONSTANTS
  p1 = p1
  p2 = p2
  p3 = p3
  p4 = p4
  Pairs <- MCPairs
  Order <- MCOrder
  Candidateless = {p1}
  Hopeless <- MCHopeless
  Unimproved <- MCUnimproved
  NoPair = NoPair
  MaxInvocations = 2
  Killable = TRUE
  MaxMishaps = 1
SPECIFICATION Spec
INVARIANTS
  TypeOK
  CompleteIsCertified
  UncertifiableStayOpen
  FailFast
PROPERTIES
  HealsByRerun
\* When every pair that can be completed is, nobody need come back.
CHECK_DEADLOCK FALSE
