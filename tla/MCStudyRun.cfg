CONSTANTS
  i1 = i1
  i2 = i2
  t1 = t1
  t2 = t2
  t3 = t3
  s1 = s1
  s2 = s2
  Inputs = {i1, i2}
  Locked = i1
  Tracers = {t1, t2, t3}
  Unfaithful = {t2}
  Fruitless = {i2}
  Unimproved <- MCUnimproved
  Studies <- MCStudies
  MaxStudies = 3
  MaxChanges = 1
  MaxKills = 1
SPECIFICATION Spec
SYMMETRY Symmetry
INVARIANTS
  TypeOK
  VerifiedIsCoherent
  AuditedIsCoherent
  FinishedVerifies
  FailuresAreJustified
  SweepIsOfItsTrace
CHECK_DEADLOCK FALSE
