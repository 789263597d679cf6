CONSTANTS
  Base = 16
  DigitLimit = 2
  Last = 4
  Anchor = 2
  Header <- MCHeader
  DeltaConstant = 2
  WindowPrefix = 1
  t1 = t1
  t2 = t2
  w1 = w1
  w2 = w2
  Traces = {t1, t2}
  Optima <- MCOptima
  Workers = {w1, w2}
  Sweeps <- MCSweeps
  MaxSweeps = 2
  MaxChanges = 1
  MaxFailures = 1
SYMMETRY Symmetry
SPECIFICATION Spec
INVARIANTS
  TypeOK
  CertificateIsOptimal
  SweepAccounts
CHECK_DEADLOCK FALSE
