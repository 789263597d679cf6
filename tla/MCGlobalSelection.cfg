CONSTANTS
  Base = 2
  DigitLimit = 6
  Near = 0
  Same = 0
  AddTo = 1
  CopyFrom = 2
  CopyTo = 2
  PairAddTo = 1
  PairCopyTo = 2
  MaxCount = 3
  MaxSlots = 2
  Slack = 1
  DeltaConstants = {1, 4}
  Windows <- MCWindows
  HeaderLengths <- MCHeaderLengths
SPECIFICATION Spec
INVARIANTS
  TypeOK
  CertifiedIsOptimal
  ExactSolverCertifies
  SweepIsOptimal
  MoreSlotsNoWorse
  HeaderCarriesTable
\* A selection is one call: it returns or raises.
CHECK_DEADLOCK FALSE
