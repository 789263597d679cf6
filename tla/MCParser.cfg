CONSTANTS
  Base = 4
  DigitLimit = 2
  Near = 0
  Same = 0
  AddTo = 1
  CopyFrom = 2
  CopyTo = 2
  PairAddTo = 1
  PairCopyTo = 2
  MaxCount = 4
  MaxSlots = 2
  Opcodes <- MCOpcodes
  Programs <- MCPrograms
  Tables <- MCTables
SPECIFICATION RivalSpec
INVARIANTS
  TypeOK
  Optimal
  SectionMatchesParse
  ValidTablesEncode
\* The parse is one call: it returns or raises, and the rival finishes.
CHECK_DEADLOCK FALSE
