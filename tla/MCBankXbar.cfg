CONSTANTS
  NBANK = 4
  DEPTH = 4
  Blank = 0
  BankXor <- BitXor
  ReadBatches <- MCReadBatches
  WriteBatches <- MCWriteBatches
SPECIFICATION XbarSpec
INVARIANTS
  RoundsAreConflicts
PROPERTIES
  ImplementsMemory
