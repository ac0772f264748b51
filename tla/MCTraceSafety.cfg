CONSTANTS
  MaxLen = 4
  MaxDim = 3
  Programs <- MCPrograms
  Addr <- MCAddr
SPECIFICATION Spec
INVARIANTS
  TypeOK
  CheckerIsExact
  CheckerSeesTheCells
  CleanTraceReadsTheSame
  CleanTraceLeavesTheSame
