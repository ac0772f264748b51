CONSTANTS
  SramBase = 65536
  SramSize = 128
  DdrFirst = 262160
  DdrEnd = 786432
  DdrStride = 16
  Word = 1048576
  Jobs <- RealJobs
SPECIFICATION AllocSpec
INVARIANTS
  AcceptedMeansDisjoint
