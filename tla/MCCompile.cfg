CONSTANTS
  A = A
  B = B
  C = C
  D = D
  R = R
  G = G
  MaxOps = 3
  Loops = TRUE
  Single = TRUE
  Args <- MCArgs
  Allocs <- MCAllocs
  Globals <- MCGlobals
  TileK = 1
  Trips = 2
  Functions <- MCFunctions
  SramBase = 8
  SramSize = 80
  DdrFirst = 100
  DdrEnd = 200
  DdrStride = 9
  Word = 1000
  Jobs = {}
SPECIFICATION Spec
INVARIANTS
  LoadsMeetLastStore
  
  ElidedLoadsAreRedundant
  ErasedStoresAreDead
  ChainsStayResident
  TraceComputesTheFunction
  
  OnlyStoreThenLoadUnfenced
