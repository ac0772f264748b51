CONSTANTS
  DescFirst = 4
  DataFirst = 1024
  Stride = 1024
  Tiles = 341
  Programs <- MCPrograms
  Inputs <- MCInputs
SPECIFICATION LoaderSpec
INVARIANTS
  InputsReachTheRun
