CONSTANTS
  SramBase = 3
  SramSize = 16
  DdrFirst = 64
  DdrEnd = 96
  DdrStride = 4
  Word = 256
  MaxAllocs = 3
  MaxLines = 4
  Jobs <- MCJobs
  DescFirst = 61
  DataFirst = 64
  Stride = 4
  Programs = {}
  Inputs = {}
  TracesOf <- MCTracesOf
SPECIFICATION MapSpec
INVARIANTS
  BumpIsSafe
  DdrIsSafe
  OwnDescriptor
  TensorsAreApart
