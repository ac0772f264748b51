CONSTANTS
  MaxCols = 4
  Rows <- MCRows
SPECIFICATION RSpec
INVARIANTS
  StoredIsNearest
  MaxIsLargest
  ArgmaxAgrees
  MaximumIsAnElement
  BfloatIsNearest
