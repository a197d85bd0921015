SPECIFICATION AnySpec
CONSTANTS
  Rows = 5
  NProcs = 4
  Iter = 5
  GRows = 2
  GCols = 3
  PRows = 2
  PCols = 3
  MeshIter = 2
  Exchange = "fence"
INVARIANT FramesRight
INVARIANT BacklogBounded
INVARIANT LinesRight
PROPERTY DisplaysEnd
CHECK_DEADLOCK FALSE
