SPECIFICATION FairSpec
CONSTANTS
  GRows = 3
  GCols = 2
  PRows = 3
  PCols = 2
  Iter = 2
  Exchange = "pt2pt"
INVARIANT LinesRight
CHECK_DEADLOCK FALSE
