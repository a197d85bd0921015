SPECIFICATION FairSpec
CONSTANTS
  Rows = 5
  Cols = 3
  NProcs = 2
  Iter = 1
  Starts <- MCStarts
  NThreads = 2
  Programs = {"omp3"}
  GRows = 1
  GCols = 1
  PRows = 1
  PCols = 1
INVARIANT NewStateForAll
CHECK_DEADLOCK FALSE
