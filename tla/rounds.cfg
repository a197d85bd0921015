SPECIFICATION AllSpec
CONSTANTS
  Rows = 7
  Cols = 3
  NProcs = 3
  Iter = 3
  Starts <- MCStarts
  NThreads = 2
  Programs = {"pt2pt", "fence", "pscw", "omp1", "omp2", "omp3", "mesh"}
  GRows = 3
  GCols = 3
  PRows = 2
  PCols = 2
  NumProcs = 3
  MaxSteps = 9
  Connections <- MCFeedback
  PneoPrograms = {"fence", "pscw"}
INVARIANT BoundedMessages
INVARIANT NothingLeftOver
PROPERTY NothingOutsideEpoch
PROPERTY RoundsComputed
PROPERTY RoundsEnd
CHECK_DEADLOCK FALSE
