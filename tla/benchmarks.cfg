SPECIFICATION FairSpec
CONSTANTS
  NumTasksWorld = 3
  TasksPerNode = 1
  Repetitions = 2
  Cases <- IorCases
  Draws <- IorDraws
  Size = 3
  Jobs <- MdtestJobs
  Benchmarks = {"ior", "mdtest"}
INVARIANT NoFalseAlarm
INVARIANT PartsHold
INVARIANT SizesAgree
INVARIANT EvenWearOut
INVARIANT NoFailure
INVARIANT EveryItemVisited
INVARIANT SameNumberOfItems
INVARIANT FilesLeft
PROPERTY BenchmarksEnd
CHECK_DEADLOCK FALSE
