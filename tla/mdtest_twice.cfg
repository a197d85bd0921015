SPECIFICATION FairSpec
CONSTANTS
  NumTasksWorld = 3
  TasksPerNode = 1
  Repetitions = 2
  Cases <- IorCases
  Draws <- IorDraws
  Size = 2
  Jobs <- WallTwice
  Benchmarks = {"mdtest"}
INVARIANT SameNumberOfItems
CHECK_DEADLOCK FALSE
