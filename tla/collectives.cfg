SPECIFICATION FairSpec
CONSTANTS
  Proc = {0, 1, 2}
  Home = 0
  MaxFailures = 2
  Blocks = 3
  Writes = 2
  N = 4
  Matrices <- MCMatrices
  Junk = {0, 2}
  Programs = {"mutex", "copy", "own", "csr", "start", "shared"}
  Sizes = {1, 3}
  Rounds = 2
  Argvs <- MCArgvs
  Backends = {"stdout", "mpiio"}
INVARIANT WaitlistOutlivesUse
INVARIANT NothingLeaks
INVARIANT SameAnswer
INVARIANT CopiesEqual
INVARIANT SizesHold
INVARIANT RowsReadBack
INVARIANT FilesRight
INVARIANT ReadBack
INVARIANT OptionsAgree
INVARIANT RestartNotIgnored
PROPERTY EveryoneReturns
CHECK_DEADLOCK FALSE
