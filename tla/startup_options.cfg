SPECIFICATION FairSpec
CONSTANTS
  Proc = {0, 1, 2}
  Home = 0
  MaxFailures = 2
  Blocks = 3
  Writes = 2
  N = 4
  Matrices <- MCMatrices
  Junk = {0, 2}
  Programs = {"start"}
  Sizes = {1, 3}
  Rounds = 2
  Argvs <- MCArgvs
  Backends = {"mpiio"}
INVARIANT OptionsDistributed
CHECK_DEADLOCK FALSE
