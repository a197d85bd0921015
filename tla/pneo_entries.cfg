SPECIFICATION FairSpec
CONSTANTS
  NumProcs = 7
  MaxSteps = 3
  Connections <- Pneofile
  Programs = {"fence"}
INVARIANT EntriesNameSources
CHECK_DEADLOCK FALSE
