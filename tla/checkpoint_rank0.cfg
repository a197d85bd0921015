SPECIFICATION MCSpec
CONSTANTS
  Options <- SomeJobs
  MaxJobs = 2
  IOErrors = FALSE
  Backends = {"mpiio"}
INVARIANT RestoresAllRows
CHECK_DEADLOCK FALSE
