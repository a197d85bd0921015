SPECIFICATION MCSpec
CONSTANTS
  Options <- SomeJobs
  MaxJobs = 3
  IOErrors = TRUE
  Backends = {"mpiio", "pnetcdf"}
INVARIANT RowsRestored
INVARIANT OtherShapeRejected
INVARIANT RestartTogether
CHECK_DEADLOCK FALSE
