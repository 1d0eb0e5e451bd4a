SPECIFICATION FairSpec
CONSTANTS
  Runs = {1, 2}
  MaxIterations = 3
  MaxRetries = 1
  CallIds = {1, 2, 3}
  MaxBatch = 2
  MinHistory = 3
  MaxResumes = 1
  MaxCrashes = 1
  Concurrent = FALSE
INVARIANTS TypeOK RequestWellFormed HistoryUsable
PROPERTIES RunsEnd
CHECK_DEADLOCK FALSE
