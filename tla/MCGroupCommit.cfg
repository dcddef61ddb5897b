SPECIFICATION Spec
CONSTANTS
  s1 = s1
  s2 = s2
  Submitters <- MCSubmitters
  Capacity = 2
  MaxBatch = 2
  MaxJobs = 3
  AppendErrors = TRUE
  SyncErrors = TRUE
INVARIANTS
  ReturnedIsDurable
  SubmitOrder
  NothingLost
PROPERTIES
  CallsReturn
  ShutdownStops
CHECK_DEADLOCK FALSE
