SPECIFICATION Spec
CONSTANTS
  p1 = p1
  p2 = p2
  p3 = p3
  NoProcess = NoProcess
  Processes <- MCTwo
  MaxRecords = 1
  MaxFailures = 1
INVARIANTS
  LiveIsReachable
PROPERTIES
  SuccessorSeenAlive
  FolderGetsBridge
CHECK_DEADLOCK FALSE
