SPECIFICATION Spec
CONSTANTS
    MaxKeys = 2
    MaxProcs = 2
    MaxFaults = 1
    Codes = {0}
INVARIANTS
  ExitCodeIsTrue
  NoneUnmanaged
PROPERTIES
  HandleResolves
CHECK_DEADLOCK FALSE
