SPECIFICATION Spec
CONSTANTS
  c1 = c1
  c2 = c2
  Commands <- MCCommands
  MaxSends = 2
  Env = {"crash"}
INVARIANTS
  AcceptedIsApplied
CHECK_DEADLOCK FALSE
