SPECIFICATION Spec
CONSTANTS
  MaxTag = 5
  Crash = {3}
  Sick = {4}
  MaxApplies = 2
  MaxKills = 1
  MaxSwitches = 1
INVARIANTS
  WayBack
  ActiveIsProven
  NeverOpensPartial
PROPERTIES
  StableMovesForward
  SelfHeals
CHECK_DEADLOCK FALSE
