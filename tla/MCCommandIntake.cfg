SPECIFICATION Spec
CONSTANTS
  c1 = c1
  c2 = c2
  Commands <- MCCommands
  MaxSends = 2
  Env = {"crash", "ack_timeout", "journal_error", "bad_bearer"}
INVARIANTS
  AppliedAtMostOnce
  AcceptedIsJournalled
PROPERTIES
  EveryCommanderAnswered
CHECK_DEADLOCK FALSE
