SPECIFICATION Spec
CONSTANTS
    MaxMessages = 2
    MaxSaves = 4
    MaxCrashes = 1
    MaxShared = 2
INVARIANTS
  ExitPersistsAll
  ListedMessageIntact
PROPERTIES
  LatestStateWins
  SavesLand
CHECK_DEADLOCK FALSE
