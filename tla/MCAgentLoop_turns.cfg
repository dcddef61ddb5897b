SPECIFICATION Spec
CONSTANTS
  ToolKinds = {"edit", "wait", "watch", "sleep", "reload"}
  MaxCalls = 1
  Inputs = {"message", "stop", "clear", "reload", "error"}
  MaxInputs = 2
  MaxApiRetries = 1
  MaxAutoRetries = 2
  OtherLimits = {FALSE, TRUE}
PROPERTIES
  WaitEnds
  TurnEnds
  UserAnswered
