SPECIFICATION Spec
CONSTANTS
  ToolKinds = {"wait", "edit", "guarded", "queue_execute", "queue_pause", "invalid"}
  MaxCalls = 2
  Inputs = {"message", "stop", "clear", "reload", "error"}
  MaxInputs = 2
  MaxApiRetries = 0
  MaxAutoRetries = 2
  OtherLimits = {FALSE}
INVARIANTS
  ResultsPaired
  CallsAnswered
  ExecutedOnce
  OneStream
  WaitDelivered
